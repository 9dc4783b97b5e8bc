------------------------------ MODULE Alerter ------------------------------
(***************************************************************************)
(* The alerter (scripts/alerter.py): a job that runs every minute, looks   *)
(* at the gateway's health and metrics, and sends a message when something *)
(* fails and another when it has recovered.  What it knows between runs is *)
(* in Redis, in five keys that expire when nothing refreshes them.         *)
(*                                                                         *)
(* A step of a run ends where a message is sent: a crash may come between  *)
(* the message and the write that remembers it.  Whether a message arrives *)
(* is left out: the code does not look at it.                              *)
(***************************************************************************)
EXTENDS Integers, FiniteSets, SequencesExt

CONSTANTS
    Backends,
    Failures,       \* ways the health check itself may fail
    DownFails,      \* ALERT_BACKEND_DOWN_CONSECUTIVE_FAILS
    RecoveryOks,    \* ALERT_RECOVERY_CONSECUTIVE_OK
    Windows,        \* ALERT_FALLBACK_WINDOW_CONSECUTIVE
    MinRequests,    \* ALERT_FALLBACK_MIN_DELTA_REQUESTS
    HighRate(_, _), \* HighRate(n, d): n of d is at or above the threshold
    MaxTotal,       \* bound: requests between two starts of the gateway
    MaxCrashes,     \* bound: runs that crash
    Fallback,       \* the alert kind fallback_rate
    None

ASSUME AlerterAssumption ==
    /\ IsFiniteSet(Backends) /\ IsFiniteSet(Failures)
    /\ Backends \cap Failures = {} /\ Fallback \notin Backends \cup Failures
    /\ "ok" \notin Failures
    /\ DownFails \in Nat \ {0} /\ RecoveryOks \in Nat \ {0} /\ Windows \in Nat \ {0}
    /\ MinRequests \in Nat \ {0} /\ MaxTotal \in Nat /\ MaxCrashes \in Nat
    /\ None \notin [requests : Nat, fallbacks : Nat]
    /\ None \notin [kind : Failures \cup Backends \cup {Fallback}, what : {"alert", "recovery"}]

VARIABLES
    \* the gateway
    proxy,      \* "ok", or the way the health check fails
    up,         \* backends that are up
    total,      \* counters: requests, and fallback hits among them
    \* Redis
    fails,      \* alerter:backend_consec_fails
    oks,        \* alerter:backend_consec_ok
    active,     \* alerter:active
    snapshot,   \* alerter:metrics_snapshot
    consec,     \* alerter:fallback_consec
    \* a run
    step,       \* its next task, 0 for none
    sending,    \* the message that was sent and not yet remembered
    \* history
    fresh,      \* keys the last run has refreshed
    downs,      \* downs[b]: times b was seen down since it was seen up
    ups,        \* ups[b]: and the other way round
    expected,   \* expected[k]: the message of kind k that comes next, or either
    base,       \* the counters as they were when they were last looked at
    sound,      \* windows in consec whose own rate was high
    restarted,  \* the gateway has started again since consec was 0
    crashes

gateway == <<proxy, up, total>>
backendState == <<fails, oks, downs, ups>>
fallbackState == <<snapshot, consec, base, sound, restarted>>
vars == <<gateway, backendState, fallbackState, active, step, sending, fresh,
          expected, crashes>>

Kinds == Failures \cup Backends \cup {Fallback}

Zero == [requests |-> 0, fallbacks |-> 0]

\* The tasks of a run in their order: recover from failures of the health
\* check, look at every backend, look at the metrics.
Plan ==
    [n \in 1..Len(SetToSeq(Failures)) |-> [do |-> "recover", of |-> SetToSeq(Failures)[n]]]
    \o [n \in 1..Len(SetToSeq(Backends)) |-> [do |-> "check", of |-> SetToSeq(Backends)[n]]]
    \o <<[do |-> "metrics", of |-> Fallback]>>

Doing(what, of) == step # 0 /\ sending = None /\ Plan[step] = [do |-> what, of |-> of]

Advance == step' = IF step = 0 \/ step = Len(Plan) THEN 0 ELSE step + 1

\* A counter counts up to where more makes no difference.
UpTo(n, bound) == IF n < bound THEN n + 1 ELSE n

-----------------------------------------------------------------------------
(* Messages *)

Send(k, what) ==
    /\ sending' = [kind |-> k, what |-> what]
    /\ expected' = [expected EXCEPT ![k] = IF what = "alert" THEN "recovery" ELSE "alert"]
    /\ UNCHANGED step

Silent == Advance /\ UNCHANGED <<sending, expected>>

\* _fire_once: nothing while the alert is active.
FireOnce(k) == IF k \in active THEN Silent ELSE Send(k, "alert")

\* _clear_and_recover: nothing unless it is.
ClearAndRecover(k) == IF k \in active THEN Send(k, "recovery") ELSE Silent

\* A variant that must fail: the key is deleted, not the field.
ClearedAll(k) == {}

\* clear_active
Cleared(k) == active \ {k}

\* The message is sent: remember it.  A backend that has recovered starts its
\* count anew.
Remember ==
    /\ sending # None
    /\ IF sending.what = "alert"
       THEN /\ active' = active \cup {sending.kind}
            /\ fresh' = fresh \cup {"active"}
            /\ UNCHANGED oks
       ELSE /\ active' = Cleared(sending.kind)
            /\ oks' = IF sending.kind \in Backends THEN [oks EXCEPT ![sending.kind] = 0] ELSE oks
            /\ UNCHANGED fresh
    /\ sending' = None
    /\ Advance
    /\ UNCHANGED <<gateway, fails, downs, ups, fallbackState, expected, crashes>>

-----------------------------------------------------------------------------
(* A run *)

\* The health check; what it says holds until the run is over.  If it fails the run reports that and nothing else.
Start ==
    /\ step = 0 /\ sending = None
    /\ fresh' = {}
    /\ IF proxy = "ok"
       THEN step' = 1 /\ UNCHANGED <<sending, expected>>
       ELSE FireOnce(proxy)
    /\ UNCHANGED <<gateway, backendState, fallbackState, active, crashes>>

Recover(k) ==
    /\ Doing("recover", k)
    /\ ClearAndRecover(k)
    /\ UNCHANGED <<gateway, backendState, fallbackState, active, fresh, crashes>>

\* A variant that must fail: only the run in which the limit is met reports,
\* also when the alert has been forgotten since.
CheckDownOnce(b) ==
    /\ Doing("check", b) /\ b \notin up
    /\ oks' = [oks EXCEPT ![b] = 0]
    /\ fails' = [fails EXCEPT ![b] = UpTo(@, DownFails)]
    /\ fresh' = fresh \cup {"fails"}
    /\ downs' = [downs EXCEPT ![b] = UpTo(@, DownFails)]
    /\ ups' = [ups EXCEPT ![b] = 0]
    /\ IF fails[b] + 1 = DownFails THEN FireOnce(b) ELSE Silent
    /\ UNCHANGED <<gateway, fallbackState, active, crashes>>

\* A backend that is down counts towards its alert.
CheckDown(b) ==
    /\ Doing("check", b) /\ b \notin up
    /\ oks' = [oks EXCEPT ![b] = 0]
    /\ fails' = [fails EXCEPT ![b] = UpTo(@, DownFails)]
    /\ fresh' = fresh \cup {"fails"}
    /\ downs' = [downs EXCEPT ![b] = UpTo(@, DownFails)]
    /\ ups' = [ups EXCEPT ![b] = 0]
    /\ IF fails[b] + 1 >= DownFails THEN FireOnce(b) ELSE Silent
    /\ UNCHANGED <<gateway, fallbackState, active, crashes>>

\* A variant that must fail: the failures before are kept.
CheckUpForgetful(b) ==
    /\ Doing("check", b) /\ b \in up
    /\ downs' = [downs EXCEPT ![b] = 0]
    /\ ups' = [ups EXCEPT ![b] = UpTo(@, RecoveryOks)]
    /\ IF b \in active
       THEN /\ oks' = [oks EXCEPT ![b] = UpTo(@, RecoveryOks)]
            /\ fresh' = fresh \cup {"oks"}
            /\ IF oks[b] + 1 >= RecoveryOks THEN ClearAndRecover(b) ELSE Silent
       ELSE oks' = [oks EXCEPT ![b] = 0] /\ Silent /\ UNCHANGED fresh
    /\ UNCHANGED <<gateway, fallbackState, active, fails, crashes>>

\* A variant that must fail: every run starts counting again.
CheckUpRestarting(b) ==
    /\ Doing("check", b) /\ b \in up
    /\ fails' = [fails EXCEPT ![b] = 0]
    /\ downs' = [downs EXCEPT ![b] = 0]
    /\ ups' = [ups EXCEPT ![b] = UpTo(@, RecoveryOks)]
    /\ oks' = [oks EXCEPT ![b] = 0]
    /\ IF b \in active /\ oks[b] + 1 >= RecoveryOks THEN ClearAndRecover(b) ELSE Silent
    /\ UNCHANGED <<gateway, fallbackState, active, fresh, crashes>>

\* One that is up again, or disabled, counts towards its recovery.
CheckUp(b) ==
    /\ Doing("check", b) /\ b \in up
    /\ fails' = [fails EXCEPT ![b] = 0]
    /\ downs' = [downs EXCEPT ![b] = 0]
    /\ ups' = [ups EXCEPT ![b] = UpTo(@, RecoveryOks)]
    /\ IF b \in active
       THEN /\ oks' = [oks EXCEPT ![b] = UpTo(@, RecoveryOks)]
            /\ fresh' = fresh \cup {"oks"}
            /\ IF oks[b] + 1 >= RecoveryOks THEN ClearAndRecover(b) ELSE Silent
       ELSE oks' = [oks EXCEPT ![b] = 0] /\ Silent /\ UNCHANGED fresh
    /\ UNCHANGED <<gateway, fallbackState, active, crashes>>

Rate(window) == HighRate(window.fallbacks, window.requests)

\* The growth of the counters from one reading to another.
Growth(from, to) ==
    [requests |-> to.requests - from.requests, fallbacks |-> to.fallbacks - from.fallbacks]

\* A variant that must fail: only a window without requests is discarded.
NegativeNever(window) == FALSE

\* The counters were reset between the readings.
Negative(window) == window.requests < 0 \/ window.fallbacks < 0

\* What the alerter takes for the window since its last run.
Window(read) == Growth(snapshot, read)

\* A counter of windows is forgotten, with its history.
ForgetWindows == consec' = 0 /\ sound' = 0 /\ restarted' = FALSE

\* A variant that must fail: the count starts again with the alert.
CountWindowAnew ==
    /\ consec' = IF consec + 1 >= Windows THEN 0 ELSE consec + 1
    /\ sound' = IF Growth(base, total).requests > 0 /\ Rate(Growth(base, total))
                THEN UpTo(sound, Windows) ELSE sound
    /\ UNCHANGED restarted

\* A window above the threshold.
CountWindow ==
    /\ consec' = UpTo(consec, Windows)
    /\ sound' = IF Growth(base, total).requests > 0 /\ Rate(Growth(base, total))
                THEN UpTo(sound, Windows) ELSE sound
    /\ UNCHANGED restarted

\* The counters are read; a failed fetch reads zeros.  The first reading, and
\* one below the sample size, change nothing.
Metrics(read) ==
    /\ Doing("metrics", Fallback)
    /\ read \in {total, Zero}
    /\ snapshot' = read
    /\ base' = total
    /\ IF snapshot = None
       THEN Silent /\ fresh' = fresh \cup {"snapshot"} /\ UNCHANGED <<consec, sound, restarted>>
       ELSE IF Negative(Window(read))
       THEN Silent /\ fresh' = fresh \cup {"snapshot"} /\ ForgetWindows
       ELSE IF Window(read).requests < MinRequests
       THEN Silent /\ fresh' = fresh \cup {"snapshot"} /\ UNCHANGED <<consec, sound, restarted>>
       ELSE IF Rate(Window(read))
       THEN /\ CountWindow /\ fresh' = fresh \cup {"snapshot", "consec"}
            /\ IF consec + 1 >= Windows THEN FireOnce(Fallback) ELSE Silent
       ELSE /\ ForgetWindows /\ fresh' = fresh \cup {"snapshot"}
            /\ ClearAndRecover(Fallback)
    /\ UNCHANGED <<gateway, backendState, active, crashes>>

Run ==
    \/ Start
    \/ Remember
    \/ \E k \in Failures : Recover(k)
    \/ \E b \in Backends : CheckUp(b) \/ CheckDown(b)
    \/ \E read \in {total, Zero} : Metrics(read)

-----------------------------------------------------------------------------
(* What happens around it *)

Idle == step = 0 /\ sending = None

\* A run ends before its time.  If that was between a message and the write
\* that remembers it, the next may be the same again.
Crash ==
    /\ ~Idle /\ crashes < MaxCrashes
    /\ crashes' = crashes + 1
    /\ step' = 0 /\ sending' = None
    /\ expected' = IF sending = None THEN expected
                   ELSE [expected EXCEPT ![sending.kind] = "either"]
    /\ UNCHANGED <<gateway, backendState, fallbackState, active, fresh>>

\* A key expires that the last run did not refresh.  The count of windows is
\* refreshed only in runs that store a snapshot: it does not outlast it.
Expire ==
    /\ Idle
    /\ \/ /\ "fails" \notin fresh /\ fails' = [b \in Backends |-> 0]
          /\ UNCHANGED <<oks, active, snapshot, consec, sound, restarted, expected>>
       \/ /\ "oks" \notin fresh /\ oks' = [b \in Backends |-> 0]
          /\ UNCHANGED <<fails, active, snapshot, consec, sound, restarted, expected>>
       \/ /\ "active" \notin fresh /\ active' = {}
          /\ expected' = [k \in Kinds |-> IF k \in active THEN "either" ELSE expected[k]]
          /\ UNCHANGED <<fails, oks, snapshot, consec, sound, restarted>>
       \/ /\ "snapshot" \notin fresh /\ snapshot' = None /\ ForgetWindows
          /\ UNCHANGED <<fails, oks, active, expected>>
       \/ /\ "consec" \notin fresh /\ ForgetWindows
          /\ UNCHANGED <<fails, oks, active, snapshot, expected>>
    /\ UNCHANGED <<gateway, downs, ups, base, step, sending, fresh, crashes>>

\* A window of traffic: few requests or the sample size, served by the first
\* choice or by a fallback.
Traffic ==
    /\ Idle
    /\ \E n \in {1, MinRequests}, f \in {0, 1} :
          /\ total.requests + n <= MaxTotal
          /\ total' = [requests |-> total.requests + n, fallbacks |-> total.fallbacks + f * n]
    /\ UNCHANGED <<proxy, up, backendState, fallbackState, active, step, sending,
                   fresh, expected, crashes>>

\* The gateway starts again: its counters with it.
Restart ==
    /\ Idle /\ total # Zero
    /\ total' = Zero /\ base' = Zero
    /\ restarted' = (consec > 0)
    /\ UNCHANGED <<proxy, up, backendState, snapshot, consec, sound, active, step,
                   sending, fresh, expected, crashes>>

Change ==
    /\ Idle
    /\ \/ \E b \in Backends : up' = (up \ {b}) \cup ({b} \ up) /\ UNCHANGED proxy
       \/ proxy' \in (Failures \cup {"ok"}) \ {proxy} /\ UNCHANGED up
    /\ UNCHANGED <<total, backendState, fallbackState, active, step, sending, fresh,
                   expected, crashes>>

Init ==
    /\ proxy = "ok" /\ up = Backends /\ total = Zero
    /\ fails = [b \in Backends |-> 0] /\ oks = [b \in Backends |-> 0]
    /\ active = {} /\ snapshot = None /\ consec = 0
    /\ step = 0 /\ sending = None
    /\ fresh = {} /\ downs = [b \in Backends |-> 0] /\ ups = [b \in Backends |-> 0]
    /\ expected = [k \in Kinds |-> "alert"]
    /\ base = Zero /\ sound = 0 /\ restarted = FALSE /\ crashes = 0

Next == Run \/ Crash \/ Expire \/ Traffic \/ Restart \/ Change

Spec == Init /\ [][Next]_vars

\* Cron goes on starting runs, and their fetches end.
FairSpec == Spec /\ WF_vars(Run)

-----------------------------------------------------------------------------
(* Properties *)

CounterType == [requests : 0..MaxTotal, fallbacks : 0..MaxTotal]

\* Counters are forgotten and counted together with what they stand for.
TypeOK ==
    /\ proxy \in Failures \cup {"ok"} /\ up \subseteq Backends
    /\ total \in CounterType /\ base \in CounterType /\ snapshot \in CounterType \cup {None}
    /\ fails \in [Backends -> 0..DownFails] /\ downs \in [Backends -> 0..DownFails]
    /\ oks \in [Backends -> 0..RecoveryOks] /\ ups \in [Backends -> 0..RecoveryOks]
    /\ active \subseteq Kinds
    /\ consec \in 0..Windows /\ sound \in 0..consec /\ restarted \in BOOLEAN
    /\ step \in 0..Len(Plan)
    /\ sending \in [kind : Kinds, what : {"alert", "recovery"}] \cup {None}
    /\ expected \in [Kinds -> {"alert", "recovery", "either"}]
    /\ fresh \subseteq {"fails", "oks", "active", "snapshot", "consec"}
    /\ crashes \in 0..MaxCrashes

\* A backend is reported down only after it was seen down so many times in a
\* row, and up again only after it was seen up so many times in a row, also
\* over crashes of runs and with keys expiring.
Earned ==
    sending # None /\ sending.kind \in Backends =>
        IF sending.what = "alert" THEN downs[sending.kind] >= DownFails
                                  ELSE ups[sending.kind] >= RecoveryOks

\* Alerts and recoveries of a kind alternate: while a state lasts it is reported
\* once, unless a run crashed between message and write or the key expired.
Alternating ==
    [][sending = None /\ sending' # None =>
          expected[sending'.kind] \in {sending'.what, "either"}]_vars

\* An alert about fallbacks rests on windows whose own traffic was above the
\* threshold, all but one: a failed fetch may bend the first, a restart any.
FallbackJustified ==
    sending = [kind |-> Fallback, what |-> "alert"] => restarted \/ sound >= Windows - 1

\* A backend that stays down behind a reachable gateway is reported.
OutageReported ==
    \A b \in Backends : <>[](b \notin up /\ proxy = "ok") => []<>(b \in active)

\* One that stays up is, or has been forgotten, sooner or later.
RecoveryReported ==
    \A b \in Backends : <>[](b \in up /\ proxy = "ok") => <>[](b \notin active)
=============================================================================
