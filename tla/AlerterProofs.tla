--------------------------- MODULE AlerterProofs ---------------------------
(***************************************************************************)
(* Proofs about Alerter, for any backends, failures, thresholds and        *)
(* numbers of crashes.                                                     *)
(***************************************************************************)
EXTENDS Alerter, FiniteSetTheorems, SequenceTheorems, TLAPS

-----------------------------------------------------------------------------
(* Lemmas about the operators *)

\* A finite set becomes a sequence of its elements.
LEMMA SequenceOfSet ==
    ASSUME NEW S, IsFiniteSet(S)
    PROVE  SetToSeq(S) \in Seq(S)
<1>1. Cardinality(S) \in Nat /\ ExistsBijection(1..Cardinality(S), S)
  BY FS_CardinalityType
<1>2. \E f \in [1..Cardinality(S) -> S] : IsInjective(f)
  BY <1>1 DEF ExistsBijection, Bijection, Injection
<1>3. SetToSeq(S) \in [1..Cardinality(S) -> S]
  BY <1>2 DEF SetToSeq
<1> QED
  BY <1>1, <1>3

\* A sequence of one.
LEMMA Singleton ==
    ASSUME NEW T, NEW x \in T
    PROVE  <<x>> \in Seq(T) /\ Len(<<x>>) = 1
OBVIOUS

\* A run has finitely many tasks, and at least one.
LEMMA PlanLength == Len(Plan) \in Nat \ {0}
<1> DEFINE Tasks == [do : {"recover", "check", "metrics"}, of : Kinds]
           F == SetToSeq(Failures)
           B == SetToSeq(Backends)
           recovers == [n \in 1..Len(F) |-> [do |-> "recover", of |-> F[n]]]
           checks == [n \in 1..Len(B) |-> [do |-> "check", of |-> B[n]]]
           last == [do |-> "metrics", of |-> Fallback]
<1>1. Plan = (recovers \o checks) \o <<last>>
  BY DEF Plan
<1>2. F \in Seq(Failures) /\ B \in Seq(Backends)
  BY SequenceOfSet, AlerterAssumption
<1> HIDE DEF F, B
<1>3. recovers \in [1..Len(F) -> Tasks] /\ Len(F) \in Nat
  BY <1>2 DEF Kinds
<1>4. checks \in [1..Len(B) -> Tasks] /\ Len(B) \in Nat
  BY <1>2 DEF Kinds
<1>5. last \in Tasks
  BY DEF Kinds
<1> HIDE DEF recovers, checks, last, Tasks
<1>6. recovers \in Seq(Tasks) /\ checks \in Seq(Tasks)
  BY <1>3, <1>4
<1>7. recovers \o checks \in Seq(Tasks)
  BY <1>6
<1>8. Len((recovers \o checks) \o <<last>>) = Len(recovers \o checks) + 1
  BY <1>5, <1>7, Singleton, ConcatProperties
<1>9. Len(recovers \o checks) \in Nat
  BY <1>7
<1> QED
  BY <1>1, <1>8, <1>9

\* A counter with a bound.
LEMMA Counting ==
    ASSUME NEW bound \in Nat \ {0}, NEW n \in 0..bound
    PROVE  /\ UpTo(n, bound) \in 1..bound
           /\ UpTo(n, bound) = n + 1 \/ UpTo(n, bound) = bound
           /\ n <= UpTo(n, bound) /\ UpTo(n, bound) <= n + 1
BY DEF UpTo

\* None is no message and no reading.
LEMMA NoneApart ==
    /\ \A k \in Kinds : [kind |-> k, what |-> "alert"] # None
                     /\ [kind |-> k, what |-> "recovery"] # None
    /\ None \notin CounterType
BY AlerterAssumption DEF Kinds, CounterType

-----------------------------------------------------------------------------
(* Types, in parts that a step disturbs together *)

GatewayType ==
    /\ proxy \in Failures \cup {"ok"} /\ up \subseteq Backends
    /\ total \in CounterType /\ total.fallbacks <= total.requests
    /\ crashes \in 0..MaxCrashes

BackendType ==
    /\ fails \in [Backends -> 0..DownFails] /\ downs \in [Backends -> 0..DownFails]
    /\ oks \in [Backends -> 0..RecoveryOks] /\ ups \in [Backends -> 0..RecoveryOks]

WindowType ==
    /\ base \in CounterType /\ snapshot \in CounterType \cup {None}
    /\ consec \in 0..Windows /\ sound \in 0..consec /\ restarted \in BOOLEAN

RunType ==
    /\ active \subseteq Kinds
    /\ step \in 0..Len(Plan)
    /\ sending \in [kind : Kinds, what : {"alert", "recovery"}] \cup {None}
    /\ expected \in [Kinds -> {"alert", "recovery", "either"}]
    /\ fresh \subseteq {"fails", "oks", "active", "snapshot", "consec"}

Types == GatewayType /\ BackendType /\ WindowType /\ RunType

LEMMA GatewayKept == GatewayType /\ Next => GatewayType'
<1> SUFFICES ASSUME GatewayType, Next PROVE GatewayType'
  OBVIOUS
<1> USE DEF GatewayType, gateway
<1>1. CASE Run
  BY <1>1 DEF Run, Start, Remember, Recover, CheckUp, CheckDown, Metrics
<1>2. CASE Crash
  BY <1>2, AlerterAssumption DEF Crash
<1>3. CASE Expire
  BY <1>3 DEF Expire
<1>4. CASE Traffic
  <2>1. PICK n \in {1, MinRequests}, f \in {0, 1} :
            /\ total.requests + n <= MaxTotal
            /\ total' = [requests |-> total.requests + n, fallbacks |-> total.fallbacks + f * n]
    BY <1>4 DEF Traffic
  <2>2. n \in Nat /\ (f * n = 0 \/ f * n = n)
    BY AlerterAssumption
  <2>3. total' \in CounterType /\ total'.fallbacks <= total'.requests
    BY <2>1, <2>2, AlerterAssumption DEF CounterType
  <2> QED
    BY <1>4, <2>3 DEF Traffic
<1>5. CASE Restart
  BY <1>5, AlerterAssumption DEF Restart, Zero, CounterType
<1>6. CASE Change
  BY <1>6 DEF Change
<1> QED
  BY <1>1, <1>2, <1>3, <1>4, <1>5, <1>6 DEF Next

LEMMA BackendKept == BackendType /\ Next => BackendType'
<1> SUFFICES ASSUME BackendType, Next PROVE BackendType'
  OBVIOUS
<1> USE DEF BackendType, backendState
<1>1. CASE Start \/ Crash \/ Traffic \/ Restart \/ Change
  BY <1>1 DEF Start, Crash, Traffic, Restart, Change
<1>2. CASE Remember
  BY <1>2, AlerterAssumption DEF Remember
<1>3. CASE \E k \in Failures : Recover(k)
  BY <1>3 DEF Recover
<1>4. ASSUME NEW b \in Backends, CheckUp(b) PROVE BackendType'
  <2>1. UpTo(oks[b], RecoveryOks) \in 0..RecoveryOks /\ UpTo(ups[b], RecoveryOks) \in 0..RecoveryOks
    BY Counting, AlerterAssumption
  <2> QED
    BY <1>4, <2>1, AlerterAssumption DEF CheckUp
<1>5. ASSUME NEW b \in Backends, CheckDown(b) PROVE BackendType'
  <2>1. UpTo(fails[b], DownFails) \in 0..DownFails /\ UpTo(downs[b], DownFails) \in 0..DownFails
    BY Counting, AlerterAssumption
  <2> QED
    BY <1>5, <2>1, AlerterAssumption DEF CheckDown
<1>6. ASSUME NEW read, Metrics(read) PROVE BackendType'
  BY <1>6 DEF Metrics
<1>7. CASE Expire
  BY <1>7, AlerterAssumption DEF Expire
<1> QED
  BY <1>1, <1>2, <1>3, <1>4, <1>5, <1>6, <1>7 DEF Next, Run

\* What a reading of the counters does to the count of high windows.
LEMMA WindowCount ==
    ASSUME GatewayType, WindowType, NEW read, Metrics(read)
    PROVE  \/ /\ UNCHANGED <<consec, sound, restarted>> /\ Silent
              /\ snapshot # None => Window(read).requests >= 0
           \/ /\ consec' = 0 /\ sound' = 0 /\ restarted' = FALSE
              /\ Silent \/ ClearAndRecover(Fallback)
           \/ /\ snapshot # None /\ Window(read).requests >= MinRequests /\ Rate(Window(read))
              /\ CountWindow
              /\ Silent \/ (consec + 1 >= Windows /\ FireOnce(Fallback))
<1> DEFINE n == Window(read).requests
<1>1. CASE snapshot = None
  BY <1>1 DEF Metrics
<1>2. CASE snapshot # None /\ Negative(Window(read))
  BY <1>2 DEF Metrics, ForgetWindows
<1>3. CASE snapshot # None /\ ~Negative(Window(read)) /\ n < MinRequests
  <2>1. n \in Int
    BY <1>3, AlerterAssumption DEF Metrics, Window, Growth, Zero, GatewayType, WindowType, CounterType
  <2>2. n >= 0
    BY <1>3, <2>1 DEF Negative
  <2> QED
    BY <1>3, <2>2 DEF Metrics
<1>4. CASE snapshot # None /\ ~Negative(Window(read)) /\ ~(n < MinRequests)
  <2>1. n \in Int
    BY <1>4, AlerterAssumption DEF Metrics, Window, Growth, Zero, GatewayType, WindowType, CounterType
  <2>2. n >= MinRequests
    BY <1>4, <2>1, AlerterAssumption
  <2> QED
    BY <1>4, <2>2 DEF Metrics, ForgetWindows
<1> QED
  BY <1>1, <1>2, <1>3, <1>4

LEMMA WindowKept == GatewayType /\ WindowType /\ Next => WindowType'
<1> SUFFICES ASSUME GatewayType, WindowType, Next PROVE WindowType'
  OBVIOUS
<1> USE DEF WindowType, fallbackState
<1>1. CASE Start \/ Remember \/ Crash \/ Traffic \/ Change
  BY <1>1 DEF Start, Remember, Crash, Traffic, Change
<1>2. CASE \E k \in Failures : Recover(k)
  BY <1>2 DEF Recover
<1>3. CASE \E b \in Backends : CheckUp(b) \/ CheckDown(b)
  BY <1>3 DEF CheckUp, CheckDown
<1>4. ASSUME NEW read \in {total, Zero}, Metrics(read) PROVE WindowType'
  <2>1. base' \in CounterType /\ snapshot' \in CounterType
    BY <1>4, AlerterAssumption DEF Metrics, Zero, CounterType, GatewayType
  <2>2. /\ UpTo(consec, Windows) \in 1..Windows /\ consec <= UpTo(consec, Windows)
        /\ UpTo(sound, Windows) \in 0..UpTo(consec, Windows)
    <3>1. consec \in 0..Windows /\ sound \in 0..consec
      OBVIOUS
    <3> QED
      BY <3>1, AlerterAssumption DEF UpTo
  <2>3. \/ UNCHANGED <<consec, sound, restarted>>
        \/ consec' = 0 /\ sound' = 0 /\ restarted' = FALSE
        \/ CountWindow
    BY <1>4, WindowCount, Zenon
  <2>4. consec' \in 0..Windows /\ sound' \in 0..consec'
    <3>1. CASE CountWindow
      <4>1. consec' = UpTo(consec, Windows) /\ sound' \in {sound, UpTo(sound, Windows)}
        BY <3>1 DEF CountWindow
      <4> QED
        BY <4>1, <2>2, AlerterAssumption
    <3> QED
      BY <2>3, <3>1, AlerterAssumption
  <2>5. restarted' \in BOOLEAN
    BY <2>3, Zenon DEF CountWindow
  <2> QED
    BY <2>1, <2>4, <2>5
<1>5. CASE Expire
  <2>1. /\ base' = base
        /\ snapshot' \in {snapshot, None}
        /\ \/ UNCHANGED <<consec, sound, restarted>>
           \/ consec' = 0 /\ sound' = 0 /\ restarted' = FALSE
    BY <1>5 DEF Expire, ForgetWindows
  <2>2. restarted' \in BOOLEAN
    BY <2>1, Zenon
  <2> QED
    BY <2>1, <2>2, AlerterAssumption
<1>6. CASE Restart
  BY <1>6, AlerterAssumption DEF Restart, Zero, CounterType
<1> QED
  BY <1>1, <1>2, <1>3, <1>4, <1>5, <1>6 DEF Next, Run

\* A task ends with a message or goes on to the next task.
LEMMA TaskEnds ==
    ASSUME RunType, sending = None, NEW k \in Kinds, NEW what \in {"alert", "recovery"},
           Silent \/ Send(k, what)
    PROVE  /\ step' \in 0..Len(Plan)
           /\ sending' \in [kind : Kinds, what : {"alert", "recovery"}] \cup {None}
           /\ expected' \in [Kinds -> {"alert", "recovery", "either"}]
<1>1. CASE Silent
  BY <1>1, PlanLength DEF Silent, Advance, RunType
<1>2. CASE Send(k, what)
  BY <1>2 DEF Send, RunType
<1> QED
  BY <1>1, <1>2

\* The messages a step may send, and when.
Sends ==
    \/ Silent
    \/ \E k \in Kinds \ active : Send(k, "alert")
    \/ \E k \in Kinds \cap active : Send(k, "recovery")

LEMMA FireSends == ASSUME NEW k \in Kinds, FireOnce(k) PROVE Sends
BY DEF FireOnce, Sends

LEMMA ClearSends == ASSUME NEW k \in Kinds, ClearAndRecover(k) PROVE Sends
BY DEF ClearAndRecover, Sends

\* Every step of a run but Remember is a task that may send a message, or a
\* start that found the gateway in order.
LEMMA RunSends ==
    ASSUME GatewayType, Run, ~Remember
    PROVE  /\ sending = None
           /\ Sends \/ (step' = 1 /\ UNCHANGED <<sending, expected>>)
           /\ UNCHANGED active
           /\ fresh' \subseteq fresh \cup {"fails", "oks", "snapshot", "consec"}
<1>1. CASE Start
  <2>1. CASE proxy = "ok"
    BY <1>1, <2>1 DEF Start
  <2>2. CASE proxy # "ok"
    <3>1. proxy \in Kinds
      BY <2>2 DEF GatewayType, Kinds
    <3>2. FireOnce(proxy) /\ sending = None /\ active' = active /\ fresh' = {}
      BY <1>1, <2>2 DEF Start
    <3> QED
      BY <3>1, <3>2, FireSends
  <2> QED
    BY <2>1, <2>2
<1>2. ASSUME NEW k \in Failures, Recover(k) PROVE sending = None /\ Sends /\ UNCHANGED <<active, fresh>>
  BY <1>2, ClearSends DEF Recover, Doing, Kinds
<1>3. ASSUME NEW b \in Backends, CheckUp(b)
      PROVE  sending = None /\ Sends /\ UNCHANGED active /\ fresh' \in {fresh, fresh \cup {"oks"}}
  BY <1>3, ClearSends DEF CheckUp, Doing, Kinds, Sends
<1>4. ASSUME NEW b \in Backends, CheckDown(b)
      PROVE  sending = None /\ Sends /\ UNCHANGED active /\ fresh' = fresh \cup {"fails"}
  BY <1>4, FireSends DEF CheckDown, Doing, Kinds, Sends
<1>5. ASSUME NEW read, Metrics(read)
      PROVE  /\ sending = None /\ Sends /\ UNCHANGED active
             /\ fresh' \in {fresh \cup {"snapshot"}, fresh \cup {"snapshot", "consec"}}
  BY <1>5, FireSends, ClearSends DEF Metrics, Doing, Kinds, Sends
<1>6. ASSUME NEW b \in Backends, CheckUp(b) \/ CheckDown(b)
      PROVE  /\ sending = None /\ Sends /\ UNCHANGED active
             /\ fresh' \subseteq fresh \cup {"fails", "oks", "snapshot", "consec"}
  BY <1>3, <1>4, <1>6
<1>7. ASSUME NEW read, Metrics(read)
      PROVE  fresh' \subseteq fresh \cup {"fails", "oks", "snapshot", "consec"}
  BY <1>5, <1>7
<1> QED
  BY <1>1, <1>2, <1>5, <1>6, <1>7 DEF Run

LEMMA RunKept == GatewayType /\ RunType /\ Next => RunType'
<1> SUFFICES ASSUME GatewayType, RunType, Next PROVE RunType'
  OBVIOUS
<1> USE DEF RunType
<1>1. CASE Remember
  <2>1. sending.kind \in Kinds
    BY <1>1 DEF Remember
  <2>2. active' \subseteq Kinds
    BY <1>1, <2>1 DEF Remember, Cleared
  <2>3. fresh' \subseteq fresh \cup {"active"}
    BY <1>1 DEF Remember
  <2>4. step' \in 0..Len(Plan)
    BY <1>1, PlanLength DEF Remember, Advance
  <2> QED
    BY <1>1, <2>2, <2>3, <2>4 DEF Remember
<1>2. CASE Run /\ ~Remember
  <2>1. /\ step' \in 0..Len(Plan)
        /\ sending' \in [kind : Kinds, what : {"alert", "recovery"}] \cup {None}
        /\ expected' \in [Kinds -> {"alert", "recovery", "either"}]
    BY <1>2, RunSends, TaskEnds, PlanLength DEF Sends, Kinds
  <2> QED
    BY <1>2, <2>1, RunSends
<1>3. CASE Crash
  BY <1>3, PlanLength DEF Crash
<1>4. CASE Expire
  BY <1>4 DEF Expire
<1>5. CASE Traffic \/ Restart \/ Change
  BY <1>5 DEF Traffic, Restart, Change
<1> QED
  BY <1>1, <1>2, <1>3, <1>4, <1>5 DEF Next

LEMMA TypesKept == Types /\ Next => Types'
BY GatewayKept, BackendKept, WindowKept, RunKept DEF Types

-----------------------------------------------------------------------------
(* Messages about backends *)

\* The alerter never counts more than there was.
Counts == \A b \in Backends : fails[b] <= downs[b] /\ oks[b] <= ups[b]

LEMMA CountsKept == BackendType /\ Counts /\ Next => Counts'
<1> SUFFICES ASSUME BackendType, Counts, Next PROVE Counts'
  OBVIOUS
<1> USE DEF Counts, backendState
<1>1. CASE Start \/ Crash \/ Traffic \/ Restart \/ Change
  BY <1>1 DEF Start, Crash, Traffic, Restart, Change
<1>2. CASE Remember
  BY <1>2 DEF Remember, BackendType
<1>3. CASE \E k \in Failures : Recover(k)
  BY <1>3 DEF Recover
<1>4. ASSUME NEW b \in Backends, CheckUp(b) PROVE Counts'
  <2>1. UpTo(oks[b], RecoveryOks) <= UpTo(ups[b], RecoveryOks) /\ 0 <= UpTo(ups[b], RecoveryOks)
    BY AlerterAssumption DEF UpTo, BackendType
  <2>2. /\ fails' = [fails EXCEPT ![b] = 0] /\ downs' = [downs EXCEPT ![b] = 0]
        /\ ups' = [ups EXCEPT ![b] = UpTo(@, RecoveryOks)]
        /\ oks' = [oks EXCEPT ![b] = UpTo(@, RecoveryOks)] \/ oks' = [oks EXCEPT ![b] = 0]
    BY <1>4 DEF CheckUp
  <2> QED
    BY <2>1, <2>2 DEF BackendType
<1>5. ASSUME NEW b \in Backends, CheckDown(b) PROVE Counts'
  <2>1. UpTo(fails[b], DownFails) <= UpTo(downs[b], DownFails)
    BY AlerterAssumption DEF UpTo, BackendType
  <2>2. /\ fails' = [fails EXCEPT ![b] = UpTo(@, DownFails)]
        /\ downs' = [downs EXCEPT ![b] = UpTo(@, DownFails)]
        /\ ups' = [ups EXCEPT ![b] = 0] /\ oks' = [oks EXCEPT ![b] = 0]
    BY <1>5 DEF CheckDown
  <2> QED
    BY <2>1, <2>2 DEF BackendType
<1>6. ASSUME NEW read, Metrics(read) PROVE Counts'
  BY <1>6 DEF Metrics
<1>7. CASE Expire
  BY <1>7, AlerterAssumption DEF Expire, BackendType
<1> QED
  BY <1>1, <1>2, <1>3, <1>4, <1>5, <1>6, <1>7 DEF Next, Run

\* The message of a task is of its kind.
LEMMA FireKind ==
    ASSUME sending = None, NEW k, FireOnce(k)
    PROVE  sending' = None \/ sending' = [kind |-> k, what |-> "alert"]
BY DEF FireOnce, Silent, Send

LEMMA ClearKind ==
    ASSUME sending = None, NEW k, ClearAndRecover(k)
    PROVE  sending' = None \/ sending' = [kind |-> k, what |-> "recovery"]
BY DEF ClearAndRecover, Silent, Send

LEMMA EarnedKept == Types /\ Counts /\ Earned /\ Next => Earned'
<1> SUFFICES ASSUME Types, Counts, Earned, Next PROVE Earned'
  OBVIOUS
<1> USE DEF Earned
<1>1. CASE Start
  <2>1. CASE proxy = "ok"
    BY <1>1, <2>1 DEF Start
  <2>2. CASE proxy # "ok"
    <3>1. proxy \in Failures
      BY <2>2 DEF Types, GatewayType
    <3>2. sending' = None \/ sending' = [kind |-> proxy, what |-> "alert"]
      BY <1>1, <2>2, FireKind DEF Start
    <3> QED
      BY <3>1, <3>2, AlerterAssumption
  <2> QED
    BY <2>1, <2>2
<1>2. CASE Remember \/ Crash
  BY <1>2 DEF Remember, Crash
<1>3. ASSUME NEW k \in Failures, Recover(k) PROVE Earned'
  <2>1. sending' = None \/ sending' = [kind |-> k, what |-> "recovery"]
    BY <1>3, ClearKind DEF Recover, Doing
  <2> QED
    BY <2>1, AlerterAssumption
<1>4. ASSUME NEW b \in Backends, CheckUp(b) PROVE Earned'
  <2>1. /\ fails[b] \in Nat /\ downs[b] \in Nat /\ oks[b] \in 0..RecoveryOks
        /\ ups[b] \in 0..RecoveryOks /\ oks[b] <= ups[b]
    BY DEF Types, BackendType, Counts
  <2>2. ups'[b] = UpTo(ups[b], RecoveryOks)
    BY <1>4 DEF CheckUp, Types, BackendType
  <2>3. sending' = None \/ (oks[b] + 1 >= RecoveryOks /\ sending' = [kind |-> b, what |-> "recovery"])
    BY <1>4, ClearKind DEF CheckUp, Doing, Silent
  <2> QED
    BY <2>1, <2>2, <2>3, AlerterAssumption DEF UpTo
<1>5. ASSUME NEW b \in Backends, CheckDown(b) PROVE Earned'
  <2>1. fails[b] \in 0..DownFails /\ downs[b] \in 0..DownFails /\ fails[b] <= downs[b]
    BY DEF Types, BackendType, Counts
  <2>2. downs'[b] = UpTo(downs[b], DownFails)
    BY <1>5 DEF CheckDown, Types, BackendType
  <2>3. sending' = None \/ (fails[b] + 1 >= DownFails /\ sending' = [kind |-> b, what |-> "alert"])
    BY <1>5, FireKind DEF CheckDown, Doing, Silent
  <2> QED
    BY <2>1, <2>2, <2>3, AlerterAssumption DEF UpTo
<1>6. ASSUME NEW read, Metrics(read) PROVE Earned'
  <2>1. sending = None
    BY <1>6 DEF Metrics, Doing
  <2>2. Silent \/ FireOnce(Fallback) \/ ClearAndRecover(Fallback)
    BY <1>6, WindowCount DEF Types
  <2>3. sending' = None \/ sending'.kind = Fallback
    BY <2>1, <2>2, FireKind, ClearKind DEF Silent
  <2> QED
    BY <2>3, AlerterAssumption
<1>7. CASE Expire \/ Traffic \/ Restart \/ Change
  BY <1>7 DEF Expire, Traffic, Restart, Change, Idle
<1> QED
  BY <1>1, <1>2, <1>3, <1>4, <1>5, <1>6, <1>7 DEF Next, Run

-----------------------------------------------------------------------------
(* Alerts and recoveries alternate *)

Opposite(what) == IF what = "alert" THEN "recovery" ELSE "alert"

\* What comes next of a kind, by whether its alert is active.
NextOf(k) == IF k \in active THEN {"recovery", "either"} ELSE {"alert", "either"}

\* What was sent is expected no more; for every other kind what is active
\* says what is expected.
Told ==
    /\ sending # None => expected[sending.kind] = Opposite(sending.what)
    /\ \A k \in Kinds : sending = None \/ sending.kind # k => expected[k] \in NextOf(k)

\* A step of a run sends only what is expected.
LEMMA RunTells ==
    ASSUME Types, Told, Run, ~Remember
    PROVE  /\ Told'
           /\ sending' # None => expected[sending'.kind] \in {sending'.what, "either"}
<1>1. sending = None /\ active' = active
  BY RunSends DEF Types
<1>2. expected \in [Kinds -> {"alert", "recovery", "either"}]
  BY DEF Types, RunType
<1>3. \A k \in Kinds : expected[k] \in NextOf(k)
  BY <1>1 DEF Told
<1>4. CASE UNCHANGED <<sending, expected>>
  BY <1>1, <1>3, <1>4 DEF Told, NextOf
<1>5. ASSUME NEW k \in Kinds, NEW what \in {"alert", "recovery"},
             what \in NextOf(k), Send(k, what)
      PROVE  /\ Told'
             /\ expected[sending'.kind] \in {sending'.what, "either"}
  <2>1. /\ sending' = [kind |-> k, what |-> what]
        /\ expected' = [expected EXCEPT ![k] = Opposite(what)]
    BY <1>5 DEF Send, Opposite
  <2>2. sending'.kind = k /\ sending'.what = what
    BY <2>1
  <2>3. expected'[k] = Opposite(what) /\ \A j \in Kinds \ {k} : expected'[j] = expected[j]
    BY <1>2, <2>1
  <2>4. expected[k] \in {what, "either"}
    BY <1>3, <1>5 DEF NextOf
  <2>5. \A j \in Kinds : NextOf(j)' = NextOf(j)
    BY <1>1 DEF NextOf
  <2>6. (sending # None => expected[sending.kind] = Opposite(sending.what))'
    BY <2>2, <2>3
  <2>7. \A j \in Kinds : sending' = None \/ sending'.kind # j => expected'[j] \in NextOf(j)'
    BY <1>3, <2>1, <2>2, <2>3, <2>5, NoneApart
  <2> QED
    BY <2>2, <2>4, <2>6, <2>7 DEF Told
<1>6. Sends => Silent \/ \E k \in Kinds, what \in {"alert", "recovery"} :
                            what \in NextOf(k) /\ Send(k, what)
  BY DEF Sends, NextOf
<1>7. Silent => UNCHANGED <<sending, expected>>
  BY DEF Silent
<1> QED
  BY <1>1, <1>4, <1>5, <1>6, <1>7, RunSends DEF Types

LEMMA ToldKept == Types /\ Told /\ Next => Told'
<1> SUFFICES ASSUME Types, Told, Next PROVE Told'
  OBVIOUS
<1>1. expected \in [Kinds -> {"alert", "recovery", "either"}]
  BY DEF Types, RunType
<1>2. CASE Run /\ ~Remember
  BY <1>2, RunTells
<1>3. CASE Remember
  <2>1. sending # None /\ sending' = None /\ expected' = expected
    BY <1>3 DEF Remember
  <2>2. sending.kind \in Kinds /\ sending.what \in {"alert", "recovery"}
    BY <2>1 DEF Types, RunType
  <2>3. /\ sending.what = "alert" => active' = active \cup {sending.kind}
        /\ sending.what # "alert" => active' = active \ {sending.kind}
    BY <1>3 DEF Remember, Cleared
  <2>4. ASSUME NEW k \in Kinds PROVE expected'[k] \in NextOf(k)'
    <3>1. CASE k = sending.kind
      BY <2>1, <2>2, <2>3, <3>1 DEF Told, NextOf, Opposite
    <3>2. CASE k # sending.kind
      BY <2>1, <2>2, <2>3, <3>2 DEF Told, NextOf
    <3> QED
      BY <3>1, <3>2
  <2> QED
    BY <2>1, <2>4 DEF Told
<1>4. CASE Crash
  <2>1. sending' = None /\ active' = active
    BY <1>4 DEF Crash
  <2>2. ASSUME NEW k \in Kinds PROVE expected'[k] \in NextOf(k)'
    BY <1>1, <1>4, <2>1 DEF Crash, Told, NextOf
  <2> QED
    BY <2>1, <2>2 DEF Told
<1>5. CASE Expire
  <2>1. sending = None /\ sending' = None
    BY <1>5 DEF Expire, Idle
  <2>2. CASE UNCHANGED <<active, expected>>
    BY <2>1, <2>2 DEF Told, NextOf
  <2>3. CASE /\ active' = {}
             /\ expected' = [k \in Kinds |-> IF k \in active THEN "either" ELSE expected[k]]
    BY <2>1, <2>3 DEF Told, NextOf
  <2> QED
    BY <1>5, <2>2, <2>3 DEF Expire
<1>6. CASE Traffic \/ Restart \/ Change
  BY <1>6 DEF Traffic, Restart, Change, Told, NextOf
<1> QED
  BY <1>2, <1>3, <1>4, <1>5, <1>6 DEF Next

-----------------------------------------------------------------------------
(* Alerts about fallbacks *)

\* While windows are being counted and the gateway has not started again, the
\* snapshot is what was read last, and at most the first window was bent.
Sampled ==
    consec > 0 /\ ~restarted =>
        /\ snapshot = base /\ base.requests > 0
        /\ base.requests <= total.requests
        /\ consec <= sound + 1

LEMMA SampledKept == Types /\ Sampled /\ Next => Sampled'
<1> SUFFICES ASSUME Types, Sampled, Next PROVE Sampled'
  OBVIOUS
<1>1. CASE Start \/ Remember \/ Crash \/ Change
  BY <1>1 DEF Start, Remember, Crash, Change, fallbackState, gateway, Sampled
<1>2. CASE (\E k \in Failures : Recover(k)) \/ (\E b \in Backends : CheckUp(b) \/ CheckDown(b))
  BY <1>2 DEF Recover, CheckUp, CheckDown, fallbackState, gateway, Sampled
<1>3. ASSUME NEW read \in {total, Zero}, Metrics(read) PROVE Sampled'
  <2>1. snapshot' = read /\ base' = total /\ total' = total
    BY <1>3 DEF Metrics, gateway
  <2>2. /\ total \in CounterType /\ base \in CounterType /\ snapshot \in CounterType \cup {None}
        /\ consec \in 0..Windows /\ sound \in 0..consec
    BY DEF Types, GatewayType, WindowType
  <2>3. Zero.requests = 0
    BY DEF Zero
  <2>4. CASE UNCHANGED <<consec, sound, restarted>> /\ (snapshot # None => Window(read).requests >= 0)
    <3>1. SUFFICES ASSUME consec > 0, ~restarted
                   PROVE  read = total /\ total.requests > 0 /\ consec <= sound + 1
      BY <2>1, <2>2, <2>4, AlerterAssumption DEF Sampled, CounterType
    <3>2. snapshot = base /\ base.requests > 0 /\ base.requests <= total.requests /\ consec <= sound + 1
      BY <3>1 DEF Sampled
    <3>3. read.requests >= base.requests
      BY <2>2, <2>3, <2>4, <3>2, NoneApart, AlerterAssumption DEF Window, Growth, CounterType
    <3> QED
      BY <2>2, <2>3, <3>2, <3>3, AlerterAssumption DEF CounterType
  <2>5. CASE consec' = 0
    BY <2>5 DEF Sampled
  <2>6. CASE /\ snapshot # None /\ Window(read).requests >= MinRequests /\ Rate(Window(read))
             /\ CountWindow
    <3>1. read = total /\ total.requests > 0
      BY <2>2, <2>3, <2>6, AlerterAssumption DEF Window, Growth, CounterType
    <3>2. SUFFICES ASSUME ~restarted PROVE consec' <= sound' + 1
      BY <2>1, <2>2, <2>6, <3>1, AlerterAssumption DEF Sampled, CountWindow, CounterType
    <3>3. CASE consec = 0
      BY <2>2, <2>6, <3>3, AlerterAssumption DEF CountWindow, UpTo
    <3>4. CASE consec > 0
      <4>1. Growth(base, total) = Window(read) /\ consec <= sound + 1
        BY <3>1, <3>2, <3>4 DEF Sampled, Window
      <4>2. Growth(base, total).requests > 0 /\ Rate(Growth(base, total))
        BY <2>2, <2>6, <4>1, AlerterAssumption DEF Growth, CounterType
      <4>3. consec' = UpTo(consec, Windows) /\ sound' = UpTo(sound, Windows)
        BY <2>6, <4>2 DEF CountWindow
      <4> QED
        BY <2>2, <4>1, <4>3, AlerterAssumption DEF UpTo
    <3> QED
      BY <2>2, <3>3, <3>4, AlerterAssumption
  <2> QED
    BY <1>3, <2>4, <2>5, <2>6, WindowCount DEF Types
<1>4. CASE Expire
  BY <1>4 DEF Expire, ForgetWindows, gateway, Sampled
<1>5. CASE Traffic
  <2>1. total'.requests >= total.requests
    BY <1>5, AlerterAssumption DEF Traffic, Types, GatewayType, CounterType
  <2> QED
    BY <1>5, <2>1, AlerterAssumption
    DEF Traffic, fallbackState, Sampled, Types, GatewayType, WindowType, CounterType
<1>6. CASE Restart
  BY <1>6, AlerterAssumption DEF Restart, Sampled, Types, WindowType
<1> QED
  BY <1>1, <1>2, <1>3, <1>4, <1>5, <1>6 DEF Next, Run

LEMMA JustifiedKept == Types /\ Sampled /\ FallbackJustified /\ Next => FallbackJustified'
<1> SUFFICES ASSUME Types, Sampled, FallbackJustified, Next PROVE FallbackJustified'
  OBVIOUS
<1> USE DEF FallbackJustified
<1>1. CASE Start
  <2>1. CASE proxy = "ok"
    BY <1>1, <2>1, NoneApart DEF Start, Kinds
  <2>2. CASE proxy # "ok"
    <3>1. proxy \in Failures
      BY <2>2 DEF Types, GatewayType
    <3>2. sending' = None \/ sending' = [kind |-> proxy, what |-> "alert"]
      BY <1>1, <2>2, FireKind DEF Start
    <3> QED
      BY <3>1, <3>2, NoneApart, AlerterAssumption DEF Kinds
  <2> QED
    BY <2>1, <2>2
<1>2. CASE Remember \/ Crash
  BY <1>2, NoneApart DEF Remember, Crash, Kinds
<1>3. ASSUME NEW k \in Failures, Recover(k) PROVE FallbackJustified'
  <2>1. sending' = None \/ sending' = [kind |-> k, what |-> "recovery"]
    BY <1>3, ClearKind DEF Recover, Doing
  <2> QED
    BY <2>1, NoneApart DEF Kinds
<1>4. ASSUME NEW b \in Backends, CheckUp(b) \/ CheckDown(b) PROVE FallbackJustified'
  <2>1. sending' = None \/ sending'.kind = b
    BY <1>4, FireKind, ClearKind DEF CheckUp, CheckDown, Doing, Silent
  <2> QED
    BY <2>1, NoneApart, AlerterAssumption DEF Kinds
<1>5. ASSUME NEW read \in {total, Zero}, Metrics(read) PROVE FallbackJustified'
  <2>1. sending = None
    BY <1>5 DEF Metrics, Doing
  <2>2. Silent \/ ClearAndRecover(Fallback) => FallbackJustified'
    <3>1. Silent \/ ClearAndRecover(Fallback)
             => sending' = None \/ sending' = [kind |-> Fallback, what |-> "recovery"]
      BY <2>1, ClearKind DEF Silent
    <3> QED
      BY <3>1, NoneApart DEF Kinds
  <2>3. CASE CountWindow /\ consec + 1 >= Windows
    <3>1. consec' = UpTo(consec, Windows) /\ consec' >= Windows
      BY <2>3, AlerterAssumption DEF CountWindow, UpTo, Types, WindowType
    <3>2. Sampled'
      BY SampledKept
    <3>3. consec' \in 0..Windows /\ sound' \in 0..consec'
      BY WindowKept DEF Types, WindowType
    <3> QED
      BY <3>1, <3>2, <3>3, AlerterAssumption DEF Sampled
  <2> QED
    BY <1>5, <2>2, <2>3, WindowCount DEF Types
<1>6. CASE Expire \/ Traffic \/ Restart \/ Change
  BY <1>6, NoneApart DEF Expire, Traffic, Restart, Change, Idle, Kinds
<1> QED
  BY <1>1, <1>2, <1>3, <1>4, <1>5, <1>6 DEF Next, Run

-----------------------------------------------------------------------------
(* The inductive invariant and what follows *)

IInv == Types /\ Counts /\ Earned /\ Told /\ Sampled /\ FallbackJustified

\* The alerter knows nothing at first.
LEMMA InitIInv == Init => IInv
<1> SUFFICES ASSUME Init PROVE IInv
  OBVIOUS
<1> USE AlerterAssumption DEF Init
<1>1. GatewayType
  BY DEF GatewayType, CounterType, Zero
<1>2. BackendType
  BY DEF BackendType
<1>3. WindowType
  <2>1. restarted = FALSE
    OBVIOUS
  <2>2. restarted \in BOOLEAN
    BY <2>1, Zenon
  <2>3. base \in CounterType /\ snapshot = None /\ consec = 0 /\ sound = 0
    BY DEF CounterType, Zero
  <2> QED
    BY <2>2, <2>3 DEF WindowType
<1>4. RunType
  BY PlanLength DEF RunType
<1>5. Counts /\ Earned /\ FallbackJustified /\ Sampled
  BY NoneApart DEF Counts, Earned, FallbackJustified, Sampled, Kinds
<1>6. Told
  <2>1. sending = None /\ active = {} /\ \A k \in Kinds : expected[k] = "alert"
    OBVIOUS
  <2> QED
    BY <2>1 DEF Told, NextOf
<1> QED
  BY <1>1, <1>2, <1>3, <1>4, <1>5, <1>6 DEF IInv, Types

LEMMA NextIInv == IInv /\ [Next]_vars => IInv'
<1>1. IInv /\ Next => IInv'
  BY TypesKept, CountsKept, EarnedKept, ToldKept, SampledKept, JustifiedKept DEF IInv, Types
<1>2. IInv /\ UNCHANGED vars => IInv'
  <2> SUFFICES ASSUME IInv, UNCHANGED vars PROVE IInv'
    OBVIOUS
  <2> USE DEF IInv, vars, gateway, backendState, fallbackState
  <2>1. Types'
    BY DEF Types, GatewayType, BackendType, WindowType, RunType
  <2>2. Counts' /\ Earned' /\ Sampled' /\ FallbackJustified'
    BY DEF Counts, Earned, Sampled, FallbackJustified
  <2>3. Told'
    BY DEF Told, NextOf
  <2> QED
    BY <2>1, <2>2, <2>3
<1> QED
  BY <1>1, <1>2

\* The alerter's memory and what it stands for agree in every reachable state,
\* for any backends, thresholds and crashes.
THEOREM AlerterInductive == Spec => []IInv
<1> QED
  BY InitIInv, NextIInv, PTL DEF Spec

\* Counters, marks and snapshot keep their types: alerter.py's five keys hold
\* what its thresholds allow, and no window is forgotten apart from its count.
THEOREM AlerterTypeCorrect == Spec => []TypeOK
<1>1. IInv => TypeOK
  BY DEF IInv, Types, GatewayType, BackendType, WindowType, RunType, TypeOK
<1> QED
  BY <1>1, AlerterInductive, PTL

\* check_backends reports a backend only after its count of runs in a row.
THEOREM MessagesEarned == Spec => []Earned
<1>1. IInv => Earned
  BY DEF IInv
<1> QED
  BY <1>1, AlerterInductive, PTL

\* check_fallback_rate raises its alert only on windows of real fallbacks, all
\* but one, unless the gateway started again.
THEOREM FallbackAlertsJustified == Spec => []FallbackJustified
<1>1. IInv => FallbackJustified
  BY DEF IInv
<1> QED
  BY <1>1, AlerterInductive, PTL

\* _fire_once and _clear_and_recover alternate for every kind of alert.
THEOREM MessagesAlternate == Spec => Alternating
<1>1. IInv /\ [Next]_vars =>
         [sending = None /\ sending' # None =>
              expected[sending'.kind] \in {sending'.what, "either"}]_vars
  <2> SUFFICES ASSUME IInv, Next, sending = None, sending' # None
               PROVE  expected[sending'.kind] \in {sending'.what, "either"}
    OBVIOUS
  <2>1. Run /\ ~Remember
    BY DEF Next, Remember, Crash, Expire, Traffic, Restart, Change, Idle
  <2> QED
    BY <2>1, RunTells DEF IInv
<1> QED
  BY <1>1, AlerterInductive, PTL DEF Spec, Alternating
=============================================================================
