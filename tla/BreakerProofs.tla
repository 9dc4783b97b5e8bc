--------------------------- MODULE BreakerProofs ----------------------------
(***************************************************************************)
(* Proof that the registry implements the circuit breakers of module       *)
(* Breaker, whatever the number of requests, the chains and the settings:  *)
(* a request enters a backend only through a closed breaker, and a breaker *)
(* opens only as one of its users leaves.                                  *)
(***************************************************************************)
EXTENDS CooldownProofs

Bound(r) == pc[r] \in {"calling", "waiting"}

Key(r) == KeyOf(call[r], at[r])

open == [k \in Keys |-> cooldown[k] > 0]

using == [k \in Keys |-> {r \in Requests : Bound(r) /\ Key(r) = k}]

\* A request that enters a backend from outside.
LEMMA MapEnter ==
    ASSUME NEW r \in Requests, NEW k \in Keys, \A q \in Requests \ {r} :
              pc'[q] = pc[q] /\ call'[q] = call[q] /\ at'[q] = at[q],
           ~Bound(r), Bound(r)', Key(r)' = k, cooldown[k] = 0, cooldown' = cooldown
    PROVE  BreakerOf!Enter(r, k)
<1>1. \A q \in Requests \ {r} : (Bound(q)' <=> Bound(q)) /\ Key(q)' = Key(q)
  BY DEF Bound, Key
<1>2. \A l \in Keys : r \notin using[l]
  BY DEF using
<1>3. using' = [using EXCEPT ![k] = @ \cup {r}]
  <2>1. ASSUME NEW l \in Keys
        PROVE  using'[l] = IF l = k THEN using[l] \cup {r} ELSE using[l]
    BY <1>1 DEF using
  <2>. QED
    BY <2>1 DEF using
<1>4. ~open[k]
  <2>1. ~(cooldown[k] > 0)
    OBVIOUS
  <2>. QED
    BY <2>1, Zenon DEF open
<1>5. open' = open
  BY DEF open
<1>. QED
  BY <1>2, <1>3, <1>4, <1>5 DEF BreakerOf!Enter, BreakerOf!Unbound, using, open, Bound, Key

\* A request that leaves its backend and enters none.
LEMMA MapExit ==
    ASSUME NEW r \in Requests, NEW k \in Keys, \A q \in Requests \ {r} :
              pc'[q] = pc[q] /\ call'[q] = call[q] /\ at'[q] = at[q],
           Bound(r), Key(r) = k, ~Bound(r)',
           open' \in {open, [open EXCEPT ![k] = TRUE]}
    PROVE  BreakerOf!Exit(r, k)
<1>1. \A q \in Requests \ {r} : (Bound(q)' <=> Bound(q)) /\ Key(q)' = Key(q)
  BY DEF Bound, Key
<1>2. r \in using[k]
  BY DEF using
<1>3. using' = [using EXCEPT ![k] = @ \ {r}]
  <2>1. ASSUME NEW l \in Keys
        PROVE  using'[l] = IF l = k THEN using[l] \ {r} ELSE using[l]
    BY <1>1 DEF using
  <2>. QED
    BY <2>1 DEF using
<1>. QED
  BY <1>2, <1>3 DEF BreakerOf!Exit, BreakerOf!OpenedBy, using, open, Bound, Key

\* A request that fails over from one backend to another.
LEMMA MapHop ==
    ASSUME NEW r \in Requests, NEW k \in Keys, NEW l \in Keys, k # l,
           \A q \in Requests \ {r} :
              pc'[q] = pc[q] /\ call'[q] = call[q] /\ at'[q] = at[q],
           Bound(r), Key(r) = k, Bound(r)', Key(r)' = l, cooldown[l] = 0,
           open' \in {open, [open EXCEPT ![k] = TRUE]}
    PROVE  BreakerOf!Hop(r, k, l)
<1>1. \A q \in Requests \ {r} : (Bound(q)' <=> Bound(q)) /\ Key(q)' = Key(q)
  BY DEF Bound, Key
<1>2. r \in using[k]
  BY DEF using
<1>3. using' = [using EXCEPT ![k] = @ \ {r}, ![l] = @ \cup {r}]
  <2>1. ASSUME NEW m \in Keys
        PROVE  using'[m] = IF m = l THEN using[m] \cup {r}
                           ELSE IF m = k THEN using[m] \ {r} ELSE using[m]
    BY <1>1 DEF using
  <2>. QED
    BY <2>1 DEF using
<1>4. ~open[l]
  <2>1. ~(cooldown[l] > 0)
    OBVIOUS
  <2>. QED
    BY <2>1, Zenon DEF open
<1>. QED
  BY <1>2, <1>3, <1>4 DEF BreakerOf!Hop, BreakerOf!OpenedBy, using, open, Bound, Key

\* A request that stays where it is.
LEMMA MapStay ==
    ASSUME cooldown' = cooldown,
           \A q \in Requests : (Bound(q)' <=> Bound(q)) /\ (Bound(q) => Key(q)' = Key(q))
    PROVE  UNCHANGED <<open, using>>
<1>1. open' = open
  BY DEF open
<1>2. ASSUME NEW l \in Keys
      PROVE  using'[l] = using[l]
  BY DEF using
<1>. QED
  BY <1>1, <1>2 DEF using

\* A cooldown started on k opens the breaker of k and no other.  (With a
\* setting of 0 it opens none, and none was open.)
LEMMA MapOpen ==
    ASSUME IInv, CooldownBounded, NEW k \in Keys, k[2] \in Scopes,
           NEW kind \in {"empty"} \cup FailureKinds,
           cooldown' = StartCooldown(cooldown, k, kind)
    PROVE  open' \in {open, [open EXCEPT ![k] = TRUE]}
<1>1. cooldown \in [Keys -> Nat]
  BY DEF IInv, TypeOK
<1>2. CASE cooldown' = cooldown
  BY <1>2 DEF open
<1>3. CASE cooldown' # cooldown
  <2>1. k[1] # Stub /\ cooldown' = [cooldown EXCEPT ![k] = Setting(k[2])]
    BY <1>3, OneSettingPerScope DEF StartCooldown
  <2>2. \A l \in Keys : l # k => cooldown'[l] = cooldown[l]
    BY <1>1, <2>1
  <2>3. cooldown'[k] = Setting(k[2]) /\ Setting(k[2]) \in Nat
    BY <1>1, <2>1, TimesAssumption DEF Setting
  <2>4. CASE Setting(k[2]) > 0
    <3>1. cooldown'[k] > 0
      BY <2>3, <2>4
    <3>2. \A l \in Keys : l # k => (cooldown'[l] > 0) = (cooldown[l] > 0)
      BY <2>2
    <3>3. (cooldown'[k] > 0) = TRUE
      BY <3>1
    <3>4. open' = [open EXCEPT ![k] = TRUE]
      BY <3>2, <3>3, Zenon DEF open
    <3>. QED
      BY <3>4
  <2>5. CASE Setting(k[2]) = 0
    <3>1. cooldown[k] <= Setting(k[2])
      BY <2>1 DEF CooldownBounded, Setting
    <3>2. cooldown[k] \in Nat
      BY <1>1
    <3>3. cooldown[k] = cooldown'[k]
      BY <2>3, <2>5, <3>1, <3>2
    <3>4. \A l \in Keys : (cooldown'[l] > 0) = (cooldown[l] > 0)
      BY <2>2, <3>3
    <3>5. open' = open
      BY <3>4, Zenon DEF open
    <3>. QED
      BY <3>5
  <2>. QED
    BY <2>3, <2>4, <2>5
<1>. QED
  BY <1>2, <1>3

-----------------------------------------------------------------------------
(* The steps of the registry *)

\* The chain loop ends, or it calls a later candidate that is not cooling.
LEMMA ProceedWhere ==
    ASSUME TypeOK, NEW r \in Requests, NEW c \in Calls, NEW i \in Nat, NEW cd,
           NEW err, NEW cap, NEW f,
           Proceed(r, c, i, cd, err, cap, f)
    PROVE  /\ \A q \in Requests \ {r} : pc'[q] = pc[q] /\ at'[q] = at[q]
           /\ \/ pc'[r] = "done"
              \/ \E u \in Candidates(c) :
                    /\ u > i /\ pc'[r] = "calling" /\ at'[r] = u
                    /\ ~CoolingDown(cd, KeyOf(c, u))
<1>. DEFINE u == Least(Usable(c, i, cd))
<1>1. CASE Usable(c, i, cd) # {}
  <2>1. /\ pc' = [pc EXCEPT ![r] = "calling"]
        /\ at' = [at EXCEPT ![r] = u]
    BY <1>1, Zenon DEF Proceed
  <2>2. u \in Candidates(c) /\ u \in Usable(c, i, cd) /\ u > i
    BY <1>1, ScanStops
  <2>3. ~CoolingDown(cd, KeyOf(c, u))
    BY <2>2 DEF Usable
  <2>. HIDE DEF u
  <2>. QED
    BY <2>1, <2>2, <2>3 DEF TypeOK
<1>2. CASE Usable(c, i, cd) = {}
  <2>1. pc' = [pc EXCEPT ![r] = "done"] /\ at' = at
    BY <1>2, Zenon DEF Proceed
  <2>. QED
    BY <2>1 DEF TypeOK
<1>. QED
  BY <1>1, <1>2

\* The candidates of a chain are different providers.
LEMMA CandidatesDiffer ==
    ASSUME NEW c \in Calls, NEW i \in Candidates(c), NEW u \in Candidates(c), i < u
    PROVE  KeyOf(c, i) # KeyOf(c, u)
<1>1. c.route \in Routes /\ Listed[c.route] \in Seq(Providers)
  BY CallsAssumption, RoutesAssumption DEF CallType
<1>2. i \in 1..(u - 1)
  BY CandidatesType
<1>3. Listed[c.route][i] # Listed[c.route][u]
  BY <1>1, <1>2 DEF Candidates, FallbackChain
<1>. QED
  BY <1>3 DEF KeyOf, ProviderAt

\* A failed candidate is left, and its breaker may open as it is; the loop then ends
\* (Exit) or enters another backend (Hop).
LEMMA FailCandidateMaps ==
    ASSUME IInv, CooldownBounded, NEW r \in Requests,
           NEW kind \in {"empty"} \cup FailureKinds,
           pc[r] = "calling", FailCandidate(r, kind)
    PROVE  BreakerOf!Next
<1>. DEFINE c  == call[r]
            i  == at[r]
            k  == KeyOf(c, i)
            cd == StartCooldown(cooldown, k, kind)
            f  == [fate[r] EXCEPT ![i] = kind]
<1>1. TypeOK /\ Bound(r) /\ Active(r) /\ Key(r) = k
  BY DEF IInv, Bound, Active, Key
<1>2. c \in Calls /\ i \in Candidates(c) /\ i \in Nat /\ k \in Keys
  BY <1>1, ActiveRequest
<1>3. /\ Proceed(r, c, i, cd, kind, capError[r], f)
      /\ cooldown' = cd /\ call' = call
  BY Zenon DEF FailCandidate
<1>4. /\ \A q \in Requests \ {r} : pc'[q] = pc[q] /\ at'[q] = at[q]
      /\ \/ pc'[r] = "done"
         \/ \E u \in Candidates(c) :
               /\ u > i /\ pc'[r] = "calling" /\ at'[r] = u
               /\ ~CoolingDown(cd, KeyOf(c, u))
  <2>. HIDE DEF c, i, cd, f
  <2>. QED
    BY <1>1, <1>2, <1>3, ProceedWhere
<1>5. open' \in {open, [open EXCEPT ![k] = TRUE]}
  <2>1. k[2] \in Scopes
    BY <1>2 DEF Keys
  <2>. HIDE DEF k
  <2>. QED
    BY <1>2, <1>3, <2>1, MapOpen
<1>6. \A q \in Requests \ {r} : pc'[q] = pc[q] /\ call'[q] = call[q] /\ at'[q] = at[q]
  BY <1>3, <1>4
<1>7. CASE pc'[r] = "done"
  <2>1. ~Bound(r)'
    BY <1>7 DEF Bound
  <2>2. PICK b \in Keys : b = k
    BY <1>2
  <2>3. BreakerOf!Exit(r, b)
    <3>. HIDE DEF k
    <3>. QED
      BY <1>1, <1>2, <1>5, <1>6, <2>1, <2>2, MapExit
  <2>. QED
    BY <2>3 DEF BreakerOf!Next
<1>8. ASSUME NEW u \in Candidates(c), u > i, pc'[r] = "calling", at'[r] = u,
             ~CoolingDown(cd, KeyOf(c, u))
      PROVE  BreakerOf!Next
  <2>. DEFINE l == KeyOf(c, u)
  <2>1. k # l /\ l \in Keys
    BY <1>2, <1>8, CandidatesDiffer, CandidatesType
  <2>2. Bound(r)' /\ Key(r)' = l
    BY <1>3, <1>8 DEF Bound, Key
  <2>3. cd[l] = cooldown[l] /\ cooldown[l] \in Nat
    BY <1>1, <1>2, <2>1 DEF StartCooldown, TypeOK
  <2>4. cooldown[l] = 0
    BY <1>8, <2>3 DEF CoolingDown
  <2>5. PICK b \in Keys : b = k
    BY <1>2
  <2>6. PICK d \in Keys : d = l
    BY <2>1
  <2>7. BreakerOf!Hop(r, b, d)
    <3>. HIDE DEF k, l
    <3>. QED
      BY <1>1, <1>2, <1>5, <1>6, <2>1, <2>2, <2>4, <2>5, <2>6, MapHop
  <2>. QED
    BY <2>7 DEF BreakerOf!Next
<1>. QED
  BY <1>4, <1>7, <1>8

\* A request that arrives enters a backend whose breaker is closed, or none.
LEMMA ArriveMaps ==
    ASSUME IInv, NEW r \in Requests, NEW c \in Calls, Arrive(r, c)
    PROVE  BreakerOf!Next \/ UNCHANGED <<open, using>>
<1>1. TypeOK
  BY DEF IInv
<1>2. /\ pc[r] = "idle" /\ call' = [call EXCEPT ![r] = c]
      /\ Proceed(r, c, 0, cooldown, "none", FALSE, fate[r])
      /\ cooldown' = cooldown
  BY DEF Arrive
<1>3. /\ \A q \in Requests \ {r} : pc'[q] = pc[q] /\ at'[q] = at[q]
      /\ \/ pc'[r] = "done"
         \/ \E u \in Candidates(c) :
               /\ u > 0 /\ pc'[r] = "calling" /\ at'[r] = u
               /\ ~CoolingDown(cooldown, KeyOf(c, u))
  BY <1>1, <1>2, ProceedWhere
<1>4. /\ call'[r] = c
      /\ \A q \in Requests \ {r} : pc'[q] = pc[q] /\ call'[q] = call[q] /\ at'[q] = at[q]
  BY <1>1, <1>2, <1>3 DEF TypeOK
<1>5. CASE pc'[r] = "done"
  <2>1. ~Bound(r) /\ ~Bound(r)'
    BY <1>2, <1>5 DEF Bound
  <2>2. \A q \in Requests \ {r} : (Bound(q)' <=> Bound(q)) /\ Key(q)' = Key(q)
    BY <1>4 DEF Bound, Key
  <2>. QED
    BY <1>2, <2>1, <2>2, MapStay
<1>6. ASSUME NEW u \in Candidates(c), pc'[r] = "calling", at'[r] = u,
             ~CoolingDown(cooldown, KeyOf(c, u))
      PROVE  BreakerOf!Next
  <2>1. KeyOf(c, u) \in Keys
    BY CandidatesType
  <2>2. ~Bound(r) /\ Bound(r)' /\ Key(r)' = KeyOf(c, u)
    BY <1>2, <1>4, <1>6 DEF Bound, Key
  <2>3. cooldown[KeyOf(c, u)] = 0
    BY <1>1, <1>6, <2>1 DEF TypeOK, CoolingDown
  <2>4. BreakerOf!Enter(r, KeyOf(c, u))
    BY <1>2, <1>4, <2>1, <2>2, <2>3, MapEnter
  <2>. QED
    BY <2>1, <2>4 DEF BreakerOf!Next
<1>. QED
  BY <1>3, <1>5, <1>6

\* A request that settles, by an answer or a cancellation.
LEMMA SettleMaps ==
    ASSUME IInv, NEW r \in Requests, Active(r),
           UNCHANGED <<cooldown, call, at>>,
           \E to \in {"streaming", "done"} : pc' = [pc EXCEPT ![r] = to]
    PROVE  BreakerOf!Next \/ UNCHANGED <<open, using>>
<1>1. TypeOK
  BY DEF IInv
<1>2. /\ \A q \in Requests \ {r} : pc'[q] = pc[q] /\ call'[q] = call[q] /\ at'[q] = at[q]
      /\ ~Bound(r)'
  BY <1>1 DEF TypeOK, Bound
<1>3. open' = open
  BY DEF open
<1>4. CASE Bound(r)
  <2>1. PICK b \in Keys : b = Key(r)
    BY ActiveRequest DEF Key
  <2>2. BreakerOf!Exit(r, b)
    BY <1>2, <1>3, <1>4, <2>1, MapExit
  <2>. QED
    BY <2>2 DEF BreakerOf!Next
<1>5. CASE ~Bound(r)
  <2>1. \A q \in Requests : (Bound(q)' <=> Bound(q)) /\ (Bound(q) => Key(q)' = Key(q))
    BY <1>2, <1>5 DEF Bound, Key
  <2>. QED
    BY <2>1, MapStay
<1>. QED
  BY <1>4, <1>5

\* Time closes breakers and opens none.
LEMMA TickMaps ==
    ASSUME IInv, Tick
    PROVE  BreakerOf!Next
<1>1. cooldown \in [Keys -> Nat]
  BY DEF IInv, TypeOK
<1>2. using' = using
  BY DEF using, Tick, Bound, Key
<1>3. ASSUME NEW k \in Keys
      PROVE  cooldown'[k] > 0 => cooldown[k] > 0
  BY <1>1 DEF Tick, Before
<1>4. open' \in [Keys -> BOOLEAN]
  BY DEF open
<1>5. \A k \in Keys : open'[k] => open[k]
  BY <1>3, Zenon DEF open
<1>. QED
  BY <1>2, <1>4, <1>5 DEF BreakerOf!Next, BreakerOf!Expire, open, using, Bound, Key

\* Every step of the registry is a step of the breakers, or leaves them alone.
LEMMA StepMaps ==
    ASSUME IInv, CooldownBounded, [Next]_vars
    PROVE  BreakerOf!Next \/ UNCHANGED <<open, using>>
<1>1. ASSUME NEW r \in Requests, NEW c \in Calls, Arrive(r, c)
      PROVE  BreakerOf!Next \/ UNCHANGED <<open, using>>
  BY <1>1, ArriveMaps
<1>2. ASSUME NEW r \in Requests, Reply(r)
      PROVE  BreakerOf!Next \/ UNCHANGED <<open, using>>
  <2>1. CASE Serve(r)
    BY <2>1, SettleMaps DEF Serve, Settle, Active
  <2>2. CASE EmptyContent(r)
    BY <2>2, FailCandidateMaps DEF EmptyContent
  <2>3. ASSUME NEW kind \in FailureKinds, Retry(r, kind)
        PROVE  UNCHANGED <<open, using>>
    <3>1. \A q \in Requests : (Bound(q)' <=> Bound(q)) /\ Key(q)' = Key(q)
      BY <2>3 DEF Retry, Bound, Key, IInv, TypeOK
    <3>. QED
      BY <2>3, <3>1, MapStay DEF Retry
  <2>4. ASSUME NEW kind \in FailureKinds, GiveUp(r, kind)
        PROVE  BreakerOf!Next
    BY <2>4, FailCandidateMaps DEF GiveUp
  <2>5. CASE Escape(r)
    BY <2>5, SettleMaps DEF Escape, Settle, Active
  <2>. QED
    BY <1>2, <2>1, <2>2, <2>3, <2>4, <2>5 DEF Reply
<1>3. ASSUME NEW r \in Requests, Resume(r)
      PROVE  UNCHANGED <<open, using>>
  <2>1. \A q \in Requests : (Bound(q)' <=> Bound(q)) /\ Key(q)' = Key(q)
    BY <1>3 DEF Resume, Bound, Key, IInv, TypeOK
  <2>. QED
    BY <1>3, <2>1, MapStay DEF Resume
<1>4. ASSUME NEW r \in Requests, StreamOver(r)
      PROVE  BreakerOf!Next \/ UNCHANGED <<open, using>>
  BY <1>4, SettleMaps DEF StreamOver, Settle, Active
<1>5. ASSUME NEW r \in Requests, Cancel(r)
      PROVE  BreakerOf!Next \/ UNCHANGED <<open, using>>
  BY <1>5, SettleMaps DEF Cancel, Active
<1>6. ASSUME NEW r \in Requests, Leave(r)
      PROVE  UNCHANGED <<open, using>>
  <2>1. \A q \in Requests : (Bound(q)' <=> Bound(q)) /\ (Bound(q) => Key(q)' = Key(q))
    BY <1>6 DEF Leave, Bound, Key, IInv, TypeOK
  <2>. QED
    BY <1>6, <2>1, MapStay DEF Leave
<1>7. CASE Tick
  BY <1>7, TickMaps
<1>8. CASE UNCHANGED vars
  BY <1>8 DEF vars, open, using, Bound, Key
<1>. QED
  BY <1>1, <1>2, <1>3, <1>4, <1>5, <1>6, <1>7, <1>8 DEF Next

\* The registry implements the circuit breakers.
THEOREM RegistryIsBreaker == Spec => ImplementsBreaker
<1>1. Init => BreakerOf!Init
  <2>. SUFFICES ASSUME Init PROVE BreakerOf!Init
    OBVIOUS
  <2>1. \A k \in Keys : (cooldown[k] > 0) = FALSE
    BY DEF Init
  <2>2. open = [k \in Keys |-> FALSE]
    BY <2>1, Zenon DEF open
  <2>3. using = [k \in Keys |-> {}]
    BY DEF Init, using, Bound
  <2>. QED
    BY <2>2, <2>3 DEF BreakerOf!Init, open, using, Bound, Key
<1>2. IInv /\ CooldownBounded /\ [Next]_vars => [BreakerOf!Next]_(BreakerOf!vars)
  BY StepMaps DEF BreakerOf!vars, open, using, Bound, Key
<1>. QED
  BY <1>1, <1>2, Inductive, CooldownsBounded, PTL DEF Spec, ImplementsBreaker, BreakerOf!Spec
=============================================================================
