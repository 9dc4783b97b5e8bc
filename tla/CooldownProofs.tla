--------------------------- MODULE CooldownProofs ---------------------------
(***************************************************************************)
(* Proofs about the cooldown table of Failover: how long a cooldown lasts, *)
(* who may start one, that no failure shortens one, and that the table     *)
(* implements the circuit breaker of module Breaker.                       *)
(***************************************************************************)
EXTENDS FailoverProofs

Setting(s) == IF s \in OcrScopes THEN CooldownOcr ELSE CooldownDefault

Blaming == {"empty", "refused", "rateLimited", "fault"}

\* Whatever fails in a scope, the provider cools down equally long: no error
\* is raised with status 429.
LEMMA OneSettingPerScope ==
    ASSUME NEW s, NEW kind \in {"empty"} \cup FailureKinds
    PROVE  CooldownSecondsFor(s, kind) = Setting(s)
  BY DEF CooldownSecondsFor, RaisedStatus, FailureKinds, Setting

\* An active request carries a call and stands on a candidate of its chain.
LEMMA ActiveRequest ==
    ASSUME IInv, NEW r \in Requests, Active(r)
    PROVE  /\ call[r] \in Calls
           /\ at[r] \in Candidates(call[r]) /\ at[r] \in Nat /\ at[r] \in Positions
           /\ KeyOf(call[r], at[r]) \in Keys
<1>1. TypeOK /\ RequestOK(r) /\ pc[r] # "idle"
  BY DEF IInv, Active
<1>2. call[r] \in Calls
  <2>1. call[r] # NoCall
    BY <1>1, Zenon DEF RequestOK
  <2>. QED
    BY <1>1, <2>1 DEF TypeOK
<1>3. at[r] \in Candidates(call[r])
  BY <1>1 DEF RequestOK
<1>. QED
  BY <1>2, <1>3, CandidatesType

\* A candidate that fails is recorded as such: the scan that follows does not
\* touch its position.
LEMMA FailCandidateEffect ==
    ASSUME IInv, NEW r \in Requests, NEW kind \in {"empty"} \cup FailureKinds,
           pc[r] = "calling", FailCandidate(r, kind)
    PROVE  /\ KeyOf(call[r], at[r]) \in Keys
           /\ cooldown' = StartCooldown(cooldown, KeyOf(call[r], at[r]), kind)
           /\ fate'[r][at[r]] = kind
           /\ \A q \in Requests \ {r} : fate'[q] = fate[q]
           /\ fate[r][at[r]] = "untried"
<1>. DEFINE c  == call[r]
            i  == at[r]
            f  == [fate[r] EXCEPT ![i] = kind]
            cd == StartCooldown(cooldown, KeyOf(c, i), kind)
<1>1. TypeOK /\ RequestOK(r) /\ Active(r)
  BY DEF IInv, Active
<1>2. c \in Calls /\ fate[r] \in [Positions -> Fates]
  BY <1>1, ActiveRequest DEF TypeOK
<1>3. i \in Candidates(c) /\ i \in Nat /\ i \in Positions /\ KeyOf(c, i) \in Keys
  BY <1>1, ActiveRequest
<1>4. fate[r][i] = "untried"
  BY <1>1, <1>3 DEF RequestOK
<1>5. Proceed(r, c, i, cd, kind, capError[r], f) /\ cooldown' = cd
  BY Zenon DEF FailCandidate
<1>6. fate' = [fate EXCEPT ![r] = FateAfter(c, i, cd, f)]
  BY <1>5, Zenon DEF Proceed
<1>7. i \notin Passed(c, i, cd)
  BY <1>3 DEF Passed, Ahead
<1>8. FateAfter(c, i, cd, f)[i] = f[i]
  BY <1>3, <1>7 DEF FateAfter, PassedUnable, PassedCooling
<1>9. f[i] = kind
  BY <1>2, <1>3
<1>. QED
  BY <1>1, <1>3, <1>4, <1>5, <1>6, <1>8, <1>9 DEF TypeOK

\* The cooldowns after a step: time ran, or one request's candidate failed,
\* or nothing happened to them and no request saw its candidate fail.
LEMMA CooldownStep ==
    ASSUME IInv, [Next]_vars
    PROVE  \/ /\ \A r \in Requests : ~ProviderFails(r)
              /\ \A k \in Keys : cooldown'[k] = cooldown[k]
           \/ /\ \A r \in Requests : ~ProviderFails(r)
              /\ \A k \in Keys : cooldown'[k] = Before(cooldown[k])
           \/ \E r \in Requests, kind \in Blaming :
              /\ ProviderFails(r)
              /\ fate'[r][at[r]] = kind
              /\ \A q \in Requests : ProviderFails(q) => q = r
              /\ KeyOf(call[r], at[r]) \in Keys
              /\ cooldown' = [cooldown EXCEPT ![KeyOf(call[r], at[r])]
                                 = CooldownSecondsFor(Scope(call[r]), kind)]
<1>. DEFINE Quiet == /\ \A r \in Requests : ~ProviderFails(r)
                     /\ \A k \in Keys : cooldown'[k] = cooldown[k]
            Fails == \E r \in Requests, kind \in Blaming :
                        /\ ProviderFails(r)
                        /\ fate'[r][at[r]] = kind
                        /\ \A q \in Requests : ProviderFails(q) => q = r
                        /\ KeyOf(call[r], at[r]) \in Keys
                        /\ cooldown' = [cooldown EXCEPT ![KeyOf(call[r], at[r])]
                                           = CooldownSecondsFor(Scope(call[r]), kind)]
<1>1. TypeOK
  BY DEF IInv
<1>2. \A q \in Requests : fate'[q] = fate[q] => ~ProviderFails(q)
  BY DEF ProviderFails
<1>3. ASSUME NEW r \in Requests, NEW kind \in {"empty"} \cup FailureKinds,
             pc[r] = "calling", CanFail(r, kind) \/ CanAnswer(r), FailCandidate(r, kind)
      PROVE  Quiet \/ Fails
  <2>1. /\ KeyOf(call[r], at[r]) \in Keys
        /\ cooldown' = StartCooldown(cooldown, KeyOf(call[r], at[r]), kind)
        /\ fate'[r][at[r]] = kind
        /\ \A q \in Requests \ {r} : fate'[q] = fate[q]
        /\ fate[r][at[r]] = "untried"
    BY <1>3, FailCandidateEffect
  <2>2. \A q \in Requests : ProviderFails(q) => q = r
    BY <1>2, <2>1
  <2>3. KeyOf(call[r], at[r])[1] = ProviderAt(call[r], at[r])
        /\ KeyOf(call[r], at[r])[2] = Scope(call[r])
    BY DEF KeyOf
  <2>4. CASE ProviderAt(call[r], at[r]) = Stub \/ kind = "badRequest"
    <3>1. cooldown' = cooldown
      BY <2>1, <2>3, <2>4 DEF StartCooldown
    <3>2. ~ProviderFails(r)
      BY <2>1, <2>4 DEF ProviderFails
    <3>. QED
      BY <2>2, <3>1, <3>2
  <2>5. CASE ~(ProviderAt(call[r], at[r]) = Stub \/ kind = "badRequest")
    <3>1. kind \in Blaming
      BY <2>5 DEF Blaming, FailureKinds
    <3>2. ProviderFails(r)
      BY <1>3, <2>1, <2>5, <3>1 DEF ProviderFails, Blaming
    <3>3. cooldown' = [cooldown EXCEPT ![KeyOf(call[r], at[r])]
                          = CooldownSecondsFor(Scope(call[r]), kind)]
      BY <2>1, <2>3, <2>5 DEF StartCooldown
    <3>. QED
      BY <2>1, <2>2, <3>1, <3>2, <3>3
  <2>. QED
    BY <2>4, <2>5
<1>4. ASSUME NEW r \in Requests, NEW to, NEW result, NEW what, what \notin Blaming,
             Active(r), Settle(r, to, result, what)
      PROVE  Quiet
  <2>1. fate' = [fate EXCEPT ![r][at[r]] = what] /\ cooldown' = cooldown
    BY <1>4 DEF Settle
  <2>2. at[r] \in Positions
    BY <1>4, ActiveRequest
  <2>3. fate'[r][at[r]] = what /\ \A q \in Requests \ {r} : fate'[q] = fate[q]
    BY <1>1, <2>1, <2>2 DEF TypeOK
  <2>. QED
    BY <1>2, <1>4, <2>1, <2>3 DEF ProviderFails, Blaming
<1>5. ASSUME NEW r \in Requests, pc[r] # "calling", cooldown' = cooldown,
             \A q \in Requests \ {r} : fate'[q] = fate[q]
      PROVE  Quiet
  BY <1>2, <1>5 DEF ProviderFails
<1>6. ASSUME NEW r \in Requests, NEW c \in Calls, Arrive(r, c)
      PROVE  Quiet
  <2>1. pc[r] = "idle" /\ cooldown' = cooldown
    BY <1>6 DEF Arrive
  <2>2. \E g : fate' = [fate EXCEPT ![r] = g]
    BY <1>6, Zenon DEF Arrive, Proceed
  <2>3. \A q \in Requests \ {r} : fate'[q] = fate[q]
    BY <1>1, <2>2 DEF TypeOK
  <2>. QED
    BY <1>5, <2>1, <2>3
<1>7. ASSUME NEW r \in Requests, Reply(r)
      PROVE  Quiet \/ Fails
  <2>1. CASE Serve(r)
    BY <2>1, <1>4 DEF Serve, Active, Blaming
  <2>2. CASE EmptyContent(r)
    BY <2>2, <1>3 DEF EmptyContent
  <2>3. ASSUME NEW kind \in FailureKinds, Retry(r, kind)
        PROVE  Quiet
    BY <1>2, <2>3 DEF Retry
  <2>4. ASSUME NEW kind \in FailureKinds, GiveUp(r, kind)
        PROVE  Quiet \/ Fails
    BY <2>4, <1>3 DEF GiveUp
  <2>5. CASE Escape(r)
    BY <2>5, <1>4 DEF Escape, Active, Blaming
  <2>. QED
    BY <1>7, <2>1, <2>2, <2>3, <2>4, <2>5 DEF Reply
<1>8. ASSUME NEW r \in Requests, Resume(r)
      PROVE  Quiet
  BY <1>2, <1>8 DEF Resume
<1>9. ASSUME NEW r \in Requests, StreamOver(r)
      PROVE  Quiet
  BY <1>9, <1>4 DEF StreamOver, Active, Blaming
<1>10. ASSUME NEW r \in Requests, Cancel(r)
       PROVE  Quiet
  <2>1. fate' = [fate EXCEPT ![r][at[r]] = "cancelled"] /\ cooldown' = cooldown /\ Active(r)
    BY <1>10 DEF Cancel, Active
  <2>2. at[r] \in Positions
    BY <2>1, ActiveRequest
  <2>3. fate'[r][at[r]] = "cancelled" /\ \A q \in Requests \ {r} : fate'[q] = fate[q]
    BY <1>1, <2>1, <2>2 DEF TypeOK
  <2>. QED
    BY <1>2, <2>1, <2>3 DEF ProviderFails
<1>11. ASSUME NEW r \in Requests, Leave(r)
       PROVE  Quiet
  <2>1. /\ pc[r] = "done" /\ cooldown' = cooldown
        /\ fate' = [fate EXCEPT ![r] = [j \in Positions |-> "untried"]]
    BY <1>11 DEF Leave
  <2>2. \A q \in Requests \ {r} : fate'[q] = fate[q]
    BY <1>1, <2>1 DEF TypeOK
  <2>. QED
    BY <1>5, <2>1, <2>2
<1>12. CASE Tick
  BY <1>2, <1>12 DEF Tick
<1>13. CASE UNCHANGED vars
  BY <1>2, <1>13 DEF vars
<1>. QED
  BY <1>6, <1>7, <1>8, <1>9, <1>10, <1>11, <1>12, <1>13 DEF Next

-----------------------------------------------------------------------------
(* Theorems *)

\* No failure, and no order of failures, makes a cooldown outlast the setting
\* of its scope, and the stub never cools down.
THEOREM CooldownsBounded == Spec => []CooldownBounded
<1>1. Init => CooldownBounded
  BY TimesAssumption DEF Init, CooldownBounded
<1>2. IInv /\ CooldownBounded /\ [Next]_vars => CooldownBounded'
  <2>. SUFFICES ASSUME IInv, CooldownBounded, [Next]_vars,
                       NEW k \in Keys
                PROVE  cooldown'[k] <= IF k[1] = Stub THEN 0 ELSE Setting(k[2])
    BY DEF CooldownBounded, Setting
  <2>1. /\ cooldown \in [Keys -> Nat]
        /\ cooldown[k] <= IF k[1] = Stub THEN 0 ELSE Setting(k[2])
    BY DEF IInv, TypeOK, CooldownBounded, Setting
  <2>2. Setting(k[2]) \in Nat
    BY TimesAssumption DEF Setting
  <2>3. CASE cooldown'[k] = cooldown[k]
    BY <2>1, <2>2, <2>3
  <2>4. CASE cooldown'[k] = Before(cooldown[k])
    BY <2>1, <2>2, <2>4 DEF Before
  <2>5. ASSUME NEW r \in Requests, NEW kind \in Blaming,
               ProviderFails(r), KeyOf(call[r], at[r]) \in Keys,
               cooldown' = [cooldown EXCEPT ![KeyOf(call[r], at[r])]
                               = CooldownSecondsFor(Scope(call[r]), kind)]
        PROVE  cooldown'[k] <= IF k[1] = Stub THEN 0 ELSE Setting(k[2])
    <3>1. CooldownSecondsFor(Scope(call[r]), kind) = Setting(Scope(call[r]))
      BY OneSettingPerScope DEF Blaming, FailureKinds
    <3>2. CASE k = KeyOf(call[r], at[r])
      <4>1. k[1] # Stub /\ k[2] = Scope(call[r])
        BY <2>5, <3>2 DEF ProviderFails, KeyOf
      <4>. QED
        BY <2>1, <2>2, <2>5, <3>1, <3>2, <4>1
    <3>3. CASE k # KeyOf(call[r], at[r])
      BY <2>1, <2>5, <3>3
    <3>. QED
      BY <3>2, <3>3
  <2>. QED
    BY <2>3, <2>4, <2>5, CooldownStep
<1>. QED
  BY <1>1, <1>2, Inductive, PTL DEF Spec

\* Only a request of the scope that saw the provider fail starts a cooldown,
\* and it always does: scopes are isolated from each other.
THEOREM CooldownsByFailure == Spec => CooldownOnlyByFailure
<1>. DEFINE Step ==
        /\ \A r \in Requests : ProviderFails(r) =>
              cooldown'[KeyOf(call[r], at[r])]
                 = CooldownSecondsFor(Scope(call[r]), fate'[r][at[r]])
        /\ \A k \in Keys : cooldown'[k] > cooldown[k] =>
              \E r \in Requests : ProviderFails(r) /\ KeyOf(call[r], at[r]) = k
<1>1. IInv /\ [Next]_vars => Step
  <2>. SUFFICES ASSUME IInv, [Next]_vars PROVE Step
    OBVIOUS
  <2>1. cooldown \in [Keys -> Nat]
    BY DEF IInv, TypeOK
  <2>2. CASE /\ \A r \in Requests : ~ProviderFails(r)
             /\ \A k \in Keys : cooldown'[k] \in {cooldown[k], Before(cooldown[k])}
    BY <2>1, <2>2 DEF Before
  <2>3. ASSUME NEW r \in Requests, NEW kind \in Blaming,
               ProviderFails(r), fate'[r][at[r]] = kind,
               \A q \in Requests : ProviderFails(q) => q = r,
               KeyOf(call[r], at[r]) \in Keys,
               cooldown' = [cooldown EXCEPT ![KeyOf(call[r], at[r])]
                               = CooldownSecondsFor(Scope(call[r]), kind)]
        PROVE  Step
    <3>1. cooldown'[KeyOf(call[r], at[r])] = CooldownSecondsFor(Scope(call[r]), kind)
      BY <2>1, <2>3
    <3>2. \A k \in Keys : k # KeyOf(call[r], at[r]) => cooldown'[k] = cooldown[k]
      BY <2>1, <2>3
    <3>. QED
      BY <2>1, <2>3, <3>1, <3>2
  <2>. QED
    BY <2>2, <2>3, CooldownStep
<1>. QED
  BY <1>1, Inductive, PTL DEF Spec, CooldownOnlyByFailure

\* A late failure never cuts short the cooldown of an earlier one.
THEOREM CooldownsNotShortened == Spec => CooldownNotShortened
<1>. DEFINE Step ==
        \A r \in Requests : ProviderFails(r) =>
           LET k == KeyOf(call[r], at[r]) IN cooldown'[k] >= cooldown[k]
<1>1. IInv /\ CooldownBounded /\ [Next]_vars => Step
  <2>. SUFFICES ASSUME IInv, CooldownBounded, [Next]_vars,
                       NEW r \in Requests, ProviderFails(r)
                PROVE  cooldown'[KeyOf(call[r], at[r])] >= cooldown[KeyOf(call[r], at[r])]
    OBVIOUS
  <2>1. PICK kind \in Blaming :
           /\ KeyOf(call[r], at[r]) \in Keys
           /\ cooldown' = [cooldown EXCEPT ![KeyOf(call[r], at[r])]
                               = CooldownSecondsFor(Scope(call[r]), kind)]
    BY CooldownStep
  <2>2. CooldownSecondsFor(Scope(call[r]), kind) = Setting(Scope(call[r]))
    BY OneSettingPerScope DEF Blaming, FailureKinds
  <2>3. cooldown[KeyOf(call[r], at[r])] <= Setting(Scope(call[r]))
    BY <2>1, TimesAssumption DEF CooldownBounded, KeyOf, ProviderFails, Setting
  <2>4. cooldown \in [Keys -> Nat] /\ Setting(Scope(call[r])) \in Nat
    BY TimesAssumption DEF IInv, TypeOK, Setting
  <2>. QED
    BY <2>1, <2>2, <2>3, <2>4
<1>. QED
  BY <1>1, Inductive, CooldownsBounded, PTL DEF Spec, CooldownNotShortened
=============================================================================
