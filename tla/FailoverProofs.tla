--------------------------- MODULE FailoverProofs ---------------------------
(***************************************************************************)
(* Proofs about Failover, for every number of requests, every chain and    *)
(* every setting of the retries, backoffs and cooldowns.                   *)
(***************************************************************************)
EXTENDS Failover, NaturalsInduction, WellFoundedInduction, TLAPS

-----------------------------------------------------------------------------
(* Lemmas about the operators *)

\* The chain positions are positions, and positions are positive integers.
LEMMA CandidatesType ==
    ASSUME NEW c \in Calls
    PROVE  /\ Candidates(c) \subseteq Positions
           /\ Candidates(c) \subseteq Nat \ {0}
           /\ \A j \in Candidates(c) :
                 /\ ProviderAt(c, j) \in Providers
                 /\ KeyOf(c, j) \in Keys
<1>1. c.route \in Routes /\ Listed[c.route] \in Seq(Providers)
  BY CallsAssumption, RoutesAssumption DEF CallType
<1>2. ScopeOf[c.route] \in Scopes
  BY <1>1, RoutesAssumption
<1>3. Candidates(c) \subseteq DOMAIN Listed[c.route]
  BY <1>1 DEF Candidates, FallbackChain
<1>4. DOMAIN Listed[c.route] \subseteq Positions
  BY <1>1 DEF Positions
<1>5. DOMAIN Listed[c.route] = 1..Len(Listed[c.route]) /\ Len(Listed[c.route]) \in Nat
  BY <1>1
<1>6. \A j \in DOMAIN Listed[c.route] : Listed[c.route][j] \in Providers
  BY <1>1
<1>. QED
  BY <1>2, <1>3, <1>4, <1>5, <1>6 DEF ProviderAt, KeyOf, Scope, Keys

\* A nonempty set of naturals has a least element, and Least returns it.
LEMMA LeastType ==
    ASSUME NEW S \in SUBSET Nat, S # {}
    PROVE  Least(S) \in S /\ \A j \in S : Least(S) <= j
<1>1. PICK x \in S : \A y \in S : ~(<<y, x>> \in OpToRel(<, Nat))
  BY WFMin, NatLessThanWellFounded, Zenon
<1>2. \A y \in S : ~(y < x)
  BY <1>1, Zenon DEF OpToRel
<1>3. x \in Nat /\ \A y \in S : y \in Nat
  BY Zenon
<1>4. \A y \in S : x <= y
  BY <1>2, <1>3
<1>5. \E i \in S : \A j \in S : i <= j
  BY <1>4, Zenon
<1>. QED
  BY <1>5, Zenon DEF Least

\* A backoff sleep is a natural number of time units.
LEMMA BackoffType ==
    ASSUME NEW n \in Nat
    PROVE  Backoff(n) \in 0..BackoffCap
  BY TimesAssumption DEF Backoff

\* So is the cooldown a failure starts.
LEMMA CooldownSecondsType ==
    ASSUME NEW s \in Scopes, NEW kind \in {"empty"} \cup FailureKinds
    PROVE  CooldownSecondsFor(s, kind) \in Nat
  BY TimesAssumption DEF CooldownSecondsFor

\* Starting a cooldown keeps the cooldown table well formed.
LEMMA StartCooldownType ==
    ASSUME NEW cd \in [Keys -> Nat], NEW k \in Keys,
           NEW kind \in {"empty"} \cup FailureKinds
    PROVE  StartCooldown(cd, k, kind) \in [Keys -> Nat]
<1>1. k[2] \in Scopes
  BY DEF Keys
<1>. QED
  BY <1>1, CooldownSecondsType DEF StartCooldown

\* Every chain ends: its positions are bounded.
LEMMA CandidatesBounded ==
    ASSUME NEW c \in Calls
    PROVE  \E n \in Nat : \A j \in Candidates(c) : j <= n
<1>1. c.route \in Routes /\ Listed[c.route] \in Seq(Providers)
  BY CallsAssumption, RoutesAssumption DEF CallType
<1>2. Len(Listed[c.route]) \in Nat /\ DOMAIN Listed[c.route] = 1..Len(Listed[c.route])
  BY <1>1
<1>3. \A j \in Candidates(c) : j <= Len(Listed[c.route])
  BY <1>1, <1>2 DEF Candidates, FallbackChain
<1>. QED
  BY <1>2, <1>3

\* The scan of the chain from position i touches exactly what it passes over.
LEMMA ScanFates ==
    ASSUME NEW c \in Calls, NEW i \in Nat, NEW cd, NEW f \in [Positions -> Fates]
    PROVE  /\ FateAfter(c, i, cd, f) \in [Positions -> Fates]
           /\ \A j \in Positions :
                 \/ /\ FateAfter(c, i, cd, f)[j] = f[j]
                    /\ j \notin Passed(c, i, cd)
                 \/ /\ FateAfter(c, i, cd, f)[j] = "unable"
                    /\ j \in PassedUnable(c, i, cd)
                 \/ /\ FateAfter(c, i, cd, f)[j] = "cooling"
                    /\ j \in PassedCooling(c, i, cd)
<1>1. PassedUnable(c, i, cd) \cup PassedCooling(c, i, cd) = Passed(c, i, cd)
  BY DEF PassedUnable, PassedCooling
<1>2. "unable" \in Fates /\ "cooling" \in Fates
  BY DEF Fates, ErrorKinds
<1>. QED
  BY <1>1, <1>2 DEF FateAfter

\* A scan that finds a usable candidate stops at the first one.
LEMMA ScanStops ==
    ASSUME NEW c \in Calls, NEW i \in Nat, NEW cd, Usable(c, i, cd) # {},
           NEW u, u = Least(Usable(c, i, cd))
    PROVE  /\ u \in Candidates(c) \ Unable(c, 0)
           /\ u \in Usable(c, i, cd)
           /\ u \in Nat /\ u > i
           /\ \A j \in Candidates(c) : j \in Passed(c, i, cd) <=> (j > i /\ j < u)
<1>. DEFINE U == Usable(c, i, cd)
<1>1. Candidates(c) \subseteq Nat \ {0}
  BY CandidatesType
<1>2. U \subseteq Candidates(c) /\ U \subseteq Nat
  BY <1>1 DEF Usable, Ahead
<1>3. u \in U /\ \A j \in U : u <= j
  BY <1>2, LeastType
<1>4. u \in Nat /\ u > i /\ u \in Candidates(c) \ Unable(c, 0)
  BY <1>1, <1>2, <1>3 DEF Usable, Ahead, Unable
<1>5. ASSUME NEW j \in Candidates(c)
      PROVE  j \in Passed(c, i, cd) <=> (j > i /\ j < u)
  <2>1. j \in Nat
    BY <1>1
  <2>2. j \in Passed(c, i, cd) <=> (j > i /\ \A v \in U : j < v)
    BY DEF Passed, Ahead
  <2>. QED
    BY <2>1, <2>2, <1>2, <1>3, <1>4
<1>. QED
  BY <1>3, <1>4, <1>5

\* A scan that finds none passes over the rest of the chain.
LEMMA ScanEnds ==
    ASSUME NEW c \in Calls, NEW i \in Nat, NEW cd, Usable(c, i, cd) = {}
    PROVE  \A j \in Candidates(c) : j \in Passed(c, i, cd) <=> j > i
  BY DEF Passed, Ahead

\* The scan keeps the books: what it passes over becomes the last error the
\* caller can be told about, or the capability error.
LEMMA ScanBooks ==
    ASSUME NEW c \in Calls, NEW i \in Nat, NEW n \in Nat, NEW cd,
           NEW err, NEW cap \in BOOLEAN, NEW f \in [Positions -> Fates],
           Books(c, f, i, err, cap),
           \A j \in Candidates(c) : j > i => f[j] = "untried",
           n >= i,
           \A j \in Candidates(c) : j \in Passed(c, i, cd) <=> (j > i /\ j <= n)
    PROVE  Books(c, FateAfter(c, i, cd, f), n,
                 ErrorAfter(c, i, cd, err), CapErrorAfter(c, i, cd, cap))
<1>. DEFINE g    == FateAfter(c, i, cd, f)
            err2 == ErrorAfter(c, i, cd, err)
            cap2 == CapErrorAfter(c, i, cd, cap)
            told(h) == {j \in Candidates(c) :
                          /\ h[j] \in ErrorKinds
                          /\ ~(IsEmbedding(c) /\ h[j] = "cooling")}
<1>1. Candidates(c) \subseteq Positions /\ Candidates(c) \subseteq Nat
  BY CandidatesType
<1>2. \A j \in Candidates(c) :
         \/ g[j] = f[j] /\ j \notin Passed(c, i, cd)
         \/ g[j] = "unable" /\ j \in PassedUnable(c, i, cd)
         \/ g[j] = "cooling" /\ j \in PassedCooling(c, i, cd)
  BY <1>1, ScanFates
<1>3. /\ PassedUnable(c, i, cd) \subseteq Passed(c, i, cd)
      /\ PassedCooling(c, i, cd) \subseteq Passed(c, i, cd)
      /\ Passed(c, i, cd) \subseteq Candidates(c)
      /\ PassedUnable(c, i, cd) \cap PassedCooling(c, i, cd) = {}
  BY DEF Passed, PassedUnable, PassedCooling, Ahead
<1>4. /\ "unable" \notin ErrorKinds /\ "untried" \notin ErrorKinds
      /\ "served" \notin ErrorKinds /\ "cooling" \in ErrorKinds
  BY DEF ErrorKinds, FailureKinds
<1>5. /\ \A j \in Candidates(c) : IF j <= i THEN f[j] \in ErrorKinds \cup {"unable"}
                                  ELSE f[j] \in {"untried", "served"}
      /\ cap <=> \E j \in Candidates(c) : f[j] = "unable"
      /\ \A j \in told(f) : (\A k \in told(f) : k <= j) => err = f[j]
      /\ told(f) = {} => err = "none"
  BY DEF Books
<1>6. \A j \in Candidates(c) : IF j <= n THEN g[j] \in ErrorKinds \cup {"unable"}
                               ELSE g[j] \in {"untried", "served"}
  BY <1>1, <1>2, <1>3, <1>4, <1>5
<1>7. cap2 <=> \E j \in Candidates(c) : g[j] = "unable"
  <2>1. \A j \in PassedUnable(c, i, cd) : j \in Candidates(c) /\ g[j] = "unable"
    BY <1>2, <1>3
  <2>2. \A j \in Candidates(c) : f[j] = "unable" => g[j] = "unable"
    BY <1>1, <1>2, <1>3
  <2>3. \A j \in Candidates(c) : g[j] = "unable" =>
           f[j] = "unable" \/ j \in PassedUnable(c, i, cd)
    BY <1>2
  <2>. QED
    BY <1>5, <2>1, <2>2, <2>3 DEF CapErrorAfter
<1>8. CASE PassedCooling(c, i, cd) # {} /\ ~IsEmbedding(c)
  <2>1. PICK k \in PassedCooling(c, i, cd) : TRUE
    BY <1>8
  <2>2. k \in Candidates(c) /\ k > i /\ g[k] = "cooling"
    BY <1>2, <1>3
  <2>3. k \in told(g)
    BY <1>4, <1>8, <2>2
  <2>4. err2 = "cooling"
    BY <1>8 DEF ErrorAfter
  <2>5. ASSUME NEW j \in told(g), \A l \in told(g) : l <= j
        PROVE  err2 = g[j]
    <3>1. j >= k /\ j \in Candidates(c) /\ g[j] \in ErrorKinds
      BY <2>3, <2>5
    <3>2. j \in Nat /\ k \in Nat /\ j > i
      BY <1>1, <2>2, <3>1
    <3>3. f[j] \notin ErrorKinds
      BY <1>4, <1>5, <3>1, <3>2
    <3>. QED
      BY <1>2, <1>4, <2>4, <3>1, <3>3
  <2>. QED
    BY <1>6, <1>7, <2>3, <2>5 DEF Books
<1>9. CASE PassedCooling(c, i, cd) = {} \/ IsEmbedding(c)
  <2>1. err2 = err
    BY <1>9 DEF ErrorAfter
  <2>2. \A j \in Candidates(c) : j \in told(g) <=> j \in told(f)
    BY <1>1, <1>2, <1>3, <1>4, <1>5, <1>9
  <2>3. \A j \in told(f) : g[j] = f[j]
    BY <1>2, <1>1, <1>3, <1>4, <1>5
  <2>4. told(g) = told(f)
    BY <2>2
  <2>. QED
    BY <1>5, <1>6, <1>7, <2>1, <2>3, <2>4 DEF Books
<1>. QED
  BY <1>8, <1>9

-----------------------------------------------------------------------------
(* The inductive invariant, one request at a time *)

RequestOK(r) ==
    /\ Active(r) =>
          /\ at[r] \in Candidates(call[r]) \ Unable(call[r], 0)
          /\ \A j \in Candidates(call[r]) :
                /\ j < at[r] => fate[r][j] \in ErrorKinds \cup {"unable"}
                /\ j = at[r] => fate[r][j] \in {"untried", "served"}
                /\ j > at[r] => fate[r][j] = "untried"
          /\ \E err \in ErrorKinds \cup {"none"} :
                /\ Books(call[r], fate[r], at[r] - 1, err, capError[r])
                /\ Noted(r, err)
          /\ fate[r][at[r]] = "served" <=> pc[r] = "streaming"
    /\ pc[r] = "idle" <=> call[r] = NoCall
    /\ pc[r] = "idle" => fate[r] = [j \in Positions |-> "untried"]
    /\ answer[r] # "none" => pc[r] = "done"
    /\ pc[r] = "waiting" => attempt[r] < MaxRetries
    /\ answer[r] \in ChainErrors =>
          /\ \A j \in Candidates(call[r]) : fate[r][j] \in ErrorKinds \cup {"unable"}
          /\ \A j \in Told(r) : (\A i \in Told(r) : i <= j) => answer[r] = fate[r][j]
          /\ Told(r) = {} =>
                answer[r] = IF \E j \in Candidates(call[r]) : fate[r][j] = "unable"
                            THEN "unsupported" ELSE "unavailable"

IInv == TypeOK /\ \A r \in Requests : RequestOK(r)

\* The inductive invariant implies the invariants the runs check.
LEMMA IInvImplies == IInv => ChainOrder /\ Bookkeeping /\ FailureReport
  BY DEF IInv, RequestOK, ChainOrder, Bookkeeping, FailureReport

\* A step leaves what it knows of the requests it does not touch.
LEMMA Frame ==
    ASSUME NEW q \in Requests, RequestOK(q),
           pc'[q] = pc[q], call'[q] = call[q], at'[q] = at[q],
           lastError'[q] = lastError[q], capError'[q] = capError[q],
           attempt'[q] = attempt[q], answer'[q] = answer[q], fate'[q] = fate[q]
    PROVE  RequestOK(q)'
<1>1. \A err : Noted(q, err)' <=> Noted(q, err)
  BY DEF Noted, Retrying
<1>. QED
  BY <1>1 DEF RequestOK, Active, Told

\* What a step of the chain loop for request r does to the requests.
MovesOn(r) ==
    /\ pc' \in [Requests -> {"idle", "calling", "waiting", "streaming", "done"}]
    /\ at' \in [Requests -> Nat]
    /\ attempt' \in [Requests -> 0..MaxRetries]
    /\ lastError' \in [Requests -> ErrorKinds \cup {"none"}]
    /\ capError' \in [Requests -> BOOLEAN]
    /\ answer' \in [Requests -> Answers]
    /\ fate' \in [Requests -> [Positions -> Fates]]
    /\ \A q \in Requests \ {r} :
          /\ pc'[q] = pc[q] /\ at'[q] = at[q]
          /\ lastError'[q] = lastError[q] /\ capError'[q] = capError[q]
          /\ attempt'[q] = attempt[q]
          /\ answer'[q] = answer[q] /\ fate'[q] = fate[q]
    /\ RequestOK(r)'

\* The rest of the chain loop, entered with its books kept, keeps them: it
\* ends on a usable candidate or with the report the caller is due.
LEMMA ProceedOK ==
    ASSUME TypeOK, NEW r \in Requests, NEW c \in Calls, NEW i \in Nat, NEW cd,
           NEW err \in ErrorKinds \cup {"none"}, NEW cap \in BOOLEAN,
           NEW f \in [Positions -> Fates],
           Books(c, f, i, err, cap),
           \A j \in Candidates(c) : j > i => f[j] = "untried",
           answer[r] = "none", call'[r] = c,
           Proceed(r, c, i, cd, err, cap, f)
    PROVE  MovesOn(r)
<1>. DEFINE g      == FateAfter(c, i, cd, f)
            usable == Usable(c, i, cd)
            u      == Least(usable)
            err2   == ErrorAfter(c, i, cd, err)
            cap2   == CapErrorAfter(c, i, cd, cap)
<1>1. Candidates(c) \subseteq Positions /\ Candidates(c) \subseteq Nat \ {0}
  BY CandidatesType
<1>2. /\ g \in [Positions -> Fates]
      /\ \A j \in Positions : j \notin Passed(c, i, cd) => g[j] = f[j]
  BY ScanFates DEF PassedUnable, PassedCooling
<1>3. err2 \in ErrorKinds \cup {"none"} /\ cap2 \in BOOLEAN
  BY DEF ErrorAfter, CapErrorAfter, ErrorKinds
<1>4. FinalError(err2, cap2) \in ChainErrors
  BY <1>3 DEF FinalError, ChainErrors
<1>5. /\ fate' = [fate EXCEPT ![r] = g]
      /\ lastError' = [lastError EXCEPT ![r] = err2]
      /\ capError' = [capError EXCEPT ![r] = cap2]
      /\ attempt' = [attempt EXCEPT ![r] = 0]
  BY Zenon DEF Proceed
<1>6. 0 \in 0..MaxRetries
  BY TimesAssumption
<1>7. c # NoCall
  BY CallsAssumption
<1>8. CASE usable # {}
  <2>1. /\ pc' = [pc EXCEPT ![r] = "calling"]
        /\ at' = [at EXCEPT ![r] = u]
        /\ answer' = answer
    BY <1>8, Zenon DEF Proceed
  <2>2. /\ u \in Candidates(c) \ Unable(c, 0)
        /\ u \in Nat /\ u > i
        /\ \A j \in Candidates(c) : j \in Passed(c, i, cd) <=> (j > i /\ j < u)
    BY <1>8, ScanStops
  <2>3. \A j \in Candidates(c) : j >= u => g[j] = "untried"
    BY <1>1, <1>2, <2>2
  <2>4. /\ u - 1 \in Nat /\ u - 1 >= i
        /\ \A j \in Candidates(c) : j \in Passed(c, i, cd) <=> (j > i /\ j <= u - 1)
    BY <1>1, <2>2
  <2>5. Books(c, g, u - 1, err2, cap2)
    BY <2>4, ScanBooks
  <2>6. \A j \in Candidates(c) : j < u => g[j] \in ErrorKinds \cup {"unable"}
    BY <1>1, <2>2, <2>5 DEF Books
  <2>7. /\ pc'[r] = "calling" /\ at'[r] = u /\ answer'[r] = "none"
        /\ fate'[r] = g /\ lastError'[r] = err2 /\ capError'[r] = cap2
        /\ attempt'[r] = 0
    BY <1>5, <2>1 DEF TypeOK
  <2>8. RequestOK(r)'
    <3>1. Active(r)'
      BY <2>7 DEF Active
    <3>2. g[u] = "untried"
      BY <2>2, <2>3
    <3>3. "none" \notin ChainErrors
      BY DEF ChainErrors, ErrorKinds, FailureKinds
    <3>4. Noted(r, err2)'
      BY <2>7 DEF Noted, Retrying
    <3>5. \E e \in ErrorKinds \cup {"none"} :
             Books(c, g, u - 1, e, cap2) /\ Noted(r, e)'
      <4>. HIDE DEF err2
      <4>. QED
        BY <1>3, <2>5, <3>4
    <3>. QED
      BY <1>1, <1>7, <2>2, <2>3, <3>5, <2>6, <2>7, <3>1, <3>2, <3>3 DEF RequestOK
  <2>. QED
    BY <1>2, <1>3, <1>5, <1>6, <2>1, <2>2, <2>8 DEF TypeOK, MovesOn
<1>9. CASE usable = {}
  <2>1. /\ pc' = [pc EXCEPT ![r] = "done"]
        /\ answer' = [answer EXCEPT ![r] = FinalError(err2, cap2)]
        /\ at' = at
    BY <1>9, Zenon DEF Proceed
  <2>2. PICK m \in Nat : \A j \in Candidates(c) : j <= m
    BY CandidatesBounded
  <2>3. PICK n \in Nat : n >= i /\ \A j \in Candidates(c) : j <= n
    <3>1. m + i \in Nat /\ m + i >= i /\ \A j \in Candidates(c) : j <= m + i
      BY <1>1, <2>2
    <3>. QED
      BY <3>1
  <2>4. \A j \in Candidates(c) : j \in Passed(c, i, cd) <=> (j > i /\ j <= n)
    BY <1>9, <2>3, ScanEnds
  <2>5. Books(c, g, n, err2, cap2)
    BY <2>3, <2>4, ScanBooks
  <2>6. \A j \in Candidates(c) : g[j] \in ErrorKinds \cup {"unable"}
    BY <2>3, <2>5 DEF Books
  <2>7. /\ pc'[r] = "done" /\ fate'[r] = g /\ answer'[r] = FinalError(err2, cap2)
    BY <1>5, <2>1 DEF TypeOK
  <2>8. RequestOK(r)'
    <3>. DEFINE told == {j \in Candidates(c) :
                            /\ g[j] \in ErrorKinds
                            /\ ~(IsEmbedding(c) /\ g[j] = "cooling")}
    <3>1. Told(r)' = told
      <4>1. Told(r)' = {j \in Candidates(c) :
                           /\ g[j] # "unable"
                           /\ ~(IsEmbedding(c) /\ g[j] = "cooling")}
        BY <2>7 DEF Told
      <4>2. "unable" \notin ErrorKinds
        BY DEF ErrorKinds, FailureKinds
      <4>. QED
        BY <2>6, <4>1, <4>2
    <3>2. \A j \in told : (\A k \in told : k <= j) => FinalError(err2, cap2) = g[j]
      <4>1. "none" \notin ErrorKinds
        BY DEF ErrorKinds, FailureKinds
      <4>2. \A j \in told : (\A k \in told : k <= j) => err2 = g[j]
        BY <2>5 DEF Books
      <4>. QED
        BY <4>1, <4>2 DEF FinalError
    <3>3. told = {} =>
             FinalError(err2, cap2) = IF \E j \in Candidates(c) : g[j] = "unable"
                                      THEN "unsupported" ELSE "unavailable"
      BY <2>5 DEF Books, FinalError
    <3>4. ~Active(r)'
      BY <2>7 DEF Active
    <3>. QED
      BY <1>4, <1>7, <2>6, <2>7, <3>1, <3>2, <3>3, <3>4 DEF RequestOK
  <2>. QED
    BY <1>2, <1>3, <1>4, <1>5, <1>6, <2>1, <2>8 DEF TypeOK, MovesOn, Answers
<1>. QED
  BY <1>8, <1>9

\* A failed candidate is entered in the books before the scan goes on.
LEMMA FailCandidateOK ==
    ASSUME IInv, NEW r \in Requests, NEW kind \in {"empty"} \cup FailureKinds,
           pc[r] = "calling", FailCandidate(r, kind)
    PROVE  IInv'
<1>. DEFINE c  == call[r]
            i  == at[r]
            f  == [fate[r] EXCEPT ![i] = kind]
            cd == StartCooldown(cooldown, KeyOf(c, i), kind)
<1>1. TypeOK /\ RequestOK(r)
  BY DEF IInv
<1>2. /\ c \in Calls /\ Active(r) /\ answer[r] = "none"
  BY <1>1, Zenon DEF RequestOK, TypeOK, Active
<1>3. /\ i \in Candidates(c) /\ i \in Nat /\ i \in Positions
      /\ \A j \in Candidates(c) : j \in Nat /\ j \in Positions
      /\ KeyOf(c, i) \in Keys
  BY <1>1, <1>2, CandidatesType DEF RequestOK
<1>4. /\ \E err \in ErrorKinds \cup {"none"} :
            Books(c, fate[r], i - 1, err, capError[r])
      /\ \A j \in Candidates(c) : j > i => fate[r][j] = "untried"
      /\ fate[r][i] \in {"untried", "served"}
  BY <1>1, <1>2, <1>3 DEF RequestOK
<1>5. kind \in ErrorKinds \ {"cooling"} /\ kind \in Fates
  BY DEF ErrorKinds, FailureKinds, Fates
<1>6. fate[r] \in [Positions -> Fates] /\ f \in [Positions -> Fates]
  BY <1>1, <1>5 DEF TypeOK
<1>7. /\ f[i] = kind
      /\ \A j \in Candidates(c) : j # i => f[j] = fate[r][j]
  BY <1>3, <1>6
<1>8. Books(c, f, i, kind, capError[r])
  <2>. DEFINE told == {j \in Candidates(c) :
                          /\ f[j] \in ErrorKinds
                          /\ ~(IsEmbedding(c) /\ f[j] = "cooling")}
  <2>1. \A j \in Candidates(c) :
           IF j <= i THEN f[j] \in ErrorKinds \cup {"unable"}
           ELSE f[j] \in {"untried", "served"}
    BY <1>3, <1>4, <1>5, <1>7 DEF Books
  <2>2. capError[r] <=> \E j \in Candidates(c) : f[j] = "unable"
    <3>1. capError[r] <=> \E j \in Candidates(c) : fate[r][j] = "unable"
      BY <1>4 DEF Books
    <3>2. "unable" \notin ErrorKinds
      BY DEF ErrorKinds, FailureKinds
    <3>. QED
      BY <1>3, <1>4, <1>5, <1>7, <3>1, <3>2
  <2>3. i \in told
    BY <1>3, <1>5, <1>7
  <2>4. ASSUME NEW j \in told, \A k \in told : k <= j
        PROVE  kind = f[j]
    <3>1. j \in Candidates(c) /\ i <= j /\ f[j] \in ErrorKinds
      BY <2>3, <2>4
    <3>2. "untried" \notin ErrorKinds
      BY DEF ErrorKinds, FailureKinds
    <3>. QED
      BY <1>3, <1>4, <1>7, <3>1, <3>2
  <2>. QED
    BY <2>1, <2>2, <2>3, <2>4 DEF Books
<1>9. \A j \in Candidates(c) : j > i => f[j] = "untried"
  BY <1>3, <1>4, <1>7
<1>10. /\ Proceed(r, c, i, cd, kind, capError[r], f)
       /\ cooldown' = cd /\ call' = call /\ wait' = wait
  BY Zenon DEF FailCandidate
<1>11. capError[r] \in BOOLEAN /\ kind \in ErrorKinds \cup {"none"} /\ call'[r] = c
  BY <1>1, <1>5, <1>10 DEF TypeOK
<1>12. MovesOn(r)
  <2>. HIDE DEF c, i, f, cd
  <2>. QED
    BY <1>1, <1>2, <1>3, <1>6, <1>8, <1>9, <1>10, <1>11, ProceedOK
<1>13. TypeOK'
  <2>1. cooldown' \in [Keys -> Nat]
    BY <1>1, <1>3, <1>10, StartCooldownType DEF TypeOK
  <2>. QED
    BY <1>1, <1>10, <1>12, <2>1 DEF TypeOK, MovesOn
<1>14. \A q \in Requests \ {r} : RequestOK(q)'
  BY <1>10, <1>12, Frame DEF IInv, MovesOn
<1>. QED
  BY <1>12, <1>13, <1>14 DEF IInv, MovesOn

\* A request that arrives finds its chain untouched and the books empty.
LEMMA ArriveOK ==
    ASSUME IInv, NEW r \in Requests, NEW c \in Calls, Arrive(r, c)
    PROVE  IInv'
<1>1. TypeOK /\ RequestOK(r)
  BY DEF IInv
<1>2. /\ pc[r] = "idle" /\ call' = [call EXCEPT ![r] = c]
      /\ Proceed(r, c, 0, cooldown, "none", FALSE, fate[r])
      /\ cooldown' = cooldown /\ wait' = wait
  BY DEF Arrive
<1>3. fate[r] = [j \in Positions |-> "untried"] /\ answer[r] = "none"
  BY <1>1, <1>2 DEF RequestOK
<1>4. /\ Candidates(c) \subseteq Positions
      /\ \A j \in Candidates(c) : j \in Nat /\ j > 0 /\ fate[r][j] = "untried"
  BY <1>3, CandidatesType
<1>5. fate[r] \in [Positions -> Fates] /\ call'[r] = c /\ 0 \in Nat
  BY <1>1, <1>2 DEF TypeOK
<1>6. Books(c, fate[r], 0, "none", FALSE)
  BY <1>4 DEF Books, ErrorKinds, FailureKinds
<1>7. MovesOn(r)
  BY <1>1, <1>2, <1>3, <1>4, <1>5, <1>6, ProceedOK
<1>8. TypeOK'
  BY <1>1, <1>2, <1>7 DEF TypeOK, MovesOn
<1>9. \A q \in Requests \ {r} : RequestOK(q)'
  <2>1. \A q \in Requests \ {r} : call'[q] = call[q]
    BY <1>1, <1>2 DEF TypeOK
  <2>. QED
    BY <1>7, <2>1, Frame DEF IInv, MovesOn
<1>. QED
  BY <1>7, <1>8, <1>9 DEF IInv, MovesOn

\* A candidate that serves is not an error: the books do not change.
LEMMA BooksServed ==
    ASSUME NEW c \in Calls, NEW f \in [Positions -> Fates], NEW i \in Candidates(c),
           NEW err, NEW cap \in BOOLEAN, f[i] = "untried", Books(c, f, i - 1, err, cap)
    PROVE  Books(c, [f EXCEPT ![i] = "served"], i - 1, err, cap)
<1>. DEFINE g == [f EXCEPT ![i] = "served"]
            told(h) == {j \in Candidates(c) :
                          /\ h[j] \in ErrorKinds
                          /\ ~(IsEmbedding(c) /\ h[j] = "cooling")}
<1>1. Candidates(c) \subseteq Positions /\ Candidates(c) \subseteq Nat
  BY CandidatesType
<1>2. \A j \in Candidates(c) : j # i => g[j] = f[j]
  BY <1>1
<1>3. g[i] = "served"
  BY <1>1
<1>4. {"served", "untried", "unable"} \cap ErrorKinds = {}
  BY DEF ErrorKinds, FailureKinds
<1>5. told(g) = told(f)
  BY <1>2, <1>3, <1>4
<1>6. \A j \in told(f) : g[j] = f[j]
  BY <1>2, <1>4
<1>7. (\E j \in Candidates(c) : g[j] = "unable") <=> \E j \in Candidates(c) : f[j] = "unable"
  BY <1>2, <1>3
<1>8. \A j \in Candidates(c) : IF j <= i - 1 THEN g[j] \in ErrorKinds \cup {"unable"}
                               ELSE g[j] \in {"untried", "served"}
  BY <1>1, <1>2, <1>3 DEF Books
<1>. QED
  BY <1>5, <1>6, <1>7, <1>8 DEF Books

\* A request that leaves the chain with an answer of its own has no chain
\* error to account for.
LEMMA DoneOK ==
    ASSUME TypeOK, NEW r \in Requests, RequestOK(r), pc[r] # "idle",
           pc'[r] = "done", call'[r] = call[r],
           answer'[r] \in {"served", "broken", "escaped", "cancelled"}
    PROVE  RequestOK(r)'
<1>1. answer'[r] \notin ChainErrors
  BY DEF ChainErrors, ErrorKinds, FailureKinds
<1>2. ~Active(r)'
  BY DEF Active
<1>3. call[r] # NoCall
  BY DEF RequestOK
<1>. QED
  BY <1>1, <1>2, <1>3 DEF RequestOK

\* Every answer but a chain error.
LEMMA SettleOK ==
    ASSUME IInv, NEW r \in Requests, Active(r), NEW to, NEW result, NEW what,
           Settle(r, to, result, what),
           \/ /\ to = "done" /\ result \in {"served", "broken", "escaped"}
              /\ what \in {"served", "escaped"}
           \/ /\ to = "streaming" /\ result = "none" /\ what = "served"
              /\ pc[r] = "calling"
    PROVE  IInv'
<1>1. TypeOK /\ RequestOK(r) /\ pc[r] # "idle"
  BY DEF IInv, Active
<1>2. /\ pc' = [pc EXCEPT ![r] = to]
      /\ answer' = [answer EXCEPT ![r] = result]
      /\ fate' = [fate EXCEPT ![r] = [fate[r] EXCEPT ![at[r]] = what]]
      /\ UNCHANGED <<cooldown, call, at, attempt, wait, lastError, capError>>
  BY DEF Settle
<1>3. TypeOK'
  <2>1. result \in Answers /\ what \in Fates
    BY DEF Answers, Fates
  <2>2. to \in {"idle", "calling", "waiting", "streaming", "done"}
    OBVIOUS
  <2>3. [fate[r] EXCEPT ![at[r]] = what] \in [Positions -> Fates]
    BY <1>1, <2>1 DEF TypeOK
  <2>. QED
    BY <1>1, <1>2, <2>1, <2>2, <2>3 DEF TypeOK
<1>4. \A q \in Requests \ {r} : RequestOK(q)'
  <2>1. \A q \in Requests \ {r} : /\ pc'[q] = pc[q] /\ answer'[q] = answer[q]
                                  /\ fate'[q] = fate[q]
    BY <1>1, <1>2 DEF TypeOK
  <2>. QED
    BY <1>2, <2>1, Frame DEF IInv
<1>5. pc'[r] = to /\ answer'[r] = result /\ fate'[r] = [fate[r] EXCEPT ![at[r]] = what]
  BY <1>1, <1>2 DEF TypeOK
<1>6. CASE to = "done"
  BY <1>1, <1>2, <1>3, <1>4, <1>5, <1>6, DoneOK DEF IInv
<1>7. CASE to = "streaming"
  <2>. DEFINE c == call[r]
              i == at[r]
              f == fate[r]
  <2>1. c \in Calls /\ f \in [Positions -> Fates]
    BY <1>1, Zenon DEF RequestOK, TypeOK
  <2>2. /\ i \in Candidates(c) /\ i \in Positions /\ i \in Nat
        /\ \A j \in Candidates(c) : j \in Positions /\ j \in Nat
    BY <1>1, <2>1, CandidatesType DEF RequestOK
  <2>3. f[i] = "untried"
    BY <1>1, <1>7, <2>2 DEF RequestOK
  <2>3a. PICK err \in ErrorKinds \cup {"none"} :
            Books(c, f, i - 1, err, capError[r]) /\ Noted(r, err)
    BY <1>1 DEF RequestOK
  <2>4. fate'[r] = [f EXCEPT ![i] = "served"]
    BY <1>5, <1>7
  <2>5. Books(c, fate'[r], i - 1, err, capError[r])
    <3>1. capError[r] \in BOOLEAN
      BY <1>1 DEF TypeOK
    <3>. HIDE DEF c, i, f
    <3>2. Books(c, [f EXCEPT ![i] = "served"], i - 1, err, capError[r])
      BY <2>1, <2>2, <2>3, <2>3a, <3>1, BooksServed
    <3>. QED
      BY <2>4, <3>2
  <2>6. /\ fate'[r][i] = "served"
        /\ \A j \in Candidates(c) : j # i => fate'[r][j] = f[j]
    BY <2>1, <2>2, <2>4
  <2>7. /\ pc'[r] = "streaming" /\ answer'[r] = "none" /\ call'[r] = c /\ at'[r] = i
        /\ lastError'[r] = lastError[r] /\ capError'[r] = capError[r]
        /\ attempt'[r] = attempt[r]
    BY <1>2, <1>5, <1>7
  <2>8. "none" \notin ChainErrors
    BY DEF ChainErrors, ErrorKinds, FailureKinds
  <2>9. Noted(r, err)'
    BY <1>7, <2>3a, <2>7 DEF Noted, Retrying
  <2>10. RequestOK(r)'
    BY <1>1, <2>2, <2>5, <2>6, <2>7, <2>8, <2>9 DEF RequestOK, Active
  <2>. QED
    BY <1>3, <1>4, <2>10 DEF IInv
<1>. QED
  BY <1>6, <1>7

\* A retry and the end of its sleep: only pc, wait, attempt and, for a stream,
\* last_error move.
LEMMA RetryOK ==
    ASSUME IInv, NEW r \in Requests,
           \/ \E kind \in FailureKinds : Retry(r, kind)
           \/ Resume(r)
    PROVE  IInv'
<1>1. TypeOK /\ RequestOK(r)
  BY DEF IInv
<1>2. /\ pc' \in [Requests -> {"idle", "calling", "waiting", "streaming", "done"}]
      /\ wait' \in [Requests -> Nat] /\ attempt' \in [Requests -> 0..MaxRetries]
      /\ {pc[r], pc'[r]} = {"calling", "waiting"}
      /\ pc'[r] = "waiting" => attempt'[r] < MaxRetries
      /\ \A q \in Requests \ {r} : /\ pc'[q] = pc[q] /\ attempt'[q] = attempt[q]
                                  /\ lastError'[q] = lastError[q]
      /\ lastError' \in [Requests -> ErrorKinds \cup {"none"}]
      /\ \A err : Noted(r, err) => Noted(r, err)'
  <2>1. CASE \E kind \in FailureKinds : Retry(r, kind)
    <3>. PICK kind \in FailureKinds : Retry(r, kind)
      BY <2>1
    <3>1. /\ pc[r] = "calling" /\ attempt' = attempt /\ attempt[r] < MaxRetries
          /\ pc' = [pc EXCEPT ![r] = "waiting"]
          /\ wait' = [wait EXCEPT ![r] = Backoff(attempt[r])]
          /\ lastError' = [lastError EXCEPT ![r] = IF call[r].stream THEN kind ELSE @]
          /\ kind \in Retryable /\ call' = call
      BY DEF Retry
    <3>2. Backoff(attempt[r]) \in Nat
      BY <1>1, BackoffType, TimesAssumption DEF TypeOK
    <3>3. /\ pc'[r] = "waiting"
          /\ lastError'[r] = IF call[r].stream THEN kind ELSE lastError[r]
          /\ \A q \in Requests \ {r} : lastError'[q] = lastError[q]
      BY <1>1, <3>1 DEF TypeOK
    <3>4. \A err : Noted(r, err) => Noted(r, err)'
      BY <3>1, <3>3 DEF Noted, Retrying
    <3>5. lastError' \in [Requests -> ErrorKinds \cup {"none"}]
      BY <1>1, <3>1 DEF TypeOK, ErrorKinds
    <3>. QED
      BY <1>1, <3>1, <3>2, <3>3, <3>4, <3>5 DEF TypeOK
  <2>2. CASE Resume(r)
    <3>1. /\ pc[r] = "waiting" /\ wait' = wait
          /\ pc' = [pc EXCEPT ![r] = "calling"]
          /\ attempt' = [attempt EXCEPT ![r] = @ + 1]
          /\ lastError' = lastError /\ call' = call
      BY <2>2 DEF Resume
    <3>2. attempt[r] \in Nat /\ attempt[r] + 1 \in 0..MaxRetries
      BY <1>1, <3>1, TimesAssumption DEF TypeOK, RequestOK
    <3>3. attempt'[r] = attempt[r] + 1
      BY <1>1, <3>1 DEF TypeOK
    <3>4. \A err : Noted(r, err) => Noted(r, err)'
      BY <3>1, <3>2, <3>3 DEF Noted, Retrying
    <3>. QED
      BY <1>1, <3>1, <3>2, <3>4 DEF TypeOK
  <2>. QED
    BY <2>1, <2>2
<1>3. /\ UNCHANGED <<cooldown, call, at, capError, answer, fate>>
  BY DEF Retry, Resume
<1>4. TypeOK'
  BY <1>1, <1>2, <1>3 DEF TypeOK
<1>5. \A q \in Requests \ {r} : RequestOK(q)'
  BY <1>2, <1>3, Frame DEF IInv
<1>6. RequestOK(r)'
  BY <1>1, <1>2, <1>3 DEF RequestOK, Active, Told
<1>. QED
  BY <1>4, <1>5, <1>6 DEF IInv

\* A cancelled request is done, with nothing to report.
LEMMA CancelOK ==
    ASSUME IInv, NEW r \in Requests, Cancel(r)
    PROVE  IInv'
<1>1. TypeOK /\ RequestOK(r)
  BY DEF IInv
<1>2. /\ pc[r] # "idle"
      /\ wait' = [wait EXCEPT ![r] = 0]
      /\ pc' = [pc EXCEPT ![r] = "done"]
      /\ answer' = [answer EXCEPT ![r] = "cancelled"]
      /\ fate' = [fate EXCEPT ![r] = [fate[r] EXCEPT ![at[r]] = "cancelled"]]
      /\ UNCHANGED <<cooldown, call, at, attempt, lastError, capError>>
  BY DEF Cancel
<1>3. TypeOK'
  <2>1. "cancelled" \in Answers /\ "cancelled" \in Fates
    BY DEF Answers, Fates
  <2>2. [fate[r] EXCEPT ![at[r]] = "cancelled"] \in [Positions -> Fates]
    BY <1>1, <2>1 DEF TypeOK
  <2>. QED
    BY <1>1, <1>2, <2>1, <2>2 DEF TypeOK
<1>4. \A q \in Requests \ {r} : RequestOK(q)'
  <2>1. \A q \in Requests \ {r} : /\ pc'[q] = pc[q] /\ answer'[q] = answer[q]
                                  /\ fate'[q] = fate[q]
    BY <1>1, <1>2 DEF TypeOK
  <2>. QED
    BY <1>2, <2>1, Frame DEF IInv
<1>5. RequestOK(r)'
  <2>1. pc'[r] = "done" /\ answer'[r] = "cancelled"
    BY <1>1, <1>2 DEF TypeOK
  <2>. QED
    BY <1>1, <1>2, <2>1, DoneOK
<1>. QED
  BY <1>3, <1>4, <1>5 DEF IInv

\* A slot that is left is as good as new.
LEMMA LeaveOK ==
    ASSUME IInv, NEW r \in Requests, Leave(r)
    PROVE  IInv'
<1>1. TypeOK
  BY DEF IInv
<1>2. /\ pc' = [pc EXCEPT ![r] = "idle"]
      /\ call' = [call EXCEPT ![r] = NoCall]
      /\ at' = [at EXCEPT ![r] = 0]
      /\ attempt' = [attempt EXCEPT ![r] = 0]
      /\ lastError' = [lastError EXCEPT ![r] = "none"]
      /\ capError' = [capError EXCEPT ![r] = FALSE]
      /\ answer' = [answer EXCEPT ![r] = "none"]
      /\ fate' = [fate EXCEPT ![r] = [j \in Positions |-> "untried"]]
      /\ UNCHANGED <<cooldown, wait>>
  BY DEF Leave
<1>3. TypeOK'
  <2>1. "none" \in Answers /\ "untried" \in Fates /\ 0 \in 0..MaxRetries
    BY TimesAssumption DEF Answers, Fates
  <2>. QED
    BY <1>1, <1>2, <2>1 DEF TypeOK
<1>4. \A q \in Requests \ {r} : RequestOK(q)'
  <2>1. \A q \in Requests \ {r} :
           /\ pc'[q] = pc[q] /\ call'[q] = call[q] /\ at'[q] = at[q]
           /\ attempt'[q] = attempt[q] /\ lastError'[q] = lastError[q]
           /\ capError'[q] = capError[q] /\ answer'[q] = answer[q] /\ fate'[q] = fate[q]
    BY <1>1, <1>2 DEF TypeOK
  <2>. QED
    BY <2>1, Frame DEF IInv
<1>5. RequestOK(r)'
  <2>1. /\ pc'[r] = "idle" /\ call'[r] = NoCall /\ answer'[r] = "none"
        /\ fate'[r] = [j \in Positions |-> "untried"]
    BY <1>1, <1>2 DEF TypeOK
  <2>2. "none" \notin ChainErrors
    BY DEF ChainErrors, ErrorKinds, FailureKinds
  <2>. QED
    BY <2>1, <2>2 DEF RequestOK, Active
<1>. QED
  BY <1>3, <1>4, <1>5 DEF IInv

\* The passing of time touches no request but for its sleep.
LEMMA TickOK ==
    ASSUME IInv, Tick
    PROVE  IInv'
<1>1. TypeOK'
  <2>1. \A t \in Nat : Before(t) \in Nat
    BY DEF Before
  <2>. QED
    BY <2>1 DEF IInv, TypeOK, Tick
<1>2. \A q \in Requests : RequestOK(q)'
  BY Frame DEF IInv, Tick
<1>. QED
  BY <1>1, <1>2 DEF IInv

\* Every slot is idle at the start.
LEMMA InitOK == Init => IInv
<1>. SUFFICES ASSUME Init PROVE IInv
  OBVIOUS
<1>1. TypeOK
  <2>1. "none" \in Answers /\ "untried" \in Fates /\ 0 \in 0..MaxRetries
    BY TimesAssumption DEF Answers, Fates
  <2>. QED
    BY <2>1 DEF Init, TypeOK
<1>2. "none" \notin ChainErrors
  BY DEF ChainErrors, ErrorKinds, FailureKinds
<1>. QED
  BY <1>1, <1>2 DEF IInv, RequestOK, Init, Active

\* Every step of the registry preserves the inductive invariant: one case per action.
LEMMA StepOK == IInv /\ [Next]_vars => IInv'
<1>. SUFFICES ASSUME IInv, [Next]_vars PROVE IInv'
  OBVIOUS
<1>1. ASSUME NEW r \in Requests, NEW c \in Calls, Arrive(r, c)
      PROVE  IInv'
  BY <1>1, ArriveOK
<1>2. ASSUME NEW r \in Requests, Reply(r)
      PROVE  IInv'
  <2>1. CASE Serve(r)
    BY <2>1, SettleOK DEF Serve, Active
  <2>2. CASE EmptyContent(r)
    BY <2>2, FailCandidateOK DEF EmptyContent
  <2>3. ASSUME NEW kind \in FailureKinds, Retry(r, kind)
        PROVE  IInv'
    BY <2>3, RetryOK
  <2>4. ASSUME NEW kind \in FailureKinds, GiveUp(r, kind)
        PROVE  IInv'
    BY <2>4, FailCandidateOK DEF GiveUp
  <2>5. CASE Escape(r)
    BY <2>5, SettleOK DEF Escape, Active
  <2>. QED
    BY <1>2, <2>1, <2>2, <2>3, <2>4, <2>5 DEF Reply
<1>3. ASSUME NEW r \in Requests, Resume(r)
      PROVE  IInv'
  BY <1>3, RetryOK
<1>4. ASSUME NEW r \in Requests, StreamOver(r)
      PROVE  IInv'
  <2>1. PICK result \in {"served", "broken"} : Settle(r, "done", result, "served")
    BY <1>4 DEF StreamOver
  <2>. QED
    BY <1>4, <2>1, SettleOK DEF StreamOver, Active
<1>5. ASSUME NEW r \in Requests, Cancel(r)
      PROVE  IInv'
  BY <1>5, CancelOK
<1>6. ASSUME NEW r \in Requests, Leave(r)
      PROVE  IInv'
  BY <1>6, LeaveOK
<1>7. CASE Tick
  BY <1>7, TickOK
<1>8. CASE UNCHANGED vars
  <2>1. TypeOK'
    BY <1>8 DEF IInv, TypeOK, vars
  <2>2. \A q \in Requests : RequestOK(q)'
    BY <1>8, Frame DEF IInv, vars
  <2>. QED
    BY <2>1, <2>2 DEF IInv
<1>. QED
  BY <1>1, <1>2, <1>3, <1>4, <1>5, <1>6, <1>7, <1>8 DEF Next

-----------------------------------------------------------------------------
(* Theorems *)

\* The inductive invariant holds in every state of the registry.
THEOREM Inductive == Spec => []IInv
<1>. QED
  BY InitOK, StepOK, PTL DEF Spec

\* The tables of the registry and the locals of its loops stay well formed.
THEOREM TypeCorrect == Spec => []TypeOK
<1>1. IInv => TypeOK
  BY DEF IInv
<1>. QED
  BY <1>1, Inductive, PTL

\* The chain is walked in order, each candidate once, whatever other requests
\* do to the cooldowns in the meantime.
THEOREM ChainInOrder == Spec => []ChainOrder
  BY IInvImplies, Inductive, PTL

\* last_error and capability_error sum up the candidates before the current
\* one; of a stream that retries, last_error is the current candidate's.
THEOREM BooksKept == Spec => []Bookkeeping
  BY IInvImplies, Inductive, PTL

\* A request given up has been through its whole chain and reports the fate
\* of the last candidate that could have served it.
THEOREM FailureReported == Spec => []FailureReport
  BY IInvImplies, Inductive, PTL
=============================================================================
