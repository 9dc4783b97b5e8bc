--------------------------- MODULE MeteringProofs ---------------------------
(***************************************************************************)
(* Proofs about Metering, for any processes, keys, limits, costs and       *)
(* requests in flight.                                                     *)
(***************************************************************************)
EXTENDS Metering, FiniteSetTheorems, TLAPS

-----------------------------------------------------------------------------
(* Numbers and sets *)

\* A finite set of numbers that is not empty has a largest.
LEMMA LargestExists ==
    ASSUME NEW S \in SUBSET Nat, IsFiniteSet(S), S # {}
    PROVE  \E x \in S : \A y \in S : y <= x
<1> DEFINE Unbounded == {F \in FiniteSubsetsOf(Nat) : F # {} /\ ~\E x \in F : \A y \in F : y <= x}
<1>1. SUFFICES ASSUME Unbounded # {} PROVE FALSE
  BY DEF FiniteSubsetsOf
<1>2. PICK F \in Unbounded : \A G \in Unbounded : ~(<<G, F>> \in StrictSubsetOrdering(Nat))
  <2>1. Unbounded \subseteq FiniteSubsetsOf(Nat)
    OBVIOUS
  <2> HIDE DEF Unbounded
  <2> QED
    BY <1>1, <2>1, FS_StrictSubsetOrderingWellFounded, WFMin
<1>3. F \in SUBSET Nat /\ IsFiniteSet(F) /\ F # {}
  BY <1>2 DEF FiniteSubsetsOf
<1>4. PICK x \in F : TRUE
  BY <1>3
<1>5. F \ {x} \in FiniteSubsetsOf(Nat)
  BY <1>3, FS_RemoveElement DEF FiniteSubsetsOf
<1>6. <<F \ {x}, F>> \in StrictSubsetOrdering(Nat)
  BY <1>3, <1>4 DEF StrictSubsetOrdering
<1>7. F \ {x} = {} \/ \E z \in F \ {x} : \A y \in F \ {x} : y <= z
  BY <1>2, <1>5, <1>6
<1>8. CASE F \ {x} = {}
  <2>1. \A y \in F : y <= x
    BY <1>3, <1>4, <1>8
  <2> QED
    BY <2>1, <1>2
<1>9. ASSUME NEW z \in F \ {x}, \A y \in F \ {x} : y <= z PROVE FALSE
  <2>1. CASE x <= z
    <3>1. \A y \in F : y <= z
      BY <1>3, <1>9, <2>1
    <3> QED
      BY <3>1, <1>2
  <2>2. CASE z <= x
    <3>1. \A y \in F : y <= x
      BY <1>3, <1>4, <1>9, <2>2
    <3> QED
      BY <3>1, <1>2
  <2> QED
    BY <2>1, <2>2, <1>3, <1>4
<1> QED
  BY <1>7, <1>8, <1>9

\* Most is a bound.
LEMMA MostBounds ==
    ASSUME NEW S \in SUBSET Nat, IsFiniteSet(S)
    PROVE  Most(S) \in Nat /\ \A x \in S : x <= Most(S)
<1>1. CASE S = {}
  BY <1>1 DEF Most
<1>2. CASE S # {}
  BY <1>2, LargestExists DEF Most
<1> QED
  BY <1>1, <1>2

\* A day within the bound is in one of the months.
LEMMA MonthInMonths == ASSUME NEW d \in 0..LastDay PROVE Month(d) \in Months
<1> DEFINE D == DaysPerMonth
<1>1. D \in Nat \ {0} /\ LastDay \in Nat /\ d \in Nat /\ d <= LastDay
  BY MeteringAssumption
<1> HIDE DEF D
<1>2. d \div D \in Nat /\ LastDay \div D \in Nat /\ d \div D <= LastDay \div D
  BY <1>1
<1> QED
  BY <1>2 DEF Month, Months, D

-----------------------------------------------------------------------------
(* Type correctness *)

Configs == ConfigType \cup {NoConfig}

Types ==
    /\ config \in [Keys -> Configs]
    /\ today \in [Keys -> Nat]
    /\ monthly \in [Keys -> [Months -> Nat]]
    /\ cache \in [Procs -> [Keys -> Configs]]
    /\ negative \in [Procs -> [Keys -> 0..TTL]]
    /\ static \in [Procs -> SUBSET Keys]
    /\ request \in [Requests -> RequestType \cup {NoRequest}]
    /\ day \in 0..LastDay
    /\ faults \in 0..MostFaults
    /\ spent \in [Keys -> [Months -> Nat]]
    /\ waived \in [Keys -> Nat]
    /\ foreign \in [Procs -> [Keys -> BOOLEAN]]
    /\ known \in [Keys -> 0..TTL]

\* r is between its two increments.
Half(r) == request[r] # NoRequest /\ request[r].half # << >>

\* A process has one request there at most.
OneHalf ==
    \A r, s \in Requests : Half(r) /\ Half(s) /\ request[r].proc = request[s].proc => r = s

LEMMA TypeParts == TypeOK <=> Types /\ OneHalf
BY DEF TypeOK, Types, OneHalf, Half, Configs

\* A config that is made is one.
LEMMA KeyConfigTyped ==
    ASSUME NEW d \in Nat, NEW m \in Nat, NEW a \in BOOLEAN
    PROVE  KeyConfig(d, m, a) \in ConfigType /\ KeyConfig(d, m, a) # NoConfig
<1>1. KeyConfig(d, m, a) \in ConfigType
  BY MeteringAssumption DEF KeyConfig, ConfigType
<1> QED
  BY <1>1, MeteringAssumption

\* What a lookup returns, and remembers, is a config or none.
LEMMA LookupTyped ==
    ASSUME Types, NEW p \in Procs, NEW k \in Keys
    PROVE  /\ Lookup(p, k) \in Configs
           /\ RememberLookup(p, k) =>
                 /\ cache' \in [Procs -> [Keys -> Configs]]
                 /\ negative' \in [Procs -> [Keys -> 0..TTL]]
                 /\ foreign' \in [Procs -> [Keys -> BOOLEAN]]
<1>1. Lookup(p, k) \in Configs
  BY DEF Types, Lookup
<1> HIDE DEF Configs
<1>2. ASSUME RememberLookup(p, k) PROVE cache' \in [Procs -> [Keys -> Configs]]
  BY <1>1, <1>2 DEF RememberLookup, Types
<1>3. ASSUME RememberLookup(p, k) PROVE negative' \in [Procs -> [Keys -> 0..TTL]]
  BY <1>3, MeteringAssumption DEF RememberLookup, Types
<1>4. ASSUME RememberLookup(p, k) PROVE foreign' \in [Procs -> [Keys -> BOOLEAN]]
  BY <1>4 DEF RememberLookup, Types
<1> QED
  BY <1>1, <1>2, <1>3, <1>4

LEMMA InitTypes == Init => Types
BY MeteringAssumption, MonthInMonths DEF Init, Types, Configs, Months, Month

LEMMA AdmitTypes ==
    ASSUME Types, NEW r \in Requests, NEW p \in Procs, NEW k \in Keys, NEW kind \in Kinds,
           Admit(r, p, k, kind)
    PROVE  Types'
<1>1. CheckOf(p, k, kind) \in Checks
  BY DEF CheckOf, Checks
<1>2. [proc |-> p, key |-> k, check |-> CheckOf(p, k, kind), half |-> << >>] \in RequestType
  BY <1>1 DEF RequestType
<1>3. request' \in [Requests -> RequestType \cup {NoRequest}]
  BY <1>2 DEF Admit, Types
<1>4. /\ cache' \in [Procs -> [Keys -> Configs]]
      /\ negative' \in [Procs -> [Keys -> 0..TTL]]
      /\ foreign' \in [Procs -> [Keys -> BOOLEAN]]
  BY LookupTyped DEF Admit, Lookups, Types
<1> QED
  BY <1>3, <1>4 DEF Admit, Types, storeVars

LEMMA RefuseTypes ==
    ASSUME Types, NEW p \in Procs, NEW k \in Keys, NEW kind \in Kinds, Refuse(p, k, kind)
    PROVE  Types'
<1>1. /\ cache' \in [Procs -> [Keys -> Configs]]
      /\ negative' \in [Procs -> [Keys -> 0..TTL]]
      /\ foreign' \in [Procs -> [Keys -> BOOLEAN]]
  BY LookupTyped DEF Refuse, Lookups, Types
<1> QED
  BY <1>1 DEF Refuse, Types, storeVars

LEMMA EndUnrecordedTypes ==
    ASSUME Types, NEW r \in Requests, EndUnrecorded(r)
    PROVE  Types'
BY DEF Types, EndUnrecorded, storeVars, procVars, historyVars

\* What r is, when there is a request in its slot.
LEMMA RequestTyped ==
    ASSUME Types, NEW r \in Requests, request[r] # NoRequest
    PROVE  /\ request[r] \in RequestType
           /\ request[r].proc \in Procs /\ request[r].key \in Keys
           /\ request[r].check \in Checks
           /\ request[r].half # << >> =>
                 request[r].half[1] \in Months /\ request[r].half[2] \in Costs
           /\ \A m \in Months, c \in Costs :
                 [request[r] EXCEPT !.half = <<m, c>>] \in RequestType
BY DEF Types, RequestType

\* A charge to the day keeps its counters numbers.
LEMMA DayChargedTypes ==
    ASSUME Types, NEW k \in Keys, NEW check \in Checks, NEW cost \in Costs,
           DayCharged(k, check, cost)
    PROVE  /\ today' \in [Keys -> Nat] /\ waived' \in [Keys -> Nat]
           /\ spent' \in [Keys -> [Months -> Nat]]
<1> DEFINE m == Month(day)
<1>1. m \in Months /\ cost \in Nat
  BY MonthInMonths, MeteringAssumption DEF Types
<1> HIDE DEF m
<1>5. today' \in [Keys -> Nat]
  <2>1. today' = [today EXCEPT ![k] = @ + cost]
    BY DEF DayCharged
  <2>2. today[k] + cost \in Nat
    BY <1>1 DEF Types
  <2> QED
    BY <2>1, <2>2 DEF Types
<1>6. waived' \in [Keys -> Nat]
  <2>1. waived' = waived \/ waived' = [waived EXCEPT ![k] = @ + cost]
    BY DEF DayCharged, Types
  <2>2. waived[k] + cost \in Nat
    BY <1>1 DEF Types
  <2> QED
    BY <2>1, <2>2 DEF Types
<1>7. spent' \in [Keys -> [Months -> Nat]]
  <2>1. spent' = [spent EXCEPT ![k] = [spent[k] EXCEPT ![m] = @ + cost]]
    BY <1>1 DEF DayCharged, Types, m
  <2>2. spent[k] \in [Months -> Nat] /\ spent[k][m] + cost \in Nat
    BY <1>1 DEF Types
  <2>3. [spent[k] EXCEPT ![m] = @ + cost] \in [Months -> Nat]
    BY <2>2
  <2> QED
    BY <2>1, <2>3 DEF Types
<1> QED
  BY <1>5, <1>6, <1>7

LEMMA RecordDayTypes ==
    ASSUME Types, NEW r \in Requests, NEW cost \in Costs, RecordDay(r, cost)
    PROVE  Types'
<1>1. /\ request[r] # NoRequest /\ Month(day) \in Months
      /\ request[r].key \in Keys /\ request[r].check \in Checks
      /\ request' = [request EXCEPT ![r] = [request[r] EXCEPT !.half = <<Month(day), cost>>]]
  BY RequestTyped, MonthInMonths DEF RecordDay, Types
<1>2. request' \in [Requests -> RequestType \cup {NoRequest}]
  BY <1>1, RequestTyped DEF Types
<1> QED
  BY <1>1, <1>2, DayChargedTypes DEF RecordDay, Types, procVars

LEMMA LoseDayTypes ==
    ASSUME Types, NEW r \in Requests, NEW cost \in Costs, LoseDay(r, cost)
    PROVE  Types'
<1>1. request[r] # NoRequest /\ request[r].key \in Keys /\ request[r].check \in Checks
  BY RequestTyped DEF LoseDay
<1>2. request' \in [Requests -> RequestType \cup {NoRequest}] /\ faults' \in 0..MostFaults
  BY MeteringAssumption DEF LoseDay, Types
<1> QED
  BY <1>1, <1>2, DayChargedTypes DEF LoseDay, Types, procVars

LEMMA RecordMonthTypes ==
    ASSUME Types, NEW r \in Requests, RecordMonth(r)
    PROVE  Types'
<1> DEFINE p == request[r].proc
           k == request[r].key
           m == request[r].half[1]
           cost == request[r].half[2]
<1>1. p \in Procs /\ k \in Keys /\ m \in Months /\ cost \in Nat
  BY RequestTyped, MeteringAssumption DEF RecordMonth
<1>2. RememberLookup(p, k) /\ monthly' = [monthly EXCEPT ![k][m] = @ + cost]
  BY DEF RecordMonth
<1> HIDE DEF p, k, m, cost
<1>3. monthly' \in [Keys -> [Months -> Nat]]
  BY <1>1, <1>2 DEF Types
<1>4. request' \in [Requests -> RequestType \cup {NoRequest}]
  BY DEF Types, RecordMonth
<1> QED
  BY <1>1, <1>2, <1>3, <1>4, LookupTyped DEF RecordMonth, Types

LEMMA LoseMonthTypes ==
    ASSUME Types, NEW r \in Requests, LoseMonth(r)
    PROVE  Types'
<1> DEFINE k == request[r].key
           m == request[r].half[1]
           cost == request[r].half[2]
<1>1. k \in Keys /\ m \in Months /\ cost \in Nat
  BY RequestTyped, MeteringAssumption DEF LoseMonth
<1>2. monthly' = monthly \/ monthly' = [monthly EXCEPT ![k][m] = @ + cost]
  BY DEF LoseMonth
<1> HIDE DEF k, m, cost
<1>3. monthly' \in [Keys -> [Months -> Nat]]
  <2>1. CASE monthly' = monthly
    BY <2>1 DEF Types
  <2>2. CASE monthly' = [monthly EXCEPT ![k][m] = @ + cost]
    BY <1>1, <2>2 DEF Types
  <2> QED
    BY <1>2, <2>1, <2>2
<1>4. request' \in [Requests -> RequestType \cup {NoRequest}] /\ faults' \in 0..MostFaults
  BY MeteringAssumption DEF Types, LoseMonth
<1> QED
  BY <1>3, <1>4 DEF LoseMonth, Types, procVars, historyVars

\* Every process but p is told that k was written.
LEMMA WrittenTyped ==
    ASSUME Types, NEW p \in Procs, NEW k \in Keys, Written(p, k)
    PROVE  foreign' \in [Procs -> [Keys -> BOOLEAN]] /\ known' \in [Keys -> 0..TTL]
<1>1. foreign' \in [Procs -> [Keys -> BOOLEAN]]
  BY DEF Written, Types
<1>2. known' \in [Keys -> 0..TTL]
  BY MeteringAssumption DEF Written, Types
<1> QED
  BY <1>1, <1>2

LEMMA AdminRegisterTypes ==
    ASSUME Types, NEW p \in Procs, NEW k \in Keys, NEW d \in AdminDailies, NEW a \in BOOLEAN,
           AdminRegister(p, k, d, a)
    PROVE  Types'
<1>1. KeyConfig(d, 0, a) \in Configs
  BY KeyConfigTyped, MeteringAssumption DEF Configs
<1> HIDE DEF Configs
<1>2. config' \in [Keys -> Configs] /\ cache' \in [Procs -> [Keys -> Configs]]
  BY <1>1 DEF AdminRegister, Types
<1>3. negative' \in [Procs -> [Keys -> 0..TTL]] /\ static' \in [Procs -> SUBSET Keys]
  BY MeteringAssumption DEF AdminRegister, Types
<1> QED
  BY <1>2, <1>3, WrittenTyped DEF AdminRegister, Types

LEMMA AdminRevokeTypes ==
    ASSUME Types, NEW p \in Procs, NEW k \in Keys, AdminRevoke(p, k)
    PROVE  Types'
<1> DEFINE c == Lookup(p, k)
<1>1. cache' \in [Procs -> [Keys -> Configs]] /\ negative' \in [Procs -> [Keys -> 0..TTL]]
  BY MeteringAssumption DEF AdminRevoke, Types, Configs
<1>2. CASE c = NoConfig
  <2>1. foreign' = [foreign EXCEPT ![p][k] = @ /\ ~AsksStore(p, k)]
    BY <1>2 DEF AdminRevoke
  <2>2. foreign' \in [Procs -> [Keys -> BOOLEAN]]
    BY <2>1 DEF Types
  <2> QED
    BY <1>1, <1>2, <2>2 DEF AdminRevoke, Types
<1>3. CASE c # NoConfig
  <2>1. c \in ConfigType
    BY <1>3, LookupTyped DEF Configs
  <2>2. [c EXCEPT !.active = FALSE] \in Configs
    BY <2>1 DEF ConfigType, Configs
  <2> HIDE DEF Configs
  <2>3. config' \in [Keys -> Configs] /\ Written(p, k)
    BY <1>3, <2>2 DEF AdminRevoke, Types
  <2> QED
    BY <1>1, <2>3, WrittenTyped DEF AdminRevoke, Types
<1> QED
  BY <1>2, <1>3

LEMMA BootstrapTypes ==
    ASSUME Types, NEW k \in Keys, NEW l \in BootstrapLimits, Bootstrap(k, l)
    PROVE  Types'
<1>1. KeyConfig(l.daily, l.monthly, TRUE) \in Configs
  BY KeyConfigTyped, MeteringAssumption DEF Configs
<1> HIDE DEF Configs
<1>2. config' \in [Keys -> Configs]
  BY <1>1 DEF Bootstrap, Types
<1>4. known' \in [Keys -> 0..TTL]
  BY MeteringAssumption DEF Bootstrap, Types
<1>3. foreign' \in [Procs -> [Keys -> BOOLEAN]]
  BY DEF Bootstrap, Types
<1> QED
  BY <1>2, <1>3, <1>4 DEF Bootstrap, Types, procVars

LEMMA ClockTypes ==
    ASSUME Types, Tick \/ NextDay
    PROVE  Types'
<1>1. CASE Tick
  BY <1>1, MeteringAssumption DEF Tick, Types, Before, storeVars
<1>2. CASE NextDay
  BY <1>2, MeteringAssumption DEF NextDay, Types, procVars
<1> QED
  BY <1>1, <1>2

LEMMA CrashTypes ==
    ASSUME Types, NEW p \in Procs, Crash(p)
    PROVE  Types'
<1>1. /\ cache' \in [Procs -> [Keys -> Configs]]
      /\ negative' \in [Procs -> [Keys -> 0..TTL]]
      /\ static' \in [Procs -> SUBSET Keys]
  BY MeteringAssumption DEF Crash, Types, Configs
<1>2. foreign' \in [Procs -> [Keys -> BOOLEAN]]
  BY DEF Crash, Types
<1>3. request' \in [Requests -> RequestType \cup {NoRequest}] /\ faults' \in 0..MostFaults
  BY MeteringAssumption DEF Crash, Types
<1> QED
  BY <1>1, <1>2, <1>3 DEF Crash, Types, storeVars

LEMMA NextTypes == Types /\ [Next]_vars => Types'
<1> SUFFICES ASSUME Types, [Next]_vars PROVE Types'
  OBVIOUS
<1>1. CASE UNCHANGED vars
  BY <1>1 DEF Types, vars, storeVars, procVars, historyVars
<1>2. CASE Next
  BY <1>2, AdmitTypes, RefuseTypes, EndUnrecordedTypes, RecordDayTypes, RecordMonthTypes,
     LoseDayTypes, LoseMonthTypes,
     AdminRegisterTypes, AdminRevokeTypes, BootstrapTypes, ClockTypes, CrashTypes DEF Next
<1> QED
  BY <1>1, <1>2

\* A handler takes its first increment only when its process has none between
\* two; every other step leaves or ends what is there.
LEMMA NextOneHalf == Types /\ OneHalf /\ [Next]_vars => OneHalf'
<1> SUFFICES ASSUME Types, OneHalf, [Next]_vars PROVE OneHalf'
  OBVIOUS
<1>1. ASSUME NEW r \in Requests, NEW cost \in Costs, RecordDay(r, cost)
      PROVE  OneHalf'
  <2>1. /\ request[r] # NoRequest /\ Free(request[r].proc)
        /\ request' = [request EXCEPT ![r] = [request[r] EXCEPT !.half = <<Month(day), cost>>]]
    BY <1>1 DEF RecordDay
  <2>2. request'[r].proc = request[r].proc
    BY <2>1, RequestTyped DEF Types, RequestType
  <2>3. \A s \in Requests \ {r} : request'[s] = request[s]
    BY <2>1 DEF Types
  <2> QED
    BY <2>1, <2>2, <2>3 DEF OneHalf, Half, Free
<1>2. ASSUME \A r \in Requests : Half(r)' => request'[r] = request[r]
      PROVE  OneHalf'
  BY <1>2 DEF OneHalf, Half
<1>3. CASE UNCHANGED request
  BY <1>2, <1>3
<1>4. ASSUME NEW r \in Requests, NEW p \in Procs, NEW k \in Keys, NEW kind \in Kinds,
             Admit(r, p, k, kind)
      PROVE  OneHalf'
  BY <1>2, <1>4 DEF Admit, Types, Half
<1>5. ASSUME NEW r \in Requests,
             EndUnrecorded(r) \/ RecordMonth(r) \/ LoseMonth(r) \/ \E cost \in Costs : LoseDay(r, cost)
      PROVE  OneHalf'
  BY <1>2, <1>5 DEF EndUnrecorded, RecordMonth, LoseDay, LoseMonth, Types, Half
<1>6. ASSUME NEW p \in Procs, Crash(p) PROVE OneHalf'
  BY <1>2, <1>6 DEF Crash, Half
<1> QED
  BY <1>1, <1>3, <1>4, <1>5, <1>6
  DEF Next, vars, Refuse, AdminRegister, AdminRevoke, Bootstrap, Tick, NextDay

\* What the modules' variables hold, and that no process is between the two
\* increments of two requests, for any number of processes and requests.
THEOREM TypeCorrect == Spec => []TypeOK
<1>1. Init => TypeOK
  BY InitTypes, TypeParts DEF Init, OneHalf, Half
<1>2. TypeOK /\ [Next]_vars => TypeOK'
  <2> SUFFICES ASSUME TypeOK, [Next]_vars PROVE TypeOK'
    OBVIOUS
  <2>1. Types' /\ OneHalf'
    BY TypeParts, NextTypes, NextOneHalf
  <2> QED
    BY <2>1 DEF TypeOK, Types, OneHalf, Half, Configs
<1> QED
  BY <1>1, <1>2, PTL DEF Spec

LEMMA TypesHold == Spec => []Types
<1>1. TypeOK => Types
  BY TypeParts
<1> QED
  BY <1>1, TypeCorrect, PTL

-----------------------------------------------------------------------------
(* What a step does to what p knows of k *)

Kept(p, k) ==
    /\ config'[k] = config[k] /\ known'[k] = known[k]
    /\ cache'[p][k] = cache[p][k] /\ negative'[p][k] = negative[p][k]
    /\ foreign'[p][k] = foreign[p][k]

LookedUp(p, k) ==
    /\ config'[k] = config[k] /\ known'[k] = known[k]
    /\ cache'[p][k] = Lookup(p, k)
    /\ negative'[p][k] = IF AsksStore(p, k) /\ config[k] = NoConfig THEN TTL ELSE negative[p][k]
    /\ foreign'[p][k] <=> foreign[p][k] /\ ~AsksStore(p, k)

\* A config is there, and has been for as long as before.
Appears(k) ==
    /\ config'[k] # NoConfig
    /\ known'[k] = IF config[k] = NoConfig THEN 0 ELSE known[k]

WrittenElsewhere(p, k) ==
    /\ Appears(k)
    /\ cache'[p][k] = cache[p][k] /\ negative'[p][k] = negative[p][k]
    /\ foreign'[p][k]

WrittenHere(p, k) ==
    /\ Appears(k)
    /\ cache'[p][k] \in {config'[k], NoConfig} /\ negative'[p][k] = 0

Forgotten(p, k) ==
    /\ config'[k] = config[k] /\ known'[k] = known[k]
    /\ cache'[p][k] = NoConfig /\ negative'[p][k] = 0

Aged(p, k) ==
    /\ config'[k] = config[k]
    /\ known'[k] = IF config[k] # NoConfig /\ known[k] < TTL THEN known[k] + 1 ELSE known[k]
    /\ cache'[p][k] = cache[p][k] /\ negative'[p][k] = Before(negative[p][k])
    /\ foreign'[p][k] = foreign[p][k]

Known(p, k) ==
    \/ Kept(p, k) \/ LookedUp(p, k)
    \/ WrittenElsewhere(p, k) \/ WrittenHere(p, k)
    \/ Forgotten(p, k) \/ Aged(p, k)

LEMMA LookupKnown ==
    ASSUME Types, NEW p \in Procs, NEW k \in Keys, RememberLookup(p, k),
           UNCHANGED <<config, known>>,
           NEW q \in Procs, NEW j \in Keys
    PROVE  Known(q, j)
<1>1. CASE q = p /\ j = k
  BY <1>1 DEF RememberLookup, Types, Known, LookedUp
<1>2. CASE q # p \/ j # k
  BY <1>2 DEF RememberLookup, Types, Known, Kept
<1> QED
  BY <1>1, <1>2

LEMMA LookupsKnown ==
    ASSUME Types, NEW p \in Procs, NEW k \in Keys, NEW kind \in Kinds, Lookups(p, k, kind),
           UNCHANGED <<config, known>>,
           NEW q \in Procs, NEW j \in Keys
    PROVE  Known(q, j)
<1>1. CASE LooksUp(p, k, kind)
  BY <1>1, LookupKnown DEF Lookups
<1>2. CASE ~LooksUp(p, k, kind)
  BY <1>2 DEF Lookups, Known, Kept
<1> QED
  BY <1>1, <1>2

LEMMA AdminKnown ==
    ASSUME Types, NEW p \in Procs, NEW k \in Keys,
           (\E d \in AdminDailies, a \in BOOLEAN : AdminRegister(p, k, d, a)) \/ AdminRevoke(p, k),
           NEW q \in Procs, NEW j \in Keys
    PROVE  Known(q, j)
<1>1. ASSUME NEW d \in AdminDailies, NEW a \in BOOLEAN, AdminRegister(p, k, d, a)
      PROVE  Known(q, j)
  <2>1. KeyConfig(d, 0, a) # NoConfig
    BY KeyConfigTyped, MeteringAssumption
  <2>2. CASE j # k
    BY <1>1, <2>2 DEF AdminRegister, Written, Types, Known, Kept
  <2>3. CASE j = k /\ q # p
    BY <1>1, <2>1, <2>3 DEF AdminRegister, Written, Types, Known, WrittenElsewhere, Appears
  <2>4. CASE j = k /\ q = p
    BY <1>1, <2>1, <2>4 DEF AdminRegister, Written, Types, Known, WrittenHere, Appears
  <2> QED
    BY <2>2, <2>3, <2>4
<1>2. CASE AdminRevoke(p, k)
  <2> DEFINE c == Lookup(p, k)
  <2>1. /\ cache' = [cache EXCEPT ![p][k] = NoConfig]
        /\ negative' = [negative EXCEPT ![p][k] = 0]
    BY <1>2 DEF AdminRevoke
  <2>2. CASE c = NoConfig
    <3>1. /\ foreign' = [foreign EXCEPT ![p][k] = @ /\ ~AsksStore(p, k)]
          /\ config' = config /\ known' = known
      BY <1>2, <2>2 DEF AdminRevoke
    <3>2. CASE j = k /\ q = p
      BY <2>1, <3>1, <3>2 DEF Types, Known, Forgotten
    <3>3. CASE j # k \/ q # p
      BY <2>1, <3>1, <3>3 DEF Types, Known, Kept
    <3> QED
      BY <3>2, <3>3
  <2>3. CASE c # NoConfig
    <3>1. config' = [config EXCEPT ![k] = [c EXCEPT !.active = FALSE]] /\ Written(p, k)
      BY <1>2, <2>3 DEF AdminRevoke
    <3>2. c \in ConfigType
      BY <2>3, LookupTyped DEF Configs
    <3>3. [c EXCEPT !.active = FALSE] \in ConfigType
      BY <3>2 DEF ConfigType
    <3>4. [c EXCEPT !.active = FALSE] # NoConfig
      BY <3>3, MeteringAssumption
    <3> HIDE DEF c
    <3>5. CASE j # k
      BY <2>1, <3>1, <3>5 DEF Written, Types, Known, Kept
    <3>6. CASE j = k /\ q # p
      BY <2>1, <3>1, <3>4, <3>6 DEF Written, Types, Known, WrittenElsewhere, Appears
    <3>7. CASE j = k /\ q = p
      BY <2>1, <3>1, <3>4, <3>7 DEF Written, Types, Known, WrittenHere, Appears
    <3> QED
      BY <3>5, <3>6, <3>7
  <2> QED
    BY <2>2, <2>3
<1> QED
  BY <1>1, <1>2

LEMMA BootstrapKnown ==
    ASSUME Types, NEW k \in Keys, NEW l \in BootstrapLimits, Bootstrap(k, l),
           NEW q \in Procs, NEW j \in Keys
    PROVE  Known(q, j)
<1>1. KeyConfig(l.daily, l.monthly, TRUE) # NoConfig
  BY KeyConfigTyped, MeteringAssumption
<1>2. CASE j = k
  BY <1>1, <1>2 DEF Bootstrap, procVars, Types, Known, WrittenElsewhere, Appears
<1>3. CASE j # k
  BY <1>3 DEF Bootstrap, procVars, Types, Known, Kept
<1> QED
  BY <1>2, <1>3

\* Of what a process knows of a key, every step changes one of these things.
LEMMA StepKnown ==
    ASSUME Types, [Next]_vars, NEW q \in Procs, NEW j \in Keys
    PROVE  Known(q, j)
<1>1. CASE UNCHANGED <<config, cache, negative, foreign, known>>
  BY <1>1 DEF Known, Kept
<1>2. ASSUME NEW p \in Procs, NEW k \in Keys, NEW kind \in Kinds,
             Refuse(p, k, kind) \/ \E r \in Requests : Admit(r, p, k, kind)
      PROVE  Known(q, j)
  BY <1>2, LookupsKnown DEF Refuse, Admit, storeVars
<1>3. ASSUME NEW r \in Requests, RecordMonth(r) PROVE Known(q, j)
  <2>1. request[r] # NoRequest /\ RememberLookup(request[r].proc, request[r].key)
    BY <1>3 DEF RecordMonth
  <2>2. request[r].proc \in Procs /\ request[r].key \in Keys
    BY <2>1, RequestTyped
  <2> QED
    BY <1>3, <2>1, <2>2, LookupKnown DEF RecordMonth
<1>4. CASE Tick
  BY <1>4 DEF Tick, storeVars, Types, Known, Aged
<1>5. ASSUME NEW p \in Procs, Crash(p) PROVE Known(q, j)
  <2>1. CASE q = p
    BY <1>5, <2>1 DEF Crash, storeVars, Types, Known, Forgotten
  <2>2. CASE q # p
    BY <1>5, <2>2 DEF Crash, storeVars, Types, Known, Kept
  <2> QED
    BY <2>1, <2>2
<1> QED
  BY <1>1, <1>2, <1>3, <1>4, <1>5, AdminKnown, BootstrapKnown
  DEF Next, vars, storeVars, procVars, historyVars, EndUnrecorded, RecordDay, LoseDay, LoseMonth,
      NextDay

-----------------------------------------------------------------------------
(* New keys become visible *)

\* A negative entry does not outlive the time its key needs to be old.
Runs == \A p \in Procs, k \in Keys : config[k] # NoConfig => negative[p][k] + known[k] <= TTL

\* get_key_config: a key that is there for the TTL is found by every process,
\* however often it was asked for before it was there.
THEOREM NewKeysVisible == Spec => []NewKeyVisible
<1>1. Init => Runs
  BY DEF Init, Runs
<1>2. Types /\ Types' /\ Runs /\ [Next]_vars => Runs'
  <2> SUFFICES ASSUME Types, Types', Runs, [Next]_vars,
                      NEW p \in Procs, NEW k \in Keys, config'[k] # NoConfig
               PROVE  negative'[p][k] + known'[k] <= TTL
    BY DEF Runs
  <2>1. /\ negative[p][k] \in 0..TTL /\ known[k] \in 0..TTL /\ TTL \in Nat
        /\ negative'[p][k] \in 0..TTL
    BY MeteringAssumption DEF Types
  <2>2. config[k] # NoConfig => negative[p][k] + known[k] <= TTL
    BY DEF Runs
  <2>3. Known(p, k)
    BY StepKnown
  <2> QED
    BY <2>1, <2>2, <2>3
    DEF Known, Kept, LookedUp, WrittenElsewhere, WrittenHere, Appears, Forgotten, Aged, Before
<1>3. Types /\ Runs => NewKeyVisible
  <2> SUFFICES ASSUME Types, Runs, NEW p \in Procs, NEW k \in Keys,
                      config[k] # NoConfig, known[k] = TTL
               PROVE  Lookup(p, k) # NoConfig
    BY DEF NewKeyVisible
  <2>1. negative[p][k] = 0
    BY MeteringAssumption DEF Types, Runs
  <2> QED
    BY <2>1 DEF Lookup
<1> QED
  BY <1>1, <1>2, <1>3, TypesHold, PTL DEF Spec

-----------------------------------------------------------------------------
(* Revocations take effect *)

\* Whom nobody has overtaken knows what the store says.
Fresh ==
    \A p \in Procs, k \in Keys : ~foreign[p][k] =>
        /\ cache[p][k] # NoConfig => cache[p][k] = config[k]
        /\ negative[p][k] > 0 => config[k] = NoConfig

LEMMA FreshHolds == Spec => []Fresh
<1>1. Init => Fresh
  BY DEF Init, Fresh
<1>2. Types /\ Fresh /\ [Next]_vars => Fresh'
  <2> SUFFICES ASSUME Types, Fresh, [Next]_vars,
                      NEW p \in Procs, NEW k \in Keys, ~foreign'[p][k]
               PROVE  /\ cache'[p][k] # NoConfig => cache'[p][k] = config'[k]
                      /\ negative'[p][k] > 0 => config'[k] = NoConfig
    BY DEF Fresh
  <2>1. ~foreign[p][k] =>
            /\ cache[p][k] # NoConfig => cache[p][k] = config[k]
            /\ negative[p][k] > 0 => config[k] = NoConfig
    BY DEF Fresh
  <2>2. negative[p][k] \in Nat
    BY DEF Types
  <2>3. Known(p, k)
    BY StepKnown
  <2>4. CASE Kept(p, k) \/ WrittenElsewhere(p, k) \/ WrittenHere(p, k) \/ Forgotten(p, k)
    BY <2>1, <2>4 DEF Kept, WrittenElsewhere, WrittenHere, Forgotten
  <2>5. CASE Aged(p, k)
    BY <2>1, <2>2, <2>5 DEF Aged, Before
  <2>6. CASE LookedUp(p, k)
    BY <2>1, <2>2, <2>6 DEF LookedUp, Lookup, AsksStore
  <2> QED
    BY <2>3, <2>4, <2>5, <2>6 DEF Known
<1> QED
  BY <1>1, <1>2, TypesHold, PTL DEF Spec

\* revoke_key and check_budget: a process that has noticed a revocation lets
\* the key through only where nothing is checked.
THEOREM RevocationsHold == Spec => RevokedRefused
<1> DEFINE Step ==
        \A r \in Requests : Arrived(r) =>
          LET p == request'[r].proc
              k == request'[r].key
          IN  config[k] # NoConfig /\ ~config[k].active /\ ~foreign[p][k]
              => request'[r].check = "none"
<1>1. Types /\ Fresh /\ [Next]_vars => [Step]_vars
  <2> SUFFICES ASSUME Types, Fresh, [Next]_vars, NEW r \in Requests, Arrived(r),
                      config[request'[r].key] # NoConfig, ~config[request'[r].key].active,
                      ~foreign[request'[r].proc][request'[r].key]
               PROVE  request'[r].check = "none"
    OBVIOUS
  <2>1. PICK p \in Procs, k \in Keys, kind \in Kinds : Admit(r, p, k, kind)
    <3>1. request' # request /\ request[r] = NoRequest /\ request'[r] # NoRequest
      BY DEF Arrived
    <3>2. ASSUME NEW s \in Requests, NEW p \in Procs, NEW k \in Keys, NEW kind \in Kinds,
                 Admit(s, p, k, kind)
          PROVE  s = r
      BY <3>1, <3>2 DEF Admit, Types
    <3>3. ASSUME NEW s \in Requests,
                 \/ EndUnrecorded(s) \/ RecordMonth(s) \/ LoseMonth(s)
                 \/ \E cost \in Costs : RecordDay(s, cost) \/ LoseDay(s, cost)
          PROVE  FALSE
      <4>1. \A q \in Requests : q # s => request'[q] = request[q]
        BY <3>3 DEF Types, EndUnrecorded, RecordMonth, RecordDay, LoseDay, LoseMonth
      <4>2. request[s] # NoRequest
        BY <3>3 DEF EndUnrecorded, RecordMonth, RecordDay, LoseDay, LoseMonth
      <4> QED
        BY <3>1, <4>1, <4>2
    <3>4. ASSUME NEW p \in Procs, Crash(p) PROVE FALSE
      BY <3>1, <3>4 DEF Crash
    <3> QED
      BY <3>1, <3>2, <3>3, <3>4
      DEF Next, vars, Refuse, AdminRegister, AdminRevoke, Bootstrap, Tick, NextDay
  <2>2. request'[r] = [proc |-> p, key |-> k, check |-> CheckOf(p, k, kind), half |-> << >>]
    BY <2>1 DEF Admit, Types
  <2>3. Lookup(p, k) = config[k]
    BY <2>2 DEF Fresh, Lookup
  <2>4. kind = "media"
    BY <2>1, <2>2, <2>3 DEF Admit, Allowed, WithinBudget, Degraded
  <2> QED
    BY <2>2, <2>4 DEF CheckOf
<1> QED
  BY <1>1, TypesHold, FreshHolds, PTL DEF Spec, RevokedRefused

-----------------------------------------------------------------------------
(* The overshoot of a daily limit is bounded *)

LEMMA MostDailyBounds ==
    /\ MostDaily \in Nat
    /\ \A d \in AdminDailies : d <= MostDaily
    /\ \A l \in BootstrapLimits : l.daily <= MostDaily
<1> DEFINE B == {l.daily : l \in BootstrapLimits}
           S == AdminDailies \cup B
<1>1. IsFiniteSet(B)
  <2> DEFINE daily == [l \in BootstrapLimits |-> l.daily]
  <2>1. daily \in Surjection(BootstrapLimits, B)
    BY DEF Surjection
  <2> HIDE DEF daily, B
  <2> QED
    BY <2>1, FS_Surjection, MeteringAssumption
<1>2. S \in SUBSET Nat
  BY MeteringAssumption
<1>3. IsFiniteSet(S)
  <2> HIDE DEF B
  <2> QED
    BY <1>1, FS_Union, MeteringAssumption
<1>4. MostDaily = Most(S)
  BY DEF MostDaily
<1>5. \A l \in BootstrapLimits : l.daily \in S
  OBVIOUS
<1>6. \A d \in AdminDailies : d \in S
  OBVIOUS
<1> HIDE DEF S
<1> QED
  BY <1>2, <1>3, <1>4, <1>5, <1>6, MostBounds

LEMMA MostCosts == Most(Costs) \in Nat /\ \A c \in Costs : c \in Nat /\ c <= Most(Costs)
BY MostBounds, MeteringAssumption

\* A limit somebody has set.
Limited(c) == c # NoConfig => c.daily <= MostDaily

\* Whatever is stored or cached.
AllLimited ==
    /\ \A k \in Keys : Limited(config[k])
    /\ \A p \in Procs, k \in Keys : Limited(cache[p][k])

LEMMA LimitedHolds == Spec => []AllLimited
<1>1. Init => AllLimited
  BY DEF Init, AllLimited, Limited
<1>2. Types /\ AllLimited /\ [Next]_vars => AllLimited'
  <2> SUFFICES ASSUME Types, AllLimited, [Next]_vars PROVE AllLimited'
    OBVIOUS
  <2>1. ASSUME NEW p \in Procs, NEW k \in Keys PROVE Limited(Lookup(p, k))
    BY DEF AllLimited, Lookup, Limited
  <2>2. ASSUME NEW k \in Keys PROVE Limited(config'[k])
    <3>1. CASE config'[k] = config[k]
      BY <3>1 DEF AllLimited
    <3>2. ASSUME NEW p \in Procs, NEW d \in AdminDailies, NEW a \in BOOLEAN,
                 AdminRegister(p, k, d, a)
          PROVE  Limited(config'[k])
      BY <3>2, MostDailyBounds DEF AdminRegister, Types, KeyConfig, Limited
    <3>3. ASSUME NEW p \in Procs, AdminRevoke(p, k)
          PROVE  Limited(config'[k])
      <4> DEFINE c == Lookup(p, k)
      <4>1. CASE c = NoConfig
        BY <3>1, <3>3, <4>1 DEF AdminRevoke
      <4>2. CASE c # NoConfig
        <5>1. config'[k] = [c EXCEPT !.active = FALSE]
          BY <3>3, <4>2 DEF AdminRevoke, Types
        <5>2. c \in ConfigType /\ c.daily <= MostDaily
          BY <2>1, <4>2, LookupTyped DEF Limited, Configs
        <5> HIDE DEF c
        <5> QED
          BY <5>1, <5>2 DEF Limited, ConfigType
      <4> QED
        BY <4>1, <4>2
    <3>4. ASSUME NEW l \in BootstrapLimits, Bootstrap(k, l)
          PROVE  Limited(config'[k])
      BY <3>4, MostDailyBounds DEF Bootstrap, Types, KeyConfig, Limited
    <3>5. ASSUME NEW j \in Keys, j # k,
                 \/ \E p \in Procs, d \in AdminDailies, a \in BOOLEAN : AdminRegister(p, j, d, a)
                 \/ \E p \in Procs : AdminRevoke(p, j)
                 \/ \E l \in BootstrapLimits : Bootstrap(j, l)
          PROVE  config'[k] = config[k]
      BY <3>5 DEF AdminRegister, AdminRevoke, Bootstrap, Types
    <3> QED
      BY <3>1, <3>2, <3>3, <3>4, <3>5
      DEF Next, vars, storeVars, Admit, Refuse, EndUnrecorded, RecordDay, RecordMonth, LoseDay,
          LoseMonth, Tick, NextDay, Crash
  <2>3. ASSUME NEW p \in Procs, NEW k \in Keys PROVE Limited(cache'[p][k])
    <3>1. Known(p, k)
      BY StepKnown
    <3>2. cache'[p][k] \in {cache[p][k], Lookup(p, k), config'[k], NoConfig}
      BY <3>1 DEF Known, Kept, LookedUp, WrittenElsewhere, WrittenHere, Forgotten, Aged
    <3>3. Limited(cache[p][k]) /\ Limited(Lookup(p, k)) /\ Limited(config'[k]) /\ Limited(NoConfig)
      BY <2>1, <2>2 DEF AllLimited, Limited
    <3> QED
      BY <3>2, <3>3
  <2> QED
    BY <2>2, <2>3 DEF AllLimited
<1> QED
  BY <1>1, <1>2, TypesHold, PTL DEF Spec

\* r was let in below a daily limit of k, and is still to be charged.
Promised(r, k) ==
    request[r] # NoRequest /\ request[r].key = k /\ request[r].check = "daily"
        /\ request[r].half = << >>

Promises(k) == {r \in Requests : Promised(r, k)}

\* What is charged and what may still be, at the dearest, fits the bound.
Covered(k) ==
    today[k] - waived[k] + Most(Costs) * Cardinality(Promises(k))
        <= MostDaily - 1 + Most(Costs) * Cardinality(Requests)

Reserve == \A k \in Keys : MostDaily > 0 => Covered(k)

LEMMA PromisesCount ==
    ASSUME NEW k
    PROVE  /\ IsFiniteSet(Promises(k)) /\ Cardinality(Promises(k)) \in Nat
           /\ Cardinality(Promises(k)) <= Cardinality(Requests) /\ Cardinality(Requests) \in Nat
<1>1. Promises(k) \in SUBSET Requests
  BY DEF Promises
<1> QED
  BY <1>1, FS_Subset, FS_CardinalityType, MeteringAssumption

LEMMA PromisesCountNext ==
    ASSUME NEW k
    PROVE  /\ IsFiniteSet(Promises(k)') /\ Cardinality(Promises(k)') \in Nat
           /\ Cardinality(Promises(k)') <= Cardinality(Requests)
<1>1. Promises(k)' \in SUBSET Requests
  BY DEF Promises
<1> QED
  BY <1>1, FS_Subset, FS_CardinalityType, MeteringAssumption

LEMMA Scaled ==
    ASSUME NEW a \in Nat, NEW m \in Nat, NEW n \in Nat, m <= n
    PROVE  a * m \in Nat /\ a * n \in Nat /\ a * m <= a * n
OBVIOUS

\* Fewer promises, or as many, and nothing charged against them.
LEMMA FewerPromises ==
    ASSUME Types, Types', NEW k \in Keys, Covered(k), Promises(k)' \subseteq Promises(k),
           today'[k] - waived'[k] = today[k] - waived[k]
    PROVE  Covered(k)'
<1> DEFINE n == Cardinality(Promises(k))
           n2 == Cardinality(Promises(k)')
           M == Most(Costs)
<1>1. n \in Nat /\ n2 \in Nat /\ n2 <= n
  <2>1. Promises(k)' \in SUBSET Promises(k)
    OBVIOUS
  <2> QED
    BY <2>1, PromisesCount, PromisesCountNext, FS_Subset
<1>2. M \in Nat /\ MostDaily \in Nat
  BY MostCosts, MostDailyBounds
<1>3. today[k] \in Nat /\ waived[k] \in Nat /\ today'[k] \in Nat /\ waived'[k] \in Nat
  BY DEF Types
<1>4. today[k] - waived[k] + M * n <= MostDaily - 1 + M * Cardinality(Requests)
  BY DEF Covered
<1>5. M * Cardinality(Requests) \in Nat
  BY <1>2, PromisesCount
<1>6. M * n2 <= M * n /\ M * n \in Nat /\ M * n2 \in Nat
  BY <1>1, <1>2, Scaled
<1>7. today'[k] - waived'[k] + M * n2 <= MostDaily - 1 + M * Cardinality(Requests)
  <2> HIDE DEF n, n2, M
  <2> QED
    BY <1>2, <1>3, <1>4, <1>5, <1>6
<1> QED
  BY <1>7 DEF Covered

\* check_budget: who is let in below a daily limit finds the day's counter
\* below the largest.
LEMMA AdmitCovered ==
    ASSUME Types, Types', AllLimited, Reserve, MostDaily > 0, NEW j \in Keys,
           NEW r \in Requests, NEW p \in Procs, NEW k \in Keys, NEW kind \in Kinds,
           Admit(r, p, k, kind)
    PROVE  Covered(j)'
<1>1. /\ request[r] = NoRequest
      /\ request' = [request EXCEPT ![r] =
                       [proc |-> p, key |-> k, check |-> CheckOf(p, k, kind), half |-> << >>]]
      /\ today' = today /\ waived' = waived
  BY DEF Admit, storeVars
<1>2. CASE j # k \/ CheckOf(p, k, kind) # "daily"
  <2>1. Promises(j)' \subseteq Promises(j)
    BY <1>1, <1>2 DEF Types, Promises, Promised
  <2> QED
    BY <1>1, <2>1, FewerPromises DEF Reserve
<1>3. CASE j = k /\ CheckOf(p, k, kind) = "daily"
  <2> DEFINE c == Lookup(p, k)
             M == Most(Costs)
             n == Cardinality(Promises(k)')
             N == Cardinality(Requests)
  <2>1. c # NoConfig /\ c.daily > 0 /\ WithinBudget(c, k)
    BY <1>3 DEF CheckOf
  <2>2. c \in ConfigType /\ c.daily <= MostDaily
    BY <2>1, LookupTyped DEF Configs, AllLimited, Lookup, Limited
  <2>3. c.daily \in Nat
    BY <2>2 DEF ConfigType
  <2>4. today[k] < c.daily
    BY <2>1 DEF WithinBudget
  <2>5. today[k] \in Nat /\ waived[k] \in Nat /\ MostDaily \in Nat /\ M \in Nat
    BY MostDailyBounds, MostCosts DEF Types
  <2>6. M * n <= M * N /\ M * n \in Nat /\ M * N \in Nat
    BY <2>5, PromisesCount, PromisesCountNext, Scaled
  <2>7. today[k] - waived[k] + M * n <= MostDaily - 1 + M * N
    <3> HIDE DEF c, M, n, N
    <3> QED
      BY <2>2, <2>3, <2>4, <2>5, <2>6
  <2> QED
    BY <1>1, <1>3, <2>7 DEF Covered
<1> QED
  BY <1>2, <1>3

\* record_usage: the charge is taken from what was reserved, or waived, whether
\* the store then answers or not.
LEMMA RecordDayCovered ==
    ASSUME Types, Types', Reserve, MostDaily > 0, NEW j \in Keys,
           NEW r \in Requests, NEW cost \in Costs, RecordDay(r, cost) \/ LoseDay(r, cost)
    PROVE  Covered(j)'
<1> DEFINE k == request[r].key
<1>1. /\ request[r] # NoRequest /\ request[r].half = << >> /\ k \in Keys
      /\ today' = [today EXCEPT ![k] = @ + cost]
      /\ waived' = [waived EXCEPT ![k] = IF request[r].check = "daily" THEN @ ELSE @ + cost]
  BY RequestTyped DEF RecordDay, LoseDay, DayCharged
<1>2. /\ request'[r] = NoRequest \/ request'[r].half # << >>
      /\ \A s \in Requests : s # r => request'[s] = request[s]
  <2>1. CASE RecordDay(r, cost)
    <3>1. request' = [request EXCEPT ![r] = [request[r] EXCEPT !.half = <<Month(day), cost>>]]
      BY <2>1 DEF RecordDay
    <3> QED
      BY <1>1, <3>1, RequestTyped DEF Types, RequestType
  <2>2. CASE LoseDay(r, cost)
    BY <2>2 DEF LoseDay, Types
  <2> QED
    BY <2>1, <2>2
<1>3. Promises(j)' = Promises(j) \ {r}
  BY <1>1, <1>2 DEF Promises, Promised
<1>4. today[k] \in Nat /\ waived[k] \in Nat /\ cost \in Nat
  BY <1>1, MostCosts DEF Types
<1>5. CASE j # k \/ request[r].check # "daily"
  <2>1. today'[j] - waived'[j] = today[j] - waived[j]
    <3> HIDE DEF k
    <3>1. today \in [Keys -> Nat] /\ waived \in [Keys -> Nat]
      BY DEF Types
    <3>2. CASE j # k
      BY <1>1, <3>1, <3>2
    <3>3. CASE j = k
      BY <1>1, <1>4, <1>5, <3>1, <3>3
    <3> QED
      BY <3>2, <3>3
  <2> QED
    BY <1>3, <2>1, FewerPromises DEF Reserve
<1>6. CASE j = k /\ request[r].check = "daily"
  <2> DEFINE M == Most(Costs)
             n == Cardinality(Promises(j))
             N == Cardinality(Requests)
  <2>1. r \in Promises(j)
    BY <1>1, <1>6 DEF Promises, Promised
  <2>2. /\ Cardinality(Promises(j)') = n - 1
        /\ n \in Nat /\ N \in Nat /\ n - 1 \in Nat
    <3>1. Cardinality(Promises(j) \ {r}) = n - 1
      BY <2>1, PromisesCount, FS_RemoveElement
    <3> QED
      BY <1>3, <3>1, PromisesCount, PromisesCountNext
  <2>3. today'[j] = today[j] + cost /\ waived'[j] = waived[j]
    BY <1>1, <1>6 DEF Types
  <2>4. today[j] - waived[j] + M * n <= MostDaily - 1 + M * N
    BY <1>1 DEF Reserve, Covered
  <2>5. M \in Nat /\ cost <= M /\ MostDaily \in Nat
    BY MostCosts, MostDailyBounds
  <2>6. today'[j] - waived'[j] + M * (n - 1) <= MostDaily - 1 + M * N
    <3> HIDE DEF M, n, N, k
    <3>1. M * (n - 1) = M * n - M /\ M * n \in Nat /\ M * N \in Nat
      BY <2>2, <2>5
    <3> QED
      BY <1>4, <1>6, <2>3, <2>4, <2>5, <3>1
  <2> QED
    BY <1>6, <2>2, <2>6 DEF Covered
<1> QED
  BY <1>5, <1>6

\* A daily limit is overshot by one request's tokens per slot at most, for any
\* limits, costs and processes, whatever their caches hold and whenever the
\* configurations change.
THEOREM BudgetBounded == Spec => []BudgetBound
<1>1. Init => Reserve
  <2> SUFFICES ASSUME Init, NEW k \in Keys, MostDaily > 0 PROVE Covered(k)
    BY DEF Reserve
  <2>1. Promises(k) = {}
    BY DEF Init, Promises, Promised
  <2>2. Cardinality(Promises(k)) = 0
    BY <2>1, FS_EmptySet
  <2>3. Most(Costs) * 0 = 0 /\ Most(Costs) * Cardinality(Requests) \in Nat
    BY MostCosts, PromisesCount
  <2> QED
    BY <2>2, <2>3, MostDailyBounds DEF Init, Covered
<1>2. Types /\ Types' /\ AllLimited /\ Reserve /\ [Next]_vars => Reserve'
  <2> SUFFICES ASSUME Types, Types', AllLimited, Reserve, [Next]_vars, MostDaily > 0,
                      NEW j \in Keys
               PROVE  Covered(j)'
    BY DEF Reserve
  <2>1. ASSUME UNCHANGED <<today, waived>>,
               \A r \in Requests : request'[r] \in {request[r], NoRequest}
        PROVE  Covered(j)'
    <3>1. Promises(j)' \subseteq Promises(j)
      BY <2>1 DEF Promises, Promised
    <3> QED
      BY <2>1, <3>1, FewerPromises DEF Reserve
  <2>2. CASE UNCHANGED <<today, waived, request>>
    BY <2>1, <2>2
  <2>3. ASSUME NEW r \in Requests, EndUnrecorded(r) \/ RecordMonth(r) \/ LoseMonth(r)
        PROVE  Covered(j)'
    BY <2>1, <2>3 DEF EndUnrecorded, RecordMonth, LoseMonth, storeVars, historyVars, Types
  <2>4. ASSUME NEW p \in Procs, Crash(p) PROVE Covered(j)'
    BY <2>1, <2>4 DEF Crash, storeVars
  <2>5. CASE NextDay
    <3>1. today'[j] = 0 /\ waived'[j] = 0
      BY <2>5 DEF NextDay
    <3> DEFINE M == Most(Costs)
               n == Cardinality(Promises(j)')
               N == Cardinality(Requests)
    <3>2. M * n <= M * N /\ M * n \in Nat /\ M * N \in Nat
      BY MostCosts, PromisesCount, PromisesCountNext, Scaled
    <3>3. 0 - 0 + M * n <= MostDaily - 1 + M * N
      <4> HIDE DEF M, n, N
      <4> QED
        BY <3>2, MostDailyBounds
    <3> QED
      BY <3>1, <3>3 DEF Covered
  <2> QED
    BY <2>2, <2>3, <2>4, <2>5, AdmitCovered, RecordDayCovered
    DEF Next, vars, storeVars, historyVars, Refuse, AdminRegister, AdminRevoke, Bootstrap, Tick
<1>3. Types /\ Reserve => BudgetBound
  <2> SUFFICES ASSUME Types, Reserve, NEW k \in Keys, MostDaily > 0
               PROVE  today[k] - waived[k] <= MostDaily - 1 + Most(Costs) * Cardinality(Requests)
    BY DEF BudgetBound
  <2>1. Most(Costs) * Cardinality(Promises(k)) \in Nat
        /\ Most(Costs) * Cardinality(Requests) \in Nat
    BY MostCosts, PromisesCount
  <2>2. today[k] \in Nat /\ waived[k] \in Nat /\ MostDaily \in Nat
    BY MostDailyBounds DEF Types
  <2> QED
    BY <2>1, <2>2 DEF Reserve, Covered
<1> QED
  BY <1>1, <1>2, <1>3, TypesHold, LimitedHolds, PTL DEF Spec

-----------------------------------------------------------------------------
(* A month's counter agrees with its days *)

\* The tokens of request r that the month m of k still lacks, one by one.
Owed(r, k, m) ==
    {x \in {r} \X (1..Most(Costs)) : r \in Halves(k, m) /\ x[2] <= request[r].half[2]}

\* What all requests between their two increments owe that month.
Debt(k, m) == UNION {Owed(r, k, m) : r \in Requests}

\* The days are ahead of the month by the debt and by what faults lost.
Books ==
    \A k \in Keys, m \in Months :
        LET behind == spent[k][m] - monthly[k][m]
            debt   == Cardinality(Debt(k, m))
        IN  debt <= behind /\ behind <= debt + Most(Costs) * faults

LEMMA DebtElements ==
    ASSUME NEW k, NEW m
    PROVE  /\ Debt(k, m) \in SUBSET (Requests \X (1..Most(Costs)))
           /\ \A r \in Requests, i \in 1..Most(Costs) :
                 <<r, i>> \in Debt(k, m) <=> r \in Halves(k, m) /\ i <= request[r].half[2]
<1>1. \A x : x \in Debt(k, m) <=> \E r \in Requests : x \in Owed(r, k, m)
  BY DEF Debt
<1>2. \A r \in Requests : Owed(r, k, m) \subseteq {r} \X (1..Most(Costs))
  BY DEF Owed
<1>3. Debt(k, m) \in SUBSET (Requests \X (1..Most(Costs)))
  BY <1>1, <1>2
<1>4. ASSUME NEW r \in Requests, NEW i \in 1..Most(Costs)
      PROVE  <<r, i>> \in Debt(k, m) <=> r \in Halves(k, m) /\ i <= request[r].half[2]
  <2>1. \A s \in Requests : <<r, i>> \in Owed(s, k, m) <=>
           s = r /\ r \in Halves(k, m) /\ i <= request[r].half[2]
    BY DEF Owed
  <2> QED
    BY <1>1, <2>1
<1> QED
  BY <1>3, <1>4

LEMMA DebtElementsNext ==
    ASSUME NEW k, NEW m
    PROVE  /\ Debt(k, m)' \in SUBSET (Requests \X (1..Most(Costs)))
           /\ \A r \in Requests, i \in 1..Most(Costs) :
                 <<r, i>> \in Debt(k, m)' <=> r \in Halves(k, m)' /\ i <= request'[r].half[2]
<1>1. \A x : x \in Debt(k, m)' <=> \E r \in Requests : x \in Owed(r, k, m)'
  BY DEF Debt
<1>2. \A r \in Requests : Owed(r, k, m)' \subseteq {r} \X (1..Most(Costs))
  BY DEF Owed
<1>3. Debt(k, m)' \in SUBSET (Requests \X (1..Most(Costs)))
  BY <1>1, <1>2
<1>4. ASSUME NEW r \in Requests, NEW i \in 1..Most(Costs)
      PROVE  <<r, i>> \in Debt(k, m)' <=> r \in Halves(k, m)' /\ i <= request'[r].half[2]
  <2>1. \A s \in Requests : <<r, i>> \in Owed(s, k, m)' <=>
           s = r /\ r \in Halves(k, m)' /\ i <= request'[r].half[2]
    BY DEF Owed
  <2> QED
    BY <1>1, <2>1
<1> QED
  BY <1>3, <1>4

LEMMA GridFinite ==
    ASSUME NEW n \in Nat, NEW S, IsFiniteSet(S)
    PROVE  /\ IsFiniteSet(S \X (1..n))
           /\ Cardinality(S \X (1..n)) = n * Cardinality(S)
           /\ Cardinality(S) \in Nat
<1>1. IsFiniteSet(1..n) /\ Cardinality(1..n) = n
  BY FS_Interval
<1>2. Cardinality(S) \in Nat
  BY FS_CardinalityType
<1>3. /\ IsFiniteSet(S \X (1..n))
      /\ Cardinality(S \X (1..n)) = Cardinality(S) * Cardinality(1..n)
  BY <1>1, FS_Product
<1> QED
  BY <1>1, <1>2, <1>3

\* One request's tokens.
LEMMA RowFinite ==
    ASSUME NEW n \in Nat, NEW r
    PROVE  IsFiniteSet({r} \X (1..n)) /\ Cardinality({r} \X (1..n)) = n
<1> DEFINE S == {r}
<1>1. IsFiniteSet(S) /\ Cardinality(S) = 1
  BY FS_Singleton
<1>2. IsFiniteSet(S \X (1..n)) /\ Cardinality(S \X (1..n)) = n
  <2> HIDE DEF S
  <2>1. IsFiniteSet(S \X (1..n)) /\ Cardinality(S \X (1..n)) = n * Cardinality(S)
    BY <1>1, GridFinite
  <2> QED
    BY <1>1, <2>1
<1> QED
  BY <1>2

\* Sets of tokens are equal when they hold the same ones.
LEMMA SamePairs ==
    ASSUME NEW S, NEW T, NEW A \in SUBSET (S \X T), NEW B \in SUBSET (S \X T),
           \A s \in S, t \in T : <<s, t>> \in A <=> <<s, t>> \in B
    PROVE  A = B
OBVIOUS

LEMMA DebtFinite ==
    ASSUME NEW S \in SUBSET (Requests \X (1..Most(Costs)))
    PROVE  IsFiniteSet(S) /\ Cardinality(S) \in Nat
<1>1. IsFiniteSet(Requests \X (1..Most(Costs)))
  BY MostCosts, GridFinite, MeteringAssumption
<1> QED
  BY <1>1, FS_Subset, FS_CardinalityType

\* Whose second increment is still to come is the same as before.
LEMMA DebtKept ==
    ASSUME NEW k, NEW m, Halves(k, m)' = Halves(k, m),
           \A r \in Halves(k, m) : request'[r] = request[r]
    PROVE  Debt(k, m)' = Debt(k, m)
<1>1. ASSUME NEW r \in Requests PROVE Owed(r, k, m)' = Owed(r, k, m)
  <2>1. CASE r \in Halves(k, m)
    BY <2>1 DEF Owed
  <2>2. CASE r \notin Halves(k, m)
    BY <2>2 DEF Owed
  <2> QED
    BY <2>1, <2>2
<1> QED
  BY <1>1 DEF Debt

LEMMA BooksKept ==
    ASSUME Books, UNCHANGED <<spent, monthly, faults>>,
           \A r \in Requests : Half(r)' <=> Half(r),
           \A r \in Requests : Half(r) => request'[r] = request[r]
    PROVE  Books'
<1>1. ASSUME NEW k \in Keys, NEW m \in Months PROVE Debt(k, m)' = Debt(k, m)
  <2>1. Halves(k, m)' = Halves(k, m) /\ \A r \in Halves(k, m) : request'[r] = request[r]
    BY DEF Halves, Half
  <2> QED
    BY <2>1, DebtKept
<1> QED
  BY <1>1 DEF Books

\* A set of tokens, less those of one request.
LEMMA LessRow ==
    ASSUME NEW S, IsFiniteSet(S), NEW r, NEW n \in Nat, {r} \X (1..n) \subseteq S
    PROVE  Cardinality(S \ ({r} \X (1..n))) = Cardinality(S) - n
<1> DEFINE row == {r} \X (1..n)
<1>1. S \cap row = row /\ Cardinality(row) = n
  BY RowFinite
<1> HIDE DEF row
<1>2. Cardinality(S \ row) = Cardinality(S) - Cardinality(S \cap row)
  BY FS_Difference
<1>3. Cardinality(S \ row) = Cardinality(S) - n
  BY <1>1, <1>2
<1> QED
  BY <1>3 DEF row

\* record_usage, first increment: the day is ahead, and the month owes it.
LEMMA RecordDayBooks ==
    ASSUME Types, Types', Books, NEW r \in Requests, NEW cost \in Costs, RecordDay(r, cost)
    PROVE  Books'
<1> SUFFICES ASSUME NEW k \in Keys, NEW m \in Months
             PROVE  /\ Cardinality(Debt(k, m)') <= spent'[k][m] - monthly'[k][m]
                    /\ spent'[k][m] - monthly'[k][m]
                          <= Cardinality(Debt(k, m)') + Most(Costs) * faults'
  BY DEF Books
<1> DEFINE row == {r} \X (1..cost)
<1>1. /\ request[r] # NoRequest /\ request[r].half = << >> /\ request[r].key \in Keys
      /\ request' = [request EXCEPT ![r] = [request[r] EXCEPT !.half = <<Month(day), cost>>]]
      /\ spent' = [spent EXCEPT ![request[r].key][Month(day)] = @ + cost]
      /\ monthly' = monthly /\ faults' = faults
  BY RequestTyped DEF RecordDay, DayCharged
<1>2. cost \in Nat /\ cost <= Most(Costs) /\ Most(Costs) \in Nat /\ Month(day) \in Months
  BY MostCosts, MonthInMonths DEF Types
<1>3. /\ request'[r] # NoRequest /\ request'[r].key = request[r].key
      /\ request'[r].half = <<Month(day), cost>> /\ request'[r].half # << >>
      /\ request'[r].half[1] = Month(day) /\ request'[r].half[2] = cost
      /\ \A s \in Requests : s # r => request'[s] = request[s]
  <2>1. request'[r] = [request[r] EXCEPT !.half = <<Month(day), cost>>]
    BY <1>1 DEF Types
  <2>2. request'[r] \in RequestType
    BY <1>1, <1>2, <2>1, RequestTyped
  <2>3. request'[r] # NoRequest
    BY <2>2, MeteringAssumption
  <2>4. request'[r].key = request[r].key /\ request'[r].half = <<Month(day), cost>>
    BY <1>1, <2>1, RequestTyped DEF RequestType
  <2>5. \A s \in Requests : s # r => request'[s] = request[s]
    BY <1>1 DEF Types
  <2> QED
    BY <2>3, <2>4, <2>5
<1>4. /\ Cardinality(Debt(k, m)) <= spent[k][m] - monthly[k][m]
      /\ spent[k][m] - monthly[k][m] <= Cardinality(Debt(k, m)) + Most(Costs) * faults
  BY DEF Books
<1>5. spent[k][m] \in Nat /\ monthly[k][m] \in Nat
  BY DEF Types
<1>6. CASE k = request[r].key /\ m = Month(day)
  <2>1. Debt(k, m)' = Debt(k, m) \cup row
    <3>1. \A s \in Requests : s # r => (s \in Halves(k, m)' <=> s \in Halves(k, m))
      BY <1>3 DEF Halves
    <3>2. r \in Halves(k, m)' /\ r \notin Halves(k, m)
      BY <1>1, <1>3, <1>6 DEF Halves
    <3>3. row \in SUBSET (Requests \X (1..Most(Costs)))
      BY <1>2
    <3>4. \A s \in Requests, i \in 1..Most(Costs) :
             <<s, i>> \in Debt(k, m)' <=> <<s, i>> \in Debt(k, m) \/ <<s, i>> \in row
      <4> TAKE s \in Requests, i \in 1..Most(Costs)
      <4>1. <<s, i>> \in Debt(k, m)' <=> s \in Halves(k, m)' /\ i <= request'[s].half[2]
        BY DebtElementsNext
      <4>2. <<s, i>> \in Debt(k, m) <=> s \in Halves(k, m) /\ i <= request[s].half[2]
        BY DebtElements
      <4>3. <<s, i>> \in row <=> s = r /\ i <= cost
        BY <1>2
      <4> HIDE DEF row
      <4> QED
        BY <1>3, <3>1, <3>2, <4>1, <4>2, <4>3
    <3>5. /\ Debt(k, m) \cup row \in SUBSET (Requests \X (1..Most(Costs)))
          /\ Debt(k, m)' \in SUBSET (Requests \X (1..Most(Costs)))
      BY <3>3, DebtElements, DebtElementsNext
    <3>6. \A s \in Requests, i \in 1..Most(Costs) :
             <<s, i>> \in Debt(k, m)' <=> <<s, i>> \in Debt(k, m) \cup row
      BY <3>4
    <3> QED
      BY <3>5, <3>6, SamePairs
  <2>2. Debt(k, m) \cap row = {}
    <3>1. r \notin Halves(k, m)
      BY <1>1 DEF Halves
    <3>2. \A i \in 1..cost : <<r, i>> \notin Debt(k, m)
      BY <1>2, <3>1, DebtElements
    <3> QED
      BY <3>2
  <2>3. IsFiniteSet(row) /\ Cardinality(row) = cost
    BY <1>2, RowFinite
  <2>4. Cardinality(Debt(k, m)') = Cardinality(Debt(k, m)) + cost
    <3>1. IsFiniteSet(Debt(k, m)) /\ Cardinality(Debt(k, m)) \in Nat
      BY DebtElements, DebtFinite
    <3> HIDE DEF row
    <3> QED
      BY <1>2, <2>1, <2>2, <2>3, <3>1, FS_Union, FS_EmptySet
  <2>5. spent'[k][m] = spent[k][m] + cost
    BY <1>1, <1>6 DEF Types
  <2>6. Cardinality(Debt(k, m)) \in Nat /\ Most(Costs) * faults \in Nat
    BY <1>2, DebtElements, DebtFinite, MeteringAssumption DEF Types
  <2> QED
    BY <1>1, <1>2, <1>4, <1>5, <2>4, <2>5, <2>6
<1>7. CASE k # request[r].key \/ m # Month(day)
  <2>1. Halves(k, m)' = Halves(k, m)
    BY <1>1, <1>3, <1>7 DEF Halves
  <2>2. \A s \in Halves(k, m) : request'[s] = request[s]
    BY <1>1, <1>3 DEF Halves
  <2>3. Debt(k, m)' = Debt(k, m)
    BY <2>1, <2>2, DebtKept
  <2>4. spent'[k][m] = spent[k][m]
    BY <1>1, <1>2, <1>7 DEF Types
  <2> QED
    BY <1>1, <1>4, <2>3, <2>4
<1> QED
  BY <1>6, <1>7

\* What the month lacks for good after a failure of the store is no more than
\* the largest cost.
LEMMA WrittenOff ==
    ASSUME NEW M \in Nat, NEW n \in Nat
    PROVE  M * n \in Nat /\ M * (n + 1) = M * n + M
OBVIOUS

\* The store fails after the first increment: the day is ahead, and nobody owes.
LEMMA LoseDayBooks ==
    ASSUME Types, Types', Books, NEW r \in Requests, NEW cost \in Costs, LoseDay(r, cost)
    PROVE  Books'
<1> SUFFICES ASSUME NEW k \in Keys, NEW m \in Months
             PROVE  /\ Cardinality(Debt(k, m)') <= spent'[k][m] - monthly'[k][m]
                    /\ spent'[k][m] - monthly'[k][m]
                          <= Cardinality(Debt(k, m)') + Most(Costs) * faults'
  BY DEF Books
<1>1. /\ request[r] # NoRequest /\ request[r].half = << >> /\ request[r].key \in Keys
      /\ request' = [request EXCEPT ![r] = NoRequest]
      /\ spent' = [spent EXCEPT ![request[r].key][Month(day)] = @ + cost]
      /\ monthly' = monthly /\ faults' = faults + 1
  BY RequestTyped DEF LoseDay, DayCharged
<1>2. /\ cost \in Nat /\ cost <= Most(Costs) /\ Most(Costs) \in Nat /\ Month(day) \in Months
      /\ faults \in Nat
  BY MostCosts, MonthInMonths, MeteringAssumption DEF Types
<1>3. Debt(k, m)' = Debt(k, m)
  <2>1. request'[r] = NoRequest /\ \A s \in Requests : s # r => request'[s] = request[s]
    BY <1>1 DEF Types
  <2>2. Halves(k, m)' = Halves(k, m) /\ \A s \in Halves(k, m) : request'[s] = request[s]
    BY <1>1, <2>1 DEF Halves
  <2> QED
    BY <2>2, DebtKept
<1>4. /\ Cardinality(Debt(k, m)) <= spent[k][m] - monthly[k][m]
      /\ spent[k][m] - monthly[k][m] <= Cardinality(Debt(k, m)) + Most(Costs) * faults
  BY DEF Books
<1>5. spent[k][m] \in Nat /\ monthly[k][m] \in Nat /\ Cardinality(Debt(k, m)) \in Nat
  BY DebtElements, DebtFinite DEF Types
<1>6. spent'[k][m] = spent[k][m] \/ spent'[k][m] = spent[k][m] + cost
  <2>1. CASE k = request[r].key /\ m = Month(day)
    BY <1>1, <1>2, <2>1 DEF Types
  <2>2. CASE k # request[r].key \/ m # Month(day)
    BY <1>1, <1>2, <2>2 DEF Types
  <2> QED
    BY <2>1, <2>2
<1>7. Most(Costs) * faults \in Nat /\ Most(Costs) * (faults + 1) = Most(Costs) * faults + Most(Costs)
  BY <1>2, WrittenOff
<1>8. ASSUME NEW D, NEW M, NEW F, D \in Nat, M \in Nat, F \in Nat, cost <= M,
             D <= spent[k][m] - monthly[k][m], spent[k][m] - monthly[k][m] <= D + F
      PROVE  /\ D <= spent'[k][m] - monthly[k][m]
             /\ spent'[k][m] - monthly[k][m] <= D + (F + M)
  BY <1>2, <1>5, <1>6, <1>8
<1>9. /\ Cardinality(Debt(k, m)) <= spent'[k][m] - monthly[k][m]
      /\ spent'[k][m] - monthly[k][m]
            <= Cardinality(Debt(k, m)) + (Most(Costs) * faults + Most(Costs))
  BY <1>2, <1>4, <1>5, <1>7, <1>8
<1> QED
  BY <1>1, <1>3, <1>7, <1>9

\* Second increment: the debt is paid to the month it was booked in, or the
\* store has failed and it may be lost.
LEMMA HalfEndsBooks ==
    ASSUME Types, Types', Books, NEW r \in Requests,
           request[r] # NoRequest, request[r].half # << >>,
           request' = [request EXCEPT ![r] = NoRequest], spent' = spent,
           faults' \in {faults, faults + 1},
           \/ monthly' = [monthly EXCEPT ![request[r].key][request[r].half[1]] = @ + request[r].half[2]]
           \/ monthly' = monthly /\ faults' = faults + 1
    PROVE  Books'
<1> SUFFICES ASSUME NEW k \in Keys, NEW m \in Months
             PROVE  /\ Cardinality(Debt(k, m)') <= spent'[k][m] - monthly'[k][m]
                    /\ spent'[k][m] - monthly'[k][m]
                          <= Cardinality(Debt(k, m)') + Most(Costs) * faults'
  BY DEF Books
<1>1. PICK cost \in Costs : cost = request[r].half[2]
  BY RequestTyped
<1> DEFINE row == {r} \X (1..cost)
<1>2. /\ request[r] # NoRequest /\ request[r].half # << >>
      /\ request' = [request EXCEPT ![r] = NoRequest]
      /\ \/ monthly' = [monthly EXCEPT ![request[r].key][request[r].half[1]] = @ + cost]
         \/ monthly' = monthly /\ faults' = faults + 1
      /\ spent' = spent /\ faults' \in {faults, faults + 1}
  BY <1>1
<1>3. /\ cost \in Nat /\ cost <= Most(Costs) /\ Most(Costs) \in Nat
      /\ request[r].key \in Keys /\ request[r].half[1] \in Months
  BY <1>2, MostCosts, RequestTyped
<1>4. request'[r] = NoRequest /\ \A s \in Requests : s # r => request'[s] = request[s]
  BY <1>2 DEF Types
<1>5. /\ Cardinality(Debt(k, m)) <= spent[k][m] - monthly[k][m]
      /\ spent[k][m] - monthly[k][m] <= Cardinality(Debt(k, m)) + Most(Costs) * faults
  BY DEF Books
<1>6. spent[k][m] \in Nat /\ monthly[k][m] \in Nat
  BY DEF Types
<1>7. r \notin Halves(k, m)' /\ \A s \in Requests : s # r => (s \in Halves(k, m)' <=> s \in Halves(k, m))
  BY <1>4 DEF Halves
<1>8. /\ Most(Costs) * faults \in Nat
      /\ Most(Costs) * faults' \in {Most(Costs) * faults, Most(Costs) * faults + Most(Costs)}
      /\ faults' = faults + 1 => Most(Costs) * faults' = Most(Costs) * faults + Most(Costs)
      /\ monthly'[k][m] \in Nat
  <2>1. faults \in Nat
    BY MeteringAssumption DEF Types
  <2>2. /\ Most(Costs) * faults \in Nat
        /\ Most(Costs) * (faults + 1) = Most(Costs) * faults + Most(Costs)
    BY <1>3, <2>1, WrittenOff
  <2> QED
    BY <1>2, <2>2 DEF Types
<1>9. CASE k = request[r].key /\ m = request[r].half[1]
  <2>1. r \in Halves(k, m)
    BY <1>2, <1>9 DEF Halves
  <2>2. Debt(k, m)' = Debt(k, m) \ row
    <3>1. \A s \in Requests, i \in 1..Most(Costs) :
             <<s, i>> \in Debt(k, m)' <=> <<s, i>> \in Debt(k, m) /\ ~(s = r /\ i \in 1..cost)
      <4> TAKE s \in Requests, i \in 1..Most(Costs)
      <4>1. <<s, i>> \in Debt(k, m)' <=> s \in Halves(k, m)' /\ i <= request'[s].half[2]
        BY DebtElementsNext
      <4>2. <<s, i>> \in Debt(k, m) <=> s \in Halves(k, m) /\ i <= request[s].half[2]
        BY DebtElements
      <4>3. CASE s = r
        BY <1>1, <1>3, <1>7, <2>1, <4>1, <4>2, <4>3
      <4>4. CASE s # r
        BY <1>4, <1>7, <4>1, <4>2, <4>4
      <4> QED
        BY <4>3, <4>4
    <3>2. \A s \in Requests, i \in 1..Most(Costs) : <<s, i>> \in row <=> s = r /\ i \in 1..cost
      OBVIOUS
    <3>3. /\ Debt(k, m) \ row \in SUBSET (Requests \X (1..Most(Costs)))
          /\ Debt(k, m)' \in SUBSET (Requests \X (1..Most(Costs)))
      <4> HIDE DEF row
      <4> QED
        BY DebtElements, DebtElementsNext
    <3>4. \A s \in Requests, i \in 1..Most(Costs) :
             <<s, i>> \in Debt(k, m)' <=> <<s, i>> \in Debt(k, m) \ row
      BY <3>1, <3>2
    <3> QED
      BY <3>3, <3>4, SamePairs
  <2>3. row \subseteq Debt(k, m)
    BY <1>1, <1>3, <2>1, DebtElements
  <2>4. Cardinality(Debt(k, m)') = Cardinality(Debt(k, m)) - cost
    <3>1. IsFiniteSet(Debt(k, m))
      BY DebtElements, DebtFinite
    <3>2. Cardinality(Debt(k, m) \ row) = Cardinality(Debt(k, m)) - cost
      BY <1>3, <2>3, <3>1, LessRow
    <3> HIDE DEF row
    <3> QED
      BY <2>2, <3>2
  <2>5. \/ monthly'[k][m] = monthly[k][m] + cost
        \/ monthly'[k][m] = monthly[k][m] /\ faults' = faults + 1
    <3>1. CASE monthly' = monthly /\ faults' = faults + 1
      BY <3>1
    <3>2. CASE monthly' = [monthly EXCEPT ![request[r].key][request[r].half[1]] = @ + cost]
      BY <1>3, <1>9, <3>2 DEF Types
    <3> QED
      BY <1>2, <3>1, <3>2
  <2>6. Cardinality(Debt(k, m)) \in Nat /\ Cardinality(Debt(k, m)') \in Nat
    BY DebtElements, DebtElementsNext, DebtFinite
  <2> QED
    <3> DEFINE M  == Most(Costs)
               F  == Most(Costs) * faults
               F2 == Most(Costs) * faults'
               D  == Cardinality(Debt(k, m))
               D2 == Cardinality(Debt(k, m)')
               n2 == monthly'[k][m]
    <3>1. /\ D \in Nat /\ D2 \in Nat /\ M \in Nat /\ F \in Nat /\ F2 \in {F, F + M} /\ n2 \in Nat
          /\ D <= spent[k][m] - monthly[k][m] /\ spent[k][m] - monthly[k][m] <= D + F
          /\ spent'[k][m] = spent[k][m]
      BY <1>2, <1>3, <1>5, <1>8, <2>6
    <3>2. cost <= M /\ D2 = D - cost /\ (n2 = monthly[k][m] + cost \/ (n2 = monthly[k][m] /\ F2 = F + M))
      BY <1>3, <1>8, <2>4, <2>5
    <3> HIDE DEF M, F, F2, D, D2, n2
    <3>3. D2 <= spent[k][m] - n2 /\ spent[k][m] - n2 <= D2 + F2
      <4>1. cost \in Nat /\ cost <= M /\ D2 = D - cost
        BY <1>3, <3>2
      <4>2. CASE n2 = monthly[k][m] + cost
        <5>1. F \in Nat /\ F2 \in Nat /\ F <= F2
          BY <3>1
        <5>2. spent[k][m] - n2 = (spent[k][m] - monthly[k][m]) - cost
          BY <1>6, <4>1, <4>2
        <5>3. D <= spent[k][m] - monthly[k][m] /\ spent[k][m] - monthly[k][m] <= D + F
          BY <3>1
        <5>4. spent[k][m] - monthly[k][m] \in Int /\ D \in Nat
          BY <1>6, <3>1
        <5> QED
          BY <4>1, <5>1, <5>2, <5>3, <5>4
      <4>3. CASE n2 = monthly[k][m] /\ F2 = F + M
        BY <1>6, <3>1, <4>1, <4>3
      <4> QED
        BY <3>2, <4>2, <4>3
    <3> QED
      BY <3>1, <3>3 DEF M, F, F2, D, D2, n2
<1>10. CASE k # request[r].key \/ m # request[r].half[1]
  <2>1. r \notin Halves(k, m)
    BY <1>10 DEF Halves
  <2>2. Debt(k, m)' = Debt(k, m)
    <3>1. Halves(k, m)' = Halves(k, m) /\ \A s \in Halves(k, m) : request'[s] = request[s]
      BY <1>4, <1>7, <2>1 DEF Halves
    <3> QED
      BY <3>1, DebtKept
  <2>3. monthly'[k][m] = monthly[k][m]
    <3>1. CASE monthly' = monthly
      BY <3>1
    <3>2. CASE monthly' = [monthly EXCEPT ![request[r].key][request[r].half[1]] = @ + cost]
      BY <1>3, <1>10, <3>2 DEF Types
    <3> QED
      BY <1>2, <3>1, <3>2
  <2>4. Cardinality(Debt(k, m)) \in Nat
    BY DebtElements, DebtFinite
  <2> QED
    <3> DEFINE M  == Most(Costs)
               F  == Most(Costs) * faults
               F2 == Most(Costs) * faults'
               D  == Cardinality(Debt(k, m))
               D2 == Cardinality(Debt(k, m)')
               n2 == monthly'[k][m]
    <3>1. /\ D \in Nat /\ D2 \in Nat /\ M \in Nat /\ F \in Nat /\ F2 \in {F, F + M} /\ n2 \in Nat
          /\ D <= spent[k][m] - monthly[k][m] /\ spent[k][m] - monthly[k][m] <= D + F
          /\ spent'[k][m] = spent[k][m]
      BY <1>2, <1>3, <1>5, <1>8, <2>2, <2>4
    <3>2. D2 = D /\ n2 = monthly[k][m]
      BY <2>2, <2>3
    <3> HIDE DEF M, F, F2, D, D2, n2
    <3>3. D2 <= spent[k][m] - n2 /\ spent[k][m] - n2 <= D2 + F2
      BY <1>3, <1>6, <3>1, <3>2
    <3> QED
      BY <3>1, <3>3 DEF M, F, F2, D, D2, n2
<1> QED
  BY <1>9, <1>10

LEMMA RecordMonthBooks ==
    ASSUME Types, Types', Books, NEW r \in Requests, RecordMonth(r) \/ LoseMonth(r)
    PROVE  Books'
<1>1. CASE RecordMonth(r)
  BY <1>1, HalfEndsBooks DEF RecordMonth
<1>2. CASE LoseMonth(r)
  BY <1>2, HalfEndsBooks DEF LoseMonth, historyVars
<1> QED
  BY <1>1, <1>2

\* A crash takes one debt with it at most: the process had one open.
LEMMA CrashBooks ==
    ASSUME Types, Types', OneHalf, Books, NEW p \in Procs, Crash(p)
    PROVE  Books'
<1> SUFFICES ASSUME NEW k \in Keys, NEW m \in Months
             PROVE  /\ Cardinality(Debt(k, m)') <= spent'[k][m] - monthly'[k][m]
                    /\ spent'[k][m] - monthly'[k][m]
                          <= Cardinality(Debt(k, m)') + Most(Costs) * faults'
  BY DEF Books
<1> DEFINE M == Most(Costs)
<1>1. /\ faults' = faults + 1 /\ spent' = spent /\ monthly' = monthly
      /\ \A r \in Requests : request'[r] = IF request[r] # NoRequest /\ request[r].proc = p
                                           THEN NoRequest ELSE request[r]
  BY DEF Crash, storeVars
<1>2. /\ Cardinality(Debt(k, m)) <= spent[k][m] - monthly[k][m]
      /\ spent[k][m] - monthly[k][m] <= Cardinality(Debt(k, m)) + M * faults
  BY DEF Books
<1>3. /\ spent[k][m] \in Nat /\ monthly[k][m] \in Nat /\ M \in Nat /\ faults \in Nat
      /\ M * faults \in Nat /\ M * (faults + 1) = M * faults + M
  BY MostCosts, MeteringAssumption DEF Types
<1>4. \A s \in Requests : s \in Halves(k, m)' <=> s \in Halves(k, m) /\ request[s].proc # p
  BY <1>1 DEF Halves
<1>5. \A s \in Requests : s \in Halves(k, m)' => request'[s] = request[s]
  BY <1>1 DEF Halves
<1>6. Debt(k, m)' \in SUBSET Debt(k, m)
  <2>1. \A s \in Requests, i \in 1..M : <<s, i>> \in Debt(k, m)' => <<s, i>> \in Debt(k, m)
    BY <1>4, <1>5, DebtElements, DebtElementsNext
  <2> QED
    BY <2>1, DebtElements, DebtElementsNext
<1>7. \E r : Debt(k, m) \subseteq Debt(k, m)' \cup ({r} \X (1..M))
  <2>1. \E r : \A s \in Halves(k, m) : request[s].proc = p => s = r
    <3>1. CASE \E r \in Halves(k, m) : request[r].proc = p
      BY <3>1 DEF OneHalf, Half, Halves
    <3>2. CASE ~\E r \in Halves(k, m) : request[r].proc = p
      BY <3>2
    <3> QED
      BY <3>1, <3>2
  <2>2. PICK r : \A s \in Halves(k, m) : request[s].proc = p => s = r
    BY <2>1
  <2>3. \A s \in Requests, i \in 1..M :
           <<s, i>> \in Debt(k, m) => <<s, i>> \in Debt(k, m)' \/ s = r
    BY <1>4, <1>5, <2>2, DebtElements, DebtElementsNext
  <2>4. Debt(k, m) \subseteq Debt(k, m)' \cup ({r} \X (1..M))
    BY <2>3, DebtElements
  <2> QED
    BY <2>4
<1>8. PICK r : Debt(k, m) \subseteq Debt(k, m)' \cup ({r} \X (1..M))
  BY <1>7
<1> DEFINE D == Debt(k, m)
           E == Debt(k, m)'
           row == {r} \X (1..M)
<1>9. /\ IsFiniteSet(D) /\ IsFiniteSet(E) /\ Cardinality(D) \in Nat /\ Cardinality(E) \in Nat
      /\ IsFiniteSet(row) /\ Cardinality(row) = M
  BY <1>3, DebtElements, DebtElementsNext, DebtFinite, RowFinite
<1>10. Cardinality(E) <= Cardinality(D) /\ Cardinality(D) <= Cardinality(E) + M
  <2>1. D \subseteq E \cup row /\ E \in SUBSET D
    BY <1>6, <1>8
  <2> HIDE DEF D, E, row, M
  <2>2. IsFiniteSet(E \cup row)
        /\ Cardinality(E \cup row) = Cardinality(E) + Cardinality(row) - Cardinality(E \cap row)
    BY <1>9, FS_Union
  <2>3. Cardinality(E \cap row) \in Nat /\ Cardinality(E \cup row) \in Nat
    BY <1>9, <2>2, FS_Intersection, FS_CardinalityType
  <2>4. Cardinality(D) <= Cardinality(E \cup row) /\ Cardinality(E) <= Cardinality(D)
    BY <1>9, <2>1, <2>2, FS_Subset
  <2> QED
    BY <1>3, <1>9, <2>2, <2>3, <2>4
<1>11. /\ Cardinality(E) <= spent[k][m] - monthly[k][m]
       /\ spent[k][m] - monthly[k][m] <= Cardinality(E) + M * (faults + 1)
  <2>1. Cardinality(D) <= spent[k][m] - monthly[k][m]
        /\ spent[k][m] - monthly[k][m] <= Cardinality(D) + M * faults
    BY <1>2
  <2> HIDE DEF D, E, M
  <2> QED
    BY <1>3, <1>9, <1>10, <2>1
<1> QED
  BY <1>1, <1>11

\* record_usage: a month is never ahead of its days, and behind them only by
\* requests between their two increments and by one request per crash or
\* failure of the store, for any number of processes, costs, days and faults.
THEOREM MonthsAgree == Spec => []MonthAgrees
<1>1. Init => Books
  <2> SUFFICES ASSUME Init, NEW k \in Keys, NEW m \in Months
               PROVE  /\ Cardinality(Debt(k, m)) <= spent[k][m] - monthly[k][m]
                      /\ spent[k][m] - monthly[k][m] <= Cardinality(Debt(k, m)) + Most(Costs) * faults
    BY DEF Books
  <2>1. Halves(k, m) = {}
    BY DEF Init, Halves
  <2>2. Debt(k, m) = {}
    BY <2>1, DebtElements
  <2>3. Most(Costs) * 0 = 0
    BY MostCosts
  <2> QED
    BY <2>2, <2>3, FS_EmptySet DEF Init
<1>2. TypeOK /\ TypeOK' /\ Types /\ Types' /\ Books /\ [Next]_vars => Books'
  <2> SUFFICES ASSUME TypeOK, Types, Types', Books, [Next]_vars PROVE Books'
    OBVIOUS
  <2>1. CASE UNCHANGED <<spent, monthly, faults, request>>
    BY <2>1, BooksKept DEF Half
  <2>2. ASSUME NEW r \in Requests, NEW p \in Procs, NEW k \in Keys, NEW kind \in Kinds,
               Admit(r, p, k, kind)
        PROVE  Books'
    <3>1. /\ UNCHANGED <<spent, monthly, faults>>
          /\ request[r] = NoRequest /\ request'[r].half = << >>
          /\ \A s \in Requests : s # r => request'[s] = request[s]
      BY <2>2 DEF Admit, storeVars, Types
    <3> QED
      BY <3>1, BooksKept DEF Half
  <2>3. ASSUME NEW r \in Requests, EndUnrecorded(r) PROVE Books'
    <3>1. /\ UNCHANGED <<spent, monthly, faults>>
          /\ request[r].half = << >> /\ request'[r] = NoRequest
          /\ \A s \in Requests : s # r => request'[s] = request[s]
      BY <2>3 DEF EndUnrecorded, storeVars, historyVars, Types
    <3> QED
      BY <3>1, BooksKept DEF Half
  <2>4. ASSUME NEW p \in Procs, Crash(p) PROVE Books'
    BY <2>4, CrashBooks, TypeParts
  <2> QED
    BY <2>1, <2>2, <2>3, <2>4, RecordDayBooks, RecordMonthBooks, LoseDayBooks
    DEF Next, vars, storeVars, historyVars, Refuse, AdminRegister, AdminRevoke, Bootstrap, Tick,
        NextDay
<1>3. Types /\ Books => MonthAgrees
  <2> SUFFICES ASSUME Types, Books, NEW k \in Keys, NEW m \in Months
               PROVE  LET behind == spent[k][m] - monthly[k][m]
                      IN  /\ 0 <= behind
                          /\ behind <= Most(Costs) * (Cardinality(Halves(k, m)) + faults)
    BY DEF MonthAgrees
  <2> DEFINE M == Most(Costs)
             H == Halves(k, m)
             D == Debt(k, m)
  <2>1. H \in SUBSET Requests
    BY DEF Halves
  <2>2. IsFiniteSet(H) /\ Cardinality(H) \in Nat
    BY <2>1, FS_Subset, FS_CardinalityType, MeteringAssumption
  <2>3. D \in SUBSET (H \X (1..M))
    BY DebtElements
  <2>4. M \in Nat /\ faults \in Nat
    BY MostCosts DEF Types
  <2>5. IsFiniteSet(H \X (1..M)) /\ Cardinality(H \X (1..M)) = M * Cardinality(H)
    BY <2>2, <2>4, GridFinite
  <2>6. Cardinality(D) \in Nat /\ Cardinality(D) <= M * Cardinality(H)
    <3> HIDE DEF D, H, M
    <3> QED
      BY <2>3, <2>5, FS_Subset, FS_CardinalityType
  <2>7. M * (Cardinality(H) + faults) = M * Cardinality(H) + M * faults
        /\ M * faults \in Nat /\ M * Cardinality(H) \in Nat
    <3> HIDE DEF H, M
    <3> QED
      BY <2>2, <2>4
  <2>8. Cardinality(D) <= spent[k][m] - monthly[k][m]
        /\ spent[k][m] - monthly[k][m] <= Cardinality(D) + M * faults
    BY DEF Books
  <2>9. spent[k][m] \in Nat /\ monthly[k][m] \in Nat
    BY DEF Types
  <2>10. /\ 0 <= spent[k][m] - monthly[k][m]
         /\ spent[k][m] - monthly[k][m] <= M * (Cardinality(H) + faults)
    <3> HIDE DEF D, H, M
    <3> QED
      BY <2>6, <2>7, <2>8, <2>9
  <2> QED
    BY <2>10
<1> QED
  BY <1>1, <1>2, <1>3, TypesHold, TypeCorrect, PTL DEF Spec
=============================================================================
