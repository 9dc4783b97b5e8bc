------------------------- MODULE RateLimiterProofs -------------------------
(***************************************************************************)
(* RateLimiter for every set of keys and limits.  The argument: at its     *)
(* last refill a bucket's level sums up its admissions from above (Upper,  *)
(* by the largest burst and rate) and from below (Lower, by the smallest); *)
(* a refill keeps both, an admission moves one token from the level to the *)
(* history.                                                                *)
(***************************************************************************)
EXTENDS RateLimiter, TLAPS

-----------------------------------------------------------------------------
(* The invariant *)

\* Admissions a, with level t at the refill of time r, seen from above.
Upper(a, t, r) ==
    \A i \in DOMAIN a :
        /\ a[i] <= r
        /\ (Len(a) - i + 1) * Minute + t <= MostBurst * Minute + MostRate * (r - a[i])

\* And from below.
Lower(a, t, r) ==
    \/ t >= LeastBurst * Minute
    \/ \E i \in DOMAIN a :
          t + (Len(a) - i + 1) * Minute >= LeastBurst * Minute + LeastRate * (r - a[i])

BucketOK(a, t, r) ==
    /\ t <= MostBurst * Minute
    /\ Upper(a, t, r)
    /\ Lower(a, t, r)

\* No more than the bound between any two admissions.
Spaced(a) ==
    \A i, j \in DOMAIN a : i <= j =>
        (j - i + 1) * Minute <= MostBurst * Minute + MostRate * (a[j] - a[i])

KeyOK(k) ==
    /\ refilled[k] <= now
    /\ HasBucket(k) => BucketOK(admitted[k], tokens[k], refilled[k])
    /\ Spaced(admitted[k])

IInv == TypeOK /\ \A k \in Keys : KeyOK(k)

-----------------------------------------------------------------------------
(* Arithmetic of one bucket *)

\* A product distributes over a sum of times.
LEMMA RateSum ==
    ASSUME NEW r \in Int, NEW x \in Int, NEW d \in Int
    PROVE  r * (x + d) = r * x + r * d
  BY SMT

\* A slower rate refills less.
LEMMA RateOrder ==
    ASSUME NEW p \in Nat, NEW q \in Nat, NEW d \in Nat, p <= q
    PROVE  d * p <= q * d
  BY SMT

\* A product of naturals is a natural.
LEMMA ProductNat ==
    ASSUME NEW p \in Nat, NEW q \in Nat
    PROVE  p * q \in Nat
  BY SMT

\* More tokens are more units.
LEMMA UnitsOrder ==
    ASSUME NEW p \in Nat, NEW q \in Nat, p <= q
    PROVE  p * Minute <= q * Minute
  BY LimitsAssumption, SMT

\* What TypeOK says of the buckets, without the bound on the levels.
LEMMA NatLevels ==
    ASSUME TypeOK
    PROVE  /\ MostBurst * Minute \in Nat
           /\ now \in Nat
           /\ \A k \in Keys : /\ tokens[k] \in Nat
                             /\ tokens[k] <= MostBurst * Minute
                             /\ refilled[k] \in Nat /\ refilled[k] <= now
  <1> DEFINE m == MostBurst * Minute
  <1>1. m \in Nat
    BY LimitsAssumption, ProductNat
  <1>2. tokens \in [Keys -> 0..m] /\ refilled \in [Keys -> 0..now] /\ now \in Nat
    BY DEF TypeOK
  <1> HIDE DEF m
  <1>3. \A k \in Keys : /\ tokens[k] \in Nat /\ tokens[k] <= m
                        /\ refilled[k] \in Nat /\ refilled[k] <= now
    BY <1>1, <1>2
  <1> QED  BY <1>1, <1>2, <1>3 DEF m

\* The level after a refill is a natural number between the two bounds.
LEMMA LevelBounds ==
    ASSUME TypeOK, NEW k \in Keys, RateEnabled(limits), refilled[k] <= now
    PROVE  /\ Level(k) \in Nat
           /\ Level(k) <= MostBurst * Minute
           /\ Level(k) <= tokens[k] + MostRate * (now - refilled[k])
           /\ \/ Level(k) >= LeastBurst * Minute
              \/ Level(k) >= tokens[k] + LeastRate * (now - refilled[k])
  <1> DEFINE c == Capacity(limits)
             p == limits.perMinute
             d == now - refilled[k]
  <1>1. /\ c \in Nat /\ LeastBurst <= c /\ c <= MostBurst
        /\ p \in Nat /\ LeastRate <= p /\ p <= MostRate
    BY LimitsAssumption DEF TypeOK, Capacity
  <1>2. d \in Nat /\ tokens[k] \in Nat
    BY NatLevels DEF TypeOK
  <1>3. /\ LeastBurst * Minute <= c * Minute /\ c * Minute <= MostBurst * Minute
        /\ c * Minute \in Nat /\ LeastBurst * Minute \in Nat /\ MostBurst * Minute \in Nat
    BY <1>1, UnitsOrder, ProductNat, LimitsAssumption
  <1>4. d * p \in Nat /\ d * p <= MostRate * d /\ MostRate * d \in Nat
    BY <1>1, <1>2, RateOrder, ProductNat, LimitsAssumption
  <1>5. d * LeastRate <= p * d /\ d * LeastRate = LeastRate * d /\ d * p = p * d
    BY <1>1, <1>2, RateOrder, LimitsAssumption, SMT
  <1>6. Level(k) = Least2(c * Minute, tokens[k] + d * p)
    BY DEF Level
  <1> HIDE DEF c, p, d
  <1> DEFINE cm == c * Minute
             dp == d * p
             lb == LeastBurst * Minute
             mb == MostBurst * Minute
             ld == LeastRate * d
             md == MostRate * d
  <1>7. /\ lb <= cm /\ cm <= mb /\ cm \in Nat /\ lb \in Nat /\ mb \in Nat
        /\ dp \in Nat /\ dp <= md /\ md \in Nat
        /\ ld <= dp /\ ld \in Nat
    BY <1>1, <1>2, <1>3, <1>4, <1>5, ProductNat, LimitsAssumption
  <1>8. Level(k) = Least2(cm, tokens[k] + dp)
    BY <1>6
  <1> HIDE DEF cm, dp, lb, mb, ld, md
  <1>9. /\ Level(k) \in Nat
        /\ Level(k) <= mb
        /\ Level(k) <= tokens[k] + md
        /\ Level(k) >= lb \/ Level(k) >= tokens[k] + ld
    BY <1>2, <1>7, <1>8 DEF Least2
  <1> QED
    BY <1>9 DEF lb, mb, ld, md, d

\* A refill keeps the books of a bucket.
LEMMA RefillOK ==
    ASSUME TypeOK, NEW k \in Keys, RateEnabled(limits), KeyOK(k), HasBucket(k)
    PROVE  BucketOK(admitted[k], Level(k), now)
  <1> DEFINE a == admitted[k]
             t == tokens[k]
             r == refilled[k]
             u == Level(k)
             d == now - r
  <1>1. /\ a \in Seq(Nat) /\ t \in Nat /\ r \in Nat /\ now \in Nat /\ r <= now
        /\ BucketOK(a, t, r)
    BY NatLevels DEF TypeOK, KeyOK
  <1>2. /\ u \in Nat /\ u <= MostBurst * Minute
        /\ u <= t + MostRate * d
        /\ u >= LeastBurst * Minute \/ u >= t + LeastRate * d
    BY <1>1, LevelBounds
  <1> HIDE DEF a, t, r, u
  <1>3. Upper(a, u, now)
    <2> SUFFICES ASSUME NEW i \in DOMAIN a
                 PROVE  /\ a[i] <= now
                        /\ (Len(a) - i + 1) * Minute + u
                              <= MostBurst * Minute + MostRate * (now - a[i])
      BY DEF Upper
    <2>1. /\ a[i] \in Nat /\ a[i] <= r /\ i \in Nat /\ i <= Len(a) /\ Len(a) \in Nat
          /\ (Len(a) - i + 1) * Minute + t <= MostBurst * Minute + MostRate * (r - a[i])
      BY <1>1 DEF BucketOK, Upper
    <2>2. MostRate * (now - a[i]) = MostRate * (r - a[i]) + MostRate * d
      <3>1. now - a[i] = (r - a[i]) + d
        BY <1>1, <2>1
      <3> QED  BY <3>1, <1>1, <2>1, RateSum, LimitsAssumption
    <2> DEFINE s == (Len(a) - i + 1) * Minute
               b == MostBurst * Minute
               x == MostRate * (r - a[i])
               y == MostRate * d
    <2>3. s \in Nat /\ b \in Nat /\ x \in Nat /\ y \in Nat
      <3>1. Len(a) - i + 1 \in Nat /\ r - a[i] \in Nat /\ d \in Nat
        BY <1>1, <2>1
      <3>2. Minute \in Nat /\ MostBurst \in Nat /\ MostRate \in Nat
        BY LimitsAssumption
      <3> QED  BY <3>1, <3>2, ProductNat
    <2>4. s + t <= b + x /\ u <= t + y
      BY <2>1, <1>2
    <2> HIDE DEF s, b, x, y, d
    <2>5. s + u <= b + (x + y)
      BY <2>3, <2>4, <1>1, <1>2
    <2> QED  BY <2>1, <2>2, <2>5, <1>1 DEF s, b, x, y
  <1>4. Lower(a, u, now)
    <2>1. CASE u >= LeastBurst * Minute
      BY <2>1 DEF Lower
    <2>2. CASE ~(u >= LeastBurst * Minute)
      <3>1. u >= t + LeastRate * d
        BY <2>2, <1>2
      <3>2. LeastRate * d \in Nat /\ LeastBurst * Minute \in Nat
        BY <1>1, ProductNat, LimitsAssumption
      <3>3. ~(t >= LeastBurst * Minute)
        <4> DEFINE y == LeastRate * d
                   b == LeastBurst * Minute
        <4>1. ~(u >= b) /\ u >= t + y /\ y \in Nat /\ b \in Nat
          BY <2>2, <3>1, <3>2
        <4> HIDE DEF y, b
        <4> QED  BY <4>1, <1>1, <1>2 DEF b
      <3>4. PICK i \in DOMAIN a :
               t + (Len(a) - i + 1) * Minute >= LeastBurst * Minute + LeastRate * (r - a[i])
        BY <1>1, <3>3 DEF BucketOK, Lower
      <3>5. a[i] \in Nat /\ a[i] <= r /\ i \in Nat /\ i <= Len(a) /\ Len(a) \in Nat
        BY <1>1, <3>4 DEF BucketOK, Upper
      <3>6. LeastRate * (now - a[i]) = LeastRate * (r - a[i]) + LeastRate * d
        <4>1. now - a[i] = (r - a[i]) + d
          BY <1>1, <3>5
        <4> QED  BY <4>1, <1>1, <3>5, RateSum, LimitsAssumption
      <3> DEFINE s == (Len(a) - i + 1) * Minute
                 b == LeastBurst * Minute
                 x == LeastRate * (r - a[i])
                 y == LeastRate * d
      <3>7. s \in Nat /\ b \in Nat /\ x \in Nat /\ y \in Nat
        <4>1. Len(a) - i + 1 \in Nat /\ r - a[i] \in Nat /\ d \in Nat
          BY <1>1, <3>5
        <4>2. Minute \in Nat /\ LeastBurst \in Nat /\ LeastRate \in Nat
          BY LimitsAssumption
        <4> QED  BY <4>1, <4>2, ProductNat
      <3>8. t + s >= b + x /\ u >= t + y
        BY <3>1, <3>4
      <3> HIDE DEF s, b, x, y, d
      <3>9. u + s >= b + (x + y)
        BY <3>7, <3>8, <1>1, <1>2
      <3> QED  BY <3>4, <3>6, <3>9 DEF s, b, x, y, Lower
    <2> QED  BY <2>1, <2>2
  <1> QED  BY <1>2, <1>3, <1>4 DEF BucketOK, a, u

\* The admission of one more request: a token moves from the level to the
\* history, and no window that ends with it is too full.
LEMMA AdmissionOK ==
    ASSUME NEW a \in Seq(Nat), NEW t \in Nat, NEW r \in Nat,
           Spaced(a), BucketOK(a, t, r), t >= Minute
    PROVE  /\ BucketOK(Append(a, r), t - Minute, r)
           /\ Spaced(Append(a, r))
  <1> DEFINE b == Append(a, r)
             n == Len(a)
  <1>1. /\ n \in Nat /\ Minute \in Nat /\ Minute > 0
        /\ MostBurst \in Nat /\ LeastBurst \in Nat /\ MostRate \in Nat /\ LeastRate \in Nat
    BY LimitsAssumption
  <1>2. /\ DOMAIN a = 1..n /\ DOMAIN b = 1..(n + 1) /\ Len(b) = n + 1
        /\ b[n + 1] = r /\ \A i \in 1..n : b[i] = a[i] /\ a[i] \in Nat
    OBVIOUS
  <1>3. MostRate * 0 = 0 /\ LeastRate * 0 = 0 /\ r - r = 0
    BY <1>1, SMT
  <1>4. ASSUME NEW i \in 1..n
        PROVE  /\ (n + 1 - i + 1) * Minute = (n - i + 1) * Minute + Minute
               /\ (n - i + 1) * Minute \in Nat
               /\ MostRate * (r - a[i]) \in Nat
               /\ a[i] <= r
               /\ (n - i + 1) * Minute + t <= MostBurst * Minute + MostRate * (r - a[i])
    <2>1. /\ a[i] <= r
          /\ (n - i + 1) * Minute + t <= MostBurst * Minute + MostRate * (r - a[i])
      BY <1>2 DEF BucketOK, Upper
    <2>2. n - i + 1 \in Nat /\ r - a[i] \in Nat
      BY <1>1, <1>2, <2>1
    <2>3. (n - i + 1) * Minute \in Nat /\ MostRate * (r - a[i]) \in Nat
      BY <1>1, <2>2, ProductNat
    <2>4. (n + 1 - i + 1) * Minute = (n - i + 1) * Minute + Minute
      <3>1. n + 1 - i + 1 = (n - i + 1) + 1
        BY <1>1
      <3>2. ((n - i + 1) + 1) * Minute = (n - i + 1) * Minute + Minute
        BY <1>1, <2>2, SMT
      <3> QED  BY <3>1, <3>2
    <2> QED  BY <2>1, <2>3, <2>4
  <1>5. /\ MostBurst * Minute \in Nat /\ LeastBurst * Minute \in Nat
        /\ t <= MostBurst * Minute
        /\ (n + 1 - (n + 1) + 1) * Minute = Minute
    BY <1>1, ProductNat DEF BucketOK
  <1>6. Upper(b, t - Minute, r)
    <2> SUFFICES ASSUME NEW i \in 1..(n + 1)
                 PROVE  /\ b[i] <= r
                        /\ (n + 1 - i + 1) * Minute + (t - Minute)
                              <= MostBurst * Minute + MostRate * (r - b[i])
      BY <1>2 DEF Upper
    <2>1. CASE i = n + 1
      BY <2>1, <1>1, <1>2, <1>3, <1>5
    <2>2. CASE i # n + 1
      <3>1. i \in 1..n /\ b[i] = a[i]
        BY <2>2, <1>1, <1>2
      <3> DEFINE s == (n - i + 1) * Minute
                 x == MostRate * (r - a[i])
                 m == MostBurst * Minute
                 s2 == (n + 1 - i + 1) * Minute
      <3>2. s2 = s + Minute /\ s \in Nat /\ x \in Nat /\ s + t <= m + x /\ m \in Nat /\ a[i] <= r
        BY <3>1, <1>4, <1>5
      <3> HIDE DEF s, x, m, s2
      <3>3. s2 + (t - Minute) <= m + x
        BY <3>2, <1>1
      <3> QED  BY <3>1, <3>2, <3>3 DEF s, x, m, s2
    <2> QED  BY <2>1, <2>2
  <1>7. Lower(b, t - Minute, r)
    <2>1. CASE t >= LeastBurst * Minute
      <3> DEFINE m == LeastBurst * Minute
      <3>1. m \in Nat /\ t >= m
        BY <2>1, <1>5
      <3> HIDE DEF m
      <3>2. (t - Minute) + Minute >= m + 0
        BY <3>1, <1>1
      <3>3. (t - Minute) + (n + 1 - (n + 1) + 1) * Minute
               >= LeastBurst * Minute + LeastRate * (r - b[n + 1])
        BY <3>2, <1>2, <1>3, <1>5 DEF m
      <3>4. n + 1 \in DOMAIN b
        BY <1>1, <1>2
      <3> QED  BY <3>3, <3>4, <1>2 DEF Lower
    <2>2. CASE ~(t >= LeastBurst * Minute)
      <3>1. PICK i \in DOMAIN a :
               t + (n - i + 1) * Minute >= LeastBurst * Minute + LeastRate * (r - a[i])
        BY <2>2 DEF BucketOK, Lower
      <3>2. i \in 1..n /\ i \in DOMAIN b /\ b[i] = a[i]
        BY <3>1, <1>1, <1>2
      <3> DEFINE s == (n - i + 1) * Minute
                 x == LeastRate * (r - a[i])
                 m == LeastBurst * Minute
                 s2 == (n + 1 - i + 1) * Minute
      <3>3. LeastRate * (r - a[i]) \in Nat
        <4>1. r - a[i] \in Nat
          BY <3>2, <1>2, <1>4
        <4> QED  BY <4>1, <1>1, ProductNat
      <3>4. s2 = s + Minute /\ s \in Nat /\ x \in Nat /\ t + s >= m + x /\ m \in Nat
        BY <3>1, <3>2, <3>3, <1>4, <1>5
      <3> HIDE DEF s, x, m, s2
      <3>5. (t - Minute) + s2 >= m + x
        BY <3>4, <1>1
      <3>6. (t - Minute) + (Len(b) - i + 1) * Minute
               >= LeastBurst * Minute + LeastRate * (r - b[i])
        BY <3>5, <3>2, <1>2 DEF s, x, m, s2
      <3> QED  BY <3>2, <3>6 DEF Lower
    <2> QED  BY <2>1, <2>2
  <1>8. Spaced(b)
    <2> SUFFICES ASSUME NEW i \in 1..(n + 1), NEW j \in 1..(n + 1), i <= j
                 PROVE  (j - i + 1) * Minute
                           <= MostBurst * Minute + MostRate * (b[j] - b[i])
      BY <1>2 DEF Spaced
    <2>1. CASE j # n + 1
      <3>1. i \in DOMAIN a /\ j \in DOMAIN a /\ b[i] = a[i] /\ b[j] = a[j]
        BY <2>1, <1>1, <1>2
      <3>2. (j - i + 1) * Minute <= MostBurst * Minute + MostRate * (a[j] - a[i])
        BY <3>1 DEF Spaced
      <3> QED  BY <3>1, <3>2
    <2>2. CASE j = n + 1 /\ i = n + 1
      <3>1. (j - i + 1) * Minute = Minute /\ b[j] - b[i] = 0
        BY <2>2, <1>1, <1>2
      <3>2. Minute <= MostBurst * Minute + 0
        BY <1>1, <1>5
      <3> QED  BY <3>1, <3>2, <1>3
    <2>3. CASE j = n + 1 /\ i # n + 1
      <3>1. i \in 1..n /\ b[i] = a[i] /\ b[j] = r
        BY <2>3, <1>1, <1>2
      <3> DEFINE s == (n - i + 1) * Minute
                 x == MostRate * (r - a[i])
                 m == MostBurst * Minute
                 s2 == (n + 1 - i + 1) * Minute
      <3>2. s2 = s + Minute /\ s \in Nat /\ x \in Nat /\ s + t <= m + x /\ m \in Nat
        BY <3>1, <1>4, <1>5
      <3> HIDE DEF s, x, m, s2
      <3>3. s2 <= m + x
        BY <3>2, <1>1
      <3> QED  BY <2>3, <3>1, <3>3 DEF s, x, m, s2
    <2> QED  BY <2>1, <2>2, <2>3
  <1>9. t - Minute <= MostBurst * Minute
    BY <1>1, <1>5
  <1> QED  BY <1>6, <1>7, <1>8, <1>9 DEF BucketOK

\* A first request fills the bucket but for itself.
LEMMA FirstOK ==
    ASSUME TypeOK, RateEnabled(limits)
    PROVE  /\ (Capacity(limits) - 1) * Minute \in Nat
           /\ BucketOK(<<now>>, (Capacity(limits) - 1) * Minute, now)
           /\ Spaced(<<now>>)
  <1> DEFINE c == Capacity(limits)
             t == (c - 1) * Minute
             m == MostBurst * Minute
             l == LeastBurst * Minute
             cm == c * Minute
  <1>1. /\ c \in Nat /\ LeastBurst <= c /\ c <= MostBurst /\ LeastBurst \in Nat \ {0}
        /\ now \in Nat /\ MostBurst \in Nat /\ MostRate \in Nat /\ LeastRate \in Nat
        /\ Minute \in Nat \ {0}
    BY LimitsAssumption DEF TypeOK, Capacity
  <1> HIDE DEF c
  <1>2. t + Minute = cm /\ c - 1 \in Nat
    BY <1>1, SMT
  <1>3. t \in Nat /\ m \in Nat /\ l \in Nat /\ cm \in Nat /\ cm <= m /\ l <= cm
    BY <1>1, <1>2, ProductNat, UnitsOrder
  <1>4. /\ MostRate * (now - now) = 0 /\ LeastRate * (now - now) = 0
        /\ (1 - 1 + 1) * Minute = Minute
    <2>1. now - now = 0 /\ 1 - 1 + 1 = 1 /\ MostRate * 0 = 0 /\ LeastRate * 0 = 0
      BY <1>1, SMT
    <2> QED  BY <2>1, <1>1
  <1>5. DOMAIN <<now>> = {1} /\ Len(<<now>>) = 1 /\ <<now>>[1] = now
    BY <1>1
  <1> HIDE DEF t, m, l, cm
  <1>6. t <= m /\ Minute + t <= m + 0 /\ t + Minute >= l + 0 /\ Minute <= m + 0
    BY <1>1, <1>2, <1>3
  <1>7. Upper(<<now>>, t, now)
    BY <1>1, <1>4, <1>5, <1>6 DEF Upper, m
  <1>8. Lower(<<now>>, t, now)
    BY <1>1, <1>4, <1>5, <1>6 DEF Lower, l
  <1>9. Spaced(<<now>>)
    <2>1. \A i, j \in DOMAIN <<now>> : i = 1 /\ j = 1
      BY <1>5
    <2>2. (1 - 1 + 1) * Minute <= MostBurst * Minute + MostRate * (<<now>>[1] - <<now>>[1])
      BY <1>4, <1>5, <1>6 DEF m
    <2> QED  BY <2>1, <2>2 DEF Spaced
  <1> QED
    BY <1>3, <1>6, <1>7, <1>8, <1>9 DEF BucketOK, t, m, c

-----------------------------------------------------------------------------
(* The steps *)

\* What a step does not touch stays well kept, whatever the limits and the time.
LEMMA OthersOK ==
    ASSUME IInv, now' \in Nat, now <= now',
           NEW k \in Keys,
           tokens'[k] = tokens[k], refilled'[k] = refilled[k],
           admitted'[k] = admitted[k]
    PROVE  KeyOK(k)'
  <1>1. KeyOK(k) /\ TypeOK
    BY DEF IInv
  <1>2. refilled'[k] <= now'
    BY <1>1, NatLevels DEF KeyOK
  <1>3. (HasBucket(k) => BucketOK(admitted[k], tokens[k], refilled[k]))'
    BY <1>1 DEF KeyOK, HasBucket, BucketOK, Upper, Lower
  <1>4. Spaced(admitted[k])'
    BY <1>1 DEF KeyOK, Spaced
  <1> QED  BY <1>2, <1>3, <1>4 DEF KeyOK

\* A key whose request is checked: its new books follow from the lemmas above.
LEMMA CheckedOK ==
    ASSUME IInv, NEW k \in Keys, NEW t \in Nat, NEW a \in Seq(Nat),
           tokens' = [tokens EXCEPT ![k] = t],
           refilled' = [refilled EXCEPT ![k] = now],
           admitted' = [admitted EXCEPT ![k] = a],
           UNCHANGED <<limits, now, slotVars>>,
           BucketOK(a, t, now), Spaced(a)
    PROVE  IInv'
  <1>1. TypeOK /\ now \in Nat
    BY DEF IInv, TypeOK
  <1>2. TypeOK'
    <2> DEFINE m == MostBurst * Minute
    <2>1. tokens \in [Keys -> 0..m] /\ refilled \in [Keys -> 0..now] /\ m \in Nat
      BY <1>1, NatLevels DEF TypeOK
    <2>2. t <= m
      BY DEF BucketOK
    <2> HIDE DEF m
    <2>3. tokens' \in [Keys -> 0..m] /\ refilled' \in [Keys -> 0..now]
      BY <1>1, <2>1, <2>2
    <2>4. tokens' \in [Keys -> 0..(MostBurst * Minute)] /\ refilled' \in [Keys -> 0..now']
      BY <2>3 DEF m
    <2>5. /\ limits' \in Limits /\ now' \in Nat
          /\ admitted' \in [Keys -> Seq(Nat)]
          /\ inflight' \in [Keys -> Nat] /\ held' \in [Keys -> Nat]
          /\ uncounted' \in [Keys -> BOOLEAN] /\ leaked' \in [Keys -> BOOLEAN]
      BY <1>1 DEF TypeOK, slotVars
    <2> QED  BY <2>4, <2>5 DEF TypeOK
  <1>3. ASSUME NEW l \in Keys PROVE KeyOK(l)'
    <2>1. CASE l = k
      <3>1. tokens'[k] = t /\ refilled'[k] = now /\ admitted'[k] = a /\ now' = now
        BY <1>1 DEF TypeOK
      <3>2. refilled'[k] <= now'
        BY <3>1, <1>1
      <3>3. BucketOK(admitted'[k], tokens'[k], refilled'[k])
        BY <3>1
      <3>4. Spaced(admitted'[k])
        BY <3>1
      <3>5. BucketOK(admitted[k], tokens[k], refilled[k])'
        BY <3>3 DEF BucketOK, Upper, Lower
      <3>6. Spaced(admitted[k])'
        BY <3>4 DEF Spaced
      <3> QED  BY <2>1, <3>2, <3>5, <3>6 DEF KeyOK
    <2>2. CASE l # k
      <3>1. /\ tokens'[l] = tokens[l] /\ refilled'[l] = refilled[l]
            /\ admitted'[l] = admitted[l] /\ now' = now
        BY <1>1, <2>2 DEF TypeOK
      <3>2. now' \in Nat /\ now <= now'
        BY <3>1, <1>1
      <3> QED  BY <3>1, <3>2, OthersOK
    <2> QED  BY <2>1, <2>2
  <1> QED  BY <1>2, <1>3 DEF IInv

\* The invariant holds at the start: no key has a bucket.
LEMMA InitOK == Init => IInv
  <1> SUFFICES ASSUME Init PROVE IInv
    OBVIOUS
  <1>1. TypeOK
    <2>1. MostBurst * Minute \in Nat
      BY LimitsAssumption, ProductNat
    <2> DEFINE m == MostBurst * Minute
    <2>2. tokens \in [Keys -> 0..m]
      <3> HIDE DEF m
      <3>1. m \in Nat
        BY <2>1 DEF m
      <3> QED  BY <3>1 DEF Init
    <2> QED  BY <2>2 DEF Init, TypeOK
  <1>2. ASSUME NEW k \in Keys PROVE KeyOK(k)
    BY DEF Init, KeyOK, HasBucket, Spaced
  <1> QED  BY <1>1, <1>2 DEF IInv

\* Every step preserves the invariant.
LEMMA StepOK == IInv /\ [Next]_vars => IInv'
  <1> SUFFICES ASSUME IInv, [Next]_vars PROVE IInv'
    OBVIOUS
  <1>0. TypeOK /\ \A k \in Keys : KeyOK(k)
    BY DEF IInv
  <1>1. ASSUME NEW k \in Keys, FirstCheck(k) PROVE IInv'
    <2> DEFINE t == (Capacity(limits) - 1) * Minute
    <2>1. Append(admitted[k], now) = <<now>> /\ <<now>> \in Seq(Nat)
      BY <1>0, <1>1 DEF FirstCheck, HasBucket, TypeOK
    <2>2. t \in Nat /\ BucketOK(<<now>>, t, now) /\ Spaced(<<now>>)
      BY <1>0, <1>1, FirstOK DEF FirstCheck
    <2>3. /\ tokens' = [tokens EXCEPT ![k] = t]
          /\ refilled' = [refilled EXCEPT ![k] = now]
          /\ admitted' = [admitted EXCEPT ![k] = <<now>>]
          /\ UNCHANGED <<limits, now, slotVars>>
      BY <1>1, <2>1 DEF FirstCheck
    <2> HIDE DEF t
    <2> QED  BY <2>1, <2>2, <2>3, CheckedOK
  <1>2. ASSUME NEW k \in Keys, Admit(k) PROVE IInv'
    <2> DEFINE u == Level(k)
               a == admitted[k]
    <2>1. u \in Nat /\ u >= Minute /\ a \in Seq(Nat) /\ now \in Nat /\ Minute \in Nat
      BY <1>0, <1>2, LevelBounds, LimitsAssumption DEF Admit, KeyOK, TypeOK
    <2>2. BucketOK(a, u, now) /\ Spaced(a)
      BY <1>0, <1>2, RefillOK DEF Admit, KeyOK
    <2>3. BucketOK(Append(a, now), u - Minute, now) /\ Spaced(Append(a, now))
      BY <2>1, <2>2, AdmissionOK
    <2>4. /\ tokens' = [tokens EXCEPT ![k] = u - Minute]
          /\ refilled' = [refilled EXCEPT ![k] = now]
          /\ admitted' = [admitted EXCEPT ![k] = Append(a, now)]
          /\ UNCHANGED <<limits, now, slotVars>>
      BY <1>2 DEF Admit
    <2> HIDE DEF u, a
    <2>5. u - Minute \in Nat /\ Append(a, now) \in Seq(Nat)
      BY <2>1
    <2> QED  BY <2>3, <2>4, <2>5, CheckedOK
  <1>3. ASSUME NEW k \in Keys, Refuse(k) PROVE IInv'
    <2> DEFINE u == Level(k)
               a == admitted[k]
    <2>1. u \in Nat /\ a \in Seq(Nat)
      BY <1>0, <1>3, LevelBounds DEF Refuse, KeyOK, TypeOK
    <2>2. BucketOK(a, u, now) /\ Spaced(a)
      BY <1>0, <1>3, RefillOK DEF Refuse, KeyOK
    <2>3. /\ tokens' = [tokens EXCEPT ![k] = u]
          /\ refilled' = [refilled EXCEPT ![k] = now]
          /\ admitted' = [admitted EXCEPT ![k] = a]
          /\ UNCHANGED <<limits, now, slotVars>>
      BY <1>0, <1>3 DEF Refuse, TypeOK
    <2> HIDE DEF u, a
    <2> QED  BY <2>1, <2>2, <2>3, CheckedOK
  <1>4. ASSUME TypeOK', now <= now', UNCHANGED bucketVars PROVE IInv'
    <2>1. ASSUME NEW k \in Keys PROVE KeyOK(k)'
      <3>1. /\ tokens'[k] = tokens[k] /\ refilled'[k] = refilled[k]
            /\ admitted'[k] = admitted[k] /\ now' \in Nat
        BY <1>4 DEF bucketVars, TypeOK
      <3> QED  BY <1>4, <3>1, OthersOK
    <2> QED  BY <1>4, <2>1 DEF IInv
  <1>5. ASSUME NEW k \in Keys, TryAcquire(k) \/ Release(k) PROVE IInv'
    <2>1. UNCHANGED <<limits, now, bucketVars>>
      BY <1>5 DEF TryAcquire, Release
    <2>2. /\ held' \in [Keys -> Nat] /\ inflight' \in [Keys -> Nat]
          /\ uncounted' \in [Keys -> BOOLEAN] /\ leaked' \in [Keys -> BOOLEAN]
      <3>1. CASE TryAcquire(k)
        BY <1>0, <3>1 DEF TryAcquire, TypeOK
      <3>2. CASE Release(k)
        <4>1. held[k] - 1 \in Nat
          BY <1>0, <3>2 DEF Release, TypeOK
        <4>2. (IF ConcurrencyEnabled(limits) /\ inflight[k] > 0
               THEN inflight[k] - 1 ELSE inflight[k]) \in Nat
          BY <1>0 DEF TypeOK
        <4> QED  BY <1>0, <3>2, <4>1, <4>2 DEF Release, TypeOK
      <3> QED  BY <1>5, <3>1, <3>2
    <2>3. TypeOK' /\ now <= now'
      BY <1>0, <2>1, <2>2 DEF TypeOK, bucketVars
    <2> QED  BY <1>4, <2>1, <2>3
  <1>6. ASSUME NEW l \in Limits, Reconfigure(l) PROVE IInv'
    <2>1. TypeOK' /\ now <= now' /\ UNCHANGED bucketVars
      BY <1>0, <1>6 DEF Reconfigure, TypeOK, bucketVars, slotVars
    <2> QED  BY <1>4, <2>1
  <1>7. CASE Tick
    <2>1. now' = now + 1 /\ UNCHANGED <<limits, bucketVars, slotVars>>
      BY <1>7 DEF Tick
    <2>2. refilled' \in [Keys -> 0..now'] /\ now <= now' /\ now' \in Nat
      BY <1>0, <2>1 DEF TypeOK, bucketVars
    <2>3. TypeOK' /\ UNCHANGED bucketVars
      BY <1>0, <2>1, <2>2 DEF TypeOK, bucketVars, slotVars
    <2> QED  BY <1>4, <2>2, <2>3
  <1>8. CASE UNCHANGED vars
    <2>1. TypeOK' /\ now <= now' /\ UNCHANGED bucketVars
      BY <1>0, <1>8 DEF vars, TypeOK, bucketVars
    <2> QED  BY <1>4, <2>1
  <1> QED
    BY <1>1, <1>2, <1>3, <1>5, <1>6, <1>7, <1>8 DEF Next

-----------------------------------------------------------------------------
(* Theorems *)

\* The inductive invariant holds in every state.
THEOREM BucketsKept == Spec => []IInv
  BY InitOK, StepOK, PTL DEF Spec

\* No bucket goes below zero or above the largest capacity, and no refill is
\* dated in the future.
THEOREM LimiterTypeCorrect == Spec => []TypeOK
  <1>1. IInv => TypeOK
    BY DEF IInv
  <1> QED  BY <1>1, BucketsKept, PTL

\* No window of time lets in more than the largest burst and rate allow.
THEOREM BurstBounded == Spec => []BurstBound
  <1>1. IInv => BurstBound
    BY DEF IInv, KeyOK, Spaced, BurstBound
  <1> QED  BY <1>1, BucketsKept, PTL

\* A refused request would have exceeded the smallest burst and rate.
THEOREM RefusalsNeeded == Spec => NoNeedlessRefusal
  <1>1. IInv /\ [Next]_vars =>
           [\A k \in Keys : Refuse(k) =>
              \E i \in DOMAIN admitted[k] :
                 (Since(k, i) + 1) * Minute
                    > LeastBurst * Minute + LeastRate * (now - admitted[k][i])]_vars
    <2> SUFFICES ASSUME IInv, NEW k \in Keys, Refuse(k)
                 PROVE  \E i \in DOMAIN admitted[k] :
                           (Since(k, i) + 1) * Minute
                              > LeastBurst * Minute + LeastRate * (now - admitted[k][i])
      OBVIOUS
    <2> DEFINE u == Level(k)
               a == admitted[k]
    <2>0. TypeOK /\ KeyOK(k) /\ RateEnabled(limits) /\ HasBucket(k) /\ u < Minute
      BY DEF IInv, Refuse
    <2>1. BucketOK(a, u, now) /\ u \in Nat /\ a \in Seq(Nat) /\ now \in Nat
      BY <2>0, RefillOK, LevelBounds DEF KeyOK, TypeOK
    <2>2. Minute \in Nat /\ LeastBurst \in Nat /\ 1 <= LeastBurst /\ LeastRate \in Nat
      BY LimitsAssumption
    <2>3. ~(u >= LeastBurst * Minute)
      <3>1. 1 * Minute <= LeastBurst * Minute /\ 1 * Minute = Minute
        BY <2>2, UnitsOrder
      <3>2. LeastBurst * Minute \in Nat
        BY <2>2, ProductNat
      <3> QED  BY <2>0, <2>1, <2>2, <3>1, <3>2
    <2>4. PICK i \in DOMAIN a :
             u + (Len(a) - i + 1) * Minute >= LeastBurst * Minute + LeastRate * (now - a[i])
      BY <2>1, <2>3 DEF BucketOK, Lower
    <2>5. Len(a) \in Nat /\ i \in Nat /\ i <= Len(a) /\ a[i] \in Nat /\ a[i] <= now
      BY <2>1, <2>4 DEF BucketOK, Upper
    <2> DEFINE s == (Len(a) - i + 1) * Minute
               m == LeastBurst * Minute
               x == LeastRate * (now - a[i])
               s2 == (Since(k, i) + 1) * Minute
    <2>6. s2 = s + Minute
      <3>1. Since(k, i) = Len(a) - i + 1 /\ Len(a) - i + 1 \in Nat
        BY <2>5 DEF Since
      <3>2. ((Len(a) - i + 1) + 1) * Minute = (Len(a) - i + 1) * Minute + Minute
        BY <3>1, <2>2, SMT
      <3> QED  BY <3>1, <3>2
    <2>7. s \in Nat /\ m \in Nat /\ x \in Nat /\ u + s >= m + x
      <3>1. Len(a) - i + 1 \in Nat /\ now - a[i] \in Nat
        BY <2>1, <2>5
      <3> QED  BY <3>1, <2>2, <2>4, ProductNat
    <2> HIDE DEF s, m, x, s2, u
    <2>8. s2 > m + x
      BY <2>0, <2>1, <2>2, <2>6, <2>7
    <2> QED  BY <2>4, <2>8 DEF s2, m, x
  <1> QED  BY <1>1, BucketsKept, PTL DEF Spec, NoNeedlessRefusal

-----------------------------------------------------------------------------
(* Slots *)

\* The counter of a key counts its holders across all changes of the limit,
\* but for the slots acquired or released while it was off.
THEOREM SlotsCounted == Spec => []SlotsMatchHolders
  <1> DEFINE Inv == TypeOK /\ SlotsMatchHolders
  <1>1. Init => Inv
    BY InitOK DEF IInv, Init, SlotsMatchHolders
  <1>2. Inv /\ TypeOK' /\ [Next]_vars => Inv'
    <2> SUFFICES ASSUME Inv, TypeOK', [Next]_vars PROVE SlotsMatchHolders'
      OBVIOUS
    <2>1. /\ inflight \in [Keys -> Nat] /\ held \in [Keys -> Nat]
          /\ uncounted \in [Keys -> BOOLEAN] /\ leaked \in [Keys -> BOOLEAN]
      BY DEF TypeOK
    <2>2. ASSUME NEW k \in Keys, TryAcquire(k) PROVE SlotsMatchHolders'
      <3>1. \A l \in Keys \ {k} : /\ inflight'[l] = inflight[l] /\ held'[l] = held[l]
                                 /\ uncounted'[l] = uncounted[l] /\ leaked'[l] = leaked[l]
        BY <2>1, <2>2 DEF TryAcquire
      <3>2. /\ held'[k] = held[k] + 1 /\ leaked'[k] = leaked[k]
            /\ inflight'[k] = IF ConcurrencyEnabled(limits) THEN inflight[k] + 1
                              ELSE inflight[k]
        BY <2>1, <2>2 DEF TryAcquire
      <3>3. uncounted[k] \/ ~ConcurrencyEnabled(limits) => uncounted'[k]
        BY <2>1, <2>2, Zenon DEF TryAcquire
      <3>4. /\ inflight'[k] > held'[k] => leaked'[k]
            /\ inflight'[k] < held'[k] => uncounted'[k]
        <4>1. /\ inflight[k] > held[k] => leaked[k]
              /\ inflight[k] < held[k] => uncounted[k]
              /\ inflight[k] \in Nat /\ held[k] \in Nat
          BY <2>1 DEF SlotsMatchHolders
        <4>2. CASE ConcurrencyEnabled(limits)
          BY <3>2, <3>3, <4>1, <4>2
        <4>3. CASE ~ConcurrencyEnabled(limits)
          BY <3>2, <3>3, <4>1, <4>3
        <4> QED  BY <4>2, <4>3
      <3> QED  BY <3>1, <3>4 DEF SlotsMatchHolders
    <2>3. ASSUME NEW k \in Keys, Release(k) PROVE SlotsMatchHolders'
      <3>1. \A l \in Keys \ {k} : /\ inflight'[l] = inflight[l] /\ held'[l] = held[l]
                                 /\ uncounted'[l] = uncounted[l] /\ leaked'[l] = leaked[l]
        BY <2>1, <2>3 DEF Release
      <3>2. /\ held[k] > 0 /\ held'[k] = held[k] - 1 /\ uncounted'[k] = uncounted[k]
            /\ inflight'[k] = IF ConcurrencyEnabled(limits) /\ inflight[k] > 0
                              THEN inflight[k] - 1 ELSE inflight[k]
        BY <2>1, <2>3 DEF Release
      <3>3. leaked[k] \/ ~ConcurrencyEnabled(limits) => leaked'[k]
        BY <2>1, <2>3, Zenon DEF Release
      <3>4. /\ inflight'[k] > held'[k] => leaked'[k]
            /\ inflight'[k] < held'[k] => uncounted'[k]
        <4>1. /\ inflight[k] > held[k] => leaked[k]
              /\ inflight[k] < held[k] => uncounted[k]
              /\ inflight[k] \in Nat /\ held[k] \in Nat
          BY <2>1 DEF SlotsMatchHolders
        <4>2. CASE ConcurrencyEnabled(limits)
          BY <3>2, <3>3, <4>1, <4>2
        <4>3. CASE ~ConcurrencyEnabled(limits)
          BY <3>2, <3>3, <4>1, <4>3
        <4> QED  BY <4>2, <4>3
      <3> QED  BY <3>1, <3>4 DEF SlotsMatchHolders
    <2>4. ASSUME UNCHANGED slotVars PROVE SlotsMatchHolders'
      BY <2>4 DEF slotVars, SlotsMatchHolders
    <2> QED
      BY <2>2, <2>3, <2>4
         DEF Next, FirstCheck, Admit, Refuse, Reconfigure, Tick, vars, slotVars
  <1>3. Inv => SlotsMatchHolders
    OBVIOUS
  <1> QED  BY <1>1, <1>2, <1>3, LimiterTypeCorrect, PTL DEF Spec

=============================================================================
