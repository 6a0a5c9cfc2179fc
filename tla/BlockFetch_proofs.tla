-------------------------- MODULE BlockFetch_proofs --------------------------
(***************************************************************************)
(* First the rate limiter, for every rate, burst and number of callers: it *)
(* keeps its cap, and is no stricter.  GrantsBounded alone is not          *)
(* inductive: what is left in the bucket must be related to what every     *)
(* window may still hand out.                                              *)
(*                                                                         *)
(* Then the fetch pool, for every number of slots and workers and every    *)
(* retry configuration: it uses the limiter as the limiter's module says,  *)
(* so the cap on grants holds; and its retries are those the code          *)
(* promises.                                                               *)
(***************************************************************************)
EXTENDS BlockFetch, WellFoundedInduction, FiniteSetTheorems, TLAPS

(* Grants are dated in the past. *)
GrantsArePast == \A i \in DOMAIN grants : grants[i] <= now

(* What the bucket holds fits under what the window since grant i leaves. *)
Headroom == now < Horizon =>
    \A i \in DOMAIN grants :
        Level + Unit * (Len(grants) - i + 1) <= Burst + Refill * (now - grants[i])

BInv == BucketTypeOK /\ GrantsArePast /\ Headroom /\ GrantsBounded

(* The level is what the bucket holds, never negative, never above Burst. *)
LEMMA LevelRange ==
    ASSUME BucketTypeOK
    PROVE  Level \in 0..Burst
  <1>1. age * Refill \in Nat
    BY BucketAssumption, SMT DEF BucketTypeOK
  <1> QED
    BY <1>1, BucketAssumption DEF BucketTypeOK, Level

(* One more token granted, or one more tick, adds one Unit or one Refill. *)
LEMMA Successor == \A c, a \in Int : c * (a + 1) = c * a + c
  OBVIOUS

(* A grant preserves the invariant: it spends a Unit of every window's headroom. *)
LEMMA GrantBInv == ASSUME BInv, Grant PROVE BInv'
  <1> USE BucketAssumption
  <1> DEFINE n == Len(grants)
  <1>0. n \in Nat /\ DOMAIN grants = 1..n /\ \A i \in 1..n : grants[i] \in 0..Horizon
    BY DEF BInv, BucketTypeOK
  <1>1. Level \in 0..Burst /\ Level >= Unit
    BY LevelRange DEF BInv, Grant
  <1>2. /\ Len(grants') = n + 1 /\ DOMAIN grants' = 1..(n + 1)
        /\ grants'[n + 1] = now /\ \A i \in 1..n : grants'[i] = grants[i]
    BY <1>0 DEF Grant, BInv, BucketTypeOK
  <1>3. BucketTypeOK'
    BY <1>1 DEF Grant, BInv, BucketTypeOK
  <1>4. GrantsArePast'
    BY <1>0, <1>2 DEF Grant, BInv, GrantsArePast, BucketTypeOK
  <1>5. Level' = Level - Unit
    <2>1. tokens' + age' * Refill = Level - Unit
      BY <1>1 DEF Grant
    <2> QED BY <2>1, <1>1 DEF Level
  <1>6. ASSUME now < Horizon, NEW i \in 1..n
        PROVE  /\ Level + Unit * (n - i + 1) <= Burst + Refill * (now - grants[i])
               /\ Unit * (n - i + 1) \in Int
               /\ Refill * (now - grants[i]) \in Int
    <2>1. n - i + 1 \in Int /\ now - grants[i] \in Int
      BY <1>0 DEF BInv, BucketTypeOK
    <2>2. Unit * (n - i + 1) \in Int /\ Refill * (now - grants[i]) \in Int
      BY <2>1
    <2>3. Level + Unit * (n - i + 1) <= Burst + Refill * (now - grants[i])
      BY <1>6, <1>0, Zenon DEF BInv, Headroom
    <2> QED BY <2>2, <2>3, Zenon
  <1>7. \A i \in 1..n : Unit * ((n + 1) - i + 1) = Unit * (n - i + 1) + Unit
    <2> TAKE i \in 1..n
    <2>1. n - i + 1 \in Int /\ (n + 1) - i + 1 = (n - i + 1) + 1
      BY <1>0
    <2> QED BY <2>1, Successor
  <1>8. Unit * ((n + 1) - (n + 1) + 1) = Unit /\ Refill * (now - now) = 0
    BY <1>0 DEF BInv, BucketTypeOK
  <1>9. Headroom'
    <2> SUFFICES ASSUME now < Horizon, NEW i \in 1..(n + 1)
                 PROVE  (Level - Unit) + Unit * ((n + 1) - i + 1)
                          <= Burst + Refill * (now - grants'[i])
      BY <1>2, <1>5 DEF Headroom, Grant
    <2>1. CASE i = n + 1
      BY <2>1, <1>1, <1>2, <1>8
    <2>2. CASE i \in 1..n
      <3>1. grants'[i] = grants[i]
        BY <2>2, <1>2
      <3> DEFINE u == Unit * (n - i + 1)
                 r == Refill * (now - grants[i])
      <3>2. u \in Int /\ r \in Int /\ Level + u <= Burst + r
        BY <2>2, <1>6
      <3>3. Unit * ((n + 1) - i + 1) = u + Unit
        BY <2>2, <1>7
      <3> HIDE DEF u
      <3>4. (Level - Unit) + (u + Unit) <= Burst + r
        <4> HIDE DEF r
        <4> QED BY <3>2, <1>1
      <3> QED BY <3>1, <3>3, <3>4
    <2> QED BY <2>1, <2>2, <1>0
  <1>10. GrantsBounded'
    <2> SUFFICES ASSUME NEW j \in 1..(n + 1), grants'[j] < Horizon, NEW i \in 1..j
                 PROVE  Unit * (j - i + 1) <= Burst + Refill * (grants'[j] - grants'[i])
      BY <1>2 DEF GrantsBounded
    <2>1. CASE j \in 1..n
      <3>1. j \in DOMAIN grants /\ i \in 1..n /\ grants'[j] = grants[j] /\ grants'[i] = grants[i]
        BY <2>1, <1>0, <1>2
      <3> QED BY <3>1 DEF BInv, GrantsBounded
    <2>2. CASE j = n + 1 /\ i = n + 1
      BY <2>2, <1>1, <1>2, <1>8
    <2>3. CASE j = n + 1 /\ i \in 1..n
      <3>1. grants'[i] = grants[i] /\ grants'[j] = now /\ now < Horizon
        BY <2>3, <1>2
      <3> DEFINE u == Unit * (n - i + 1)
                 r == Refill * (now - grants[i])
      <3>2. u \in Int /\ r \in Int /\ Level + u <= Burst + r
        BY <2>3, <3>1, <1>6
      <3>3. Unit * (j - i + 1) = u + Unit
        BY <2>3, <1>7
      <3> HIDE DEF u
      <3>4. u + Unit <= Burst + r
        <4> HIDE DEF r
        <4> QED BY <3>2, <1>1
      <3> QED BY <3>1, <3>3, <3>4
    <2>4. j \in 1..n \/ (j = n + 1 /\ (i = n + 1 \/ i \in 1..n))
      BY <1>0
    <2> QED BY <2>1, <2>2, <2>3, <2>4, Zenon
  <1> QED BY <1>3, <1>4, <1>9, <1>10 DEF BInv

(* A refusal only writes the refill back: the level stays what it was. *)
LEMMA RefuseBInv == ASSUME BInv, Refuse PROVE BInv'
  <1> USE BucketAssumption
  <1>1. Level \in 0..Burst
    BY LevelRange DEF BInv
  <1>2. BucketTypeOK'
    BY <1>1 DEF Refuse, BInv, BucketTypeOK
  <1>3. Level' = Level
    <2>1. tokens' + age' * Refill = Level
      BY <1>1 DEF Refuse
    <2> QED BY <2>1, <1>1 DEF Level
  <1> QED BY <1>2, <1>3 DEF BInv, Refuse, GrantsArePast, Headroom, GrantsBounded

(* A tick adds at most Refill to the level and exactly Refill to each window. *)
LEMMA TickBInv == ASSUME BInv, BucketTick PROVE BInv'
  <1> USE BucketAssumption
  <1>1. /\ age \in Nat /\ now \in 0..Horizon /\ tokens \in 0..Burst
        /\ grants' = grants /\ tokens' = tokens
    BY DEF BInv, BucketTypeOK, BucketTick
  <1>2. BucketTypeOK'
    BY <1>1 DEF BInv, BucketTypeOK, BucketTick
  <1>3. GrantsArePast'
    BY <1>1 DEF BInv, GrantsArePast, BucketTick, BucketTypeOK
  <1>4. Level' <= Level + Refill /\ Level \in Int /\ Level' \in Int
    <2>1. Level \in 0..Burst /\ Level' \in 0..Burst
      BY <1>2, LevelRange DEF BInv, Level, BucketTypeOK
    <2>2. age * Refill \in Nat /\ (age + 1) * Refill = age * Refill + Refill
      BY <1>1
    <2> QED BY <2>1, <2>2, <1>1 DEF Level, BucketTick
  <1>5. Headroom'
    <2> SUFFICES ASSUME now' < Horizon, NEW i \in DOMAIN grants
                 PROVE  Level' + Unit * (Len(grants) - i + 1)
                          <= Burst + Refill * (now' - grants[i])
      BY <1>1 DEF Headroom
    <2>1. now < Horizon /\ now' = now + 1
      BY <1>1 DEF BucketTick
    <2>2. grants[i] \in Int /\ i \in Int /\ Len(grants) \in Int
      BY DEF BInv, BucketTypeOK
    <2> DEFINE u == Unit * (Len(grants) - i + 1)
               r == Refill * (now - grants[i])
    <2>3. u \in Int /\ r \in Int /\ Level + u <= Burst + r
      BY <1>1, <2>1, <2>2 DEF BInv, Headroom
    <2>4. Refill * (now' - grants[i]) = r + Refill
      <3>1. now - grants[i] \in Int /\ now' - grants[i] = (now - grants[i]) + 1
        BY <1>1, <2>1, <2>2
      <3> QED BY <3>1, Successor
    <2> HIDE DEF u, r
    <2>5. Level' + u <= Burst + (r + Refill)
      BY <2>3, <1>4
    <2> QED BY <2>4, <2>5 DEF u
  <1> QED BY <1>1, <1>2, <1>3, <1>5 DEF BInv, GrantsBounded

(* The inductive invariant holds of every behaviour of the bucket. *)
THEOREM BucketInvariance == BucketSpec => []BInv
  <1>1. BucketInit => BInv
    BY BucketAssumption
    DEF BucketInit, BInv, BucketTypeOK, GrantsArePast, Headroom, GrantsBounded
  <1>2. BInv /\ [BucketNext]_bucketVars => BInv'
    <2> SUFFICES ASSUME BInv, [BucketNext]_bucketVars PROVE BInv'
      OBVIOUS
    <2>1. CASE UNCHANGED bucketVars
      BY <2>1 DEF bucketVars, BInv, BucketTypeOK, GrantsArePast, Headroom, GrantsBounded, Level
    <2> QED BY <2>1, GrantBInv, RefuseBInv, TickBInv DEF BucketNext
  <1> QED BY <1>1, <1>2, PTL DEF BucketSpec

(* FR-1.2: whatever the rate, the burst and the callers' timing, no window  *)
(* of time sees more grants than the burst plus its refill.                 *)
THEOREM CapIsKept == BucketSpec => []GrantsBounded
  <1>1. BInv => GrantsBounded
    BY DEF BInv
  <1> QED BY <1>1, BucketInvariance, PTL

(* Full, or some window has been granted all that its burst and its refill  *)
(* allow but what is still in the bucket.                                   *)
Tight == now < Horizon =>
    \/ Level = Burst
    \/ \E i \in DOMAIN grants :
          Level + Unit * (Len(grants) - i + 1) >= Burst + Refill * (now - grants[i])

(* A grant out of a full bucket opens the window that is spent, one out of  *)
(* another lowers the level by what it adds to the windows.                 *)
LEMMA GrantTight == ASSUME BInv, Tight, Grant PROVE Tight'
  <1> USE BucketAssumption
  <1> DEFINE n == Len(grants)
  <1>0. n \in Nat /\ DOMAIN grants = 1..n /\ \A i \in 1..n : grants[i] \in 0..Horizon
    BY DEF BInv, BucketTypeOK
  <1>1. Level \in 0..Burst /\ Level >= Unit /\ now \in 0..Horizon
    BY LevelRange DEF BInv, Grant, BucketTypeOK
  <1>2. /\ Len(grants') = n + 1 /\ DOMAIN grants' = 1..(n + 1) /\ now' = now
        /\ grants'[n + 1] = now /\ \A i \in 1..n : grants'[i] = grants[i]
    BY <1>0 DEF Grant, BInv, BucketTypeOK
  <1>3. Level' = Level - Unit
    <2>1. tokens' + age' * Refill = Level - Unit
      BY <1>1 DEF Grant
    <2> QED BY <2>1, <1>1 DEF Level
  <1>4. CASE Level = Burst
    <2>1. Unit * ((n + 1) - (n + 1) + 1) = Unit /\ Refill * (now - now) = 0
      BY <1>0, <1>1
    <2>2. Level' + Unit * (Len(grants') - (n + 1) + 1) >= Burst + Refill * (now' - grants'[n + 1])
      BY <1>1, <1>2, <1>3, <1>4, <2>1
    <2>3. n + 1 \in DOMAIN grants'
      BY <1>0, <1>2
    <2> QED BY <2>2, <2>3, Zenon DEF Tight
  <1>5. ASSUME NEW i \in 1..n, Level + Unit * (n - i + 1) >= Burst + Refill * (now - grants[i])
        PROVE  Tight'
    <2> DEFINE u == Unit * (n - i + 1)
               r == Refill * (now - grants[i])
    <2>1. u \in Int /\ r \in Int /\ Level + u >= Burst + r
      <3>1. n - i + 1 \in Int /\ now - grants[i] \in Int
        BY <1>0, <1>1
      <3>2. u \in Int /\ r \in Int
        BY <3>1
      <3> QED BY <1>5, <3>2, Zenon
    <2>2. Unit * ((n + 1) - i + 1) = u + Unit
      <3>1. n - i + 1 \in Int /\ (n + 1) - i + 1 = (n - i + 1) + 1
        BY <1>0
      <3> QED BY <3>1, Successor
    <2>3. Refill * (now' - grants'[i]) = r
      BY <1>2
    <2> HIDE DEF u, r
    <2>4. (Level - Unit) + (u + Unit) >= Burst + r
      BY <2>1, <1>1
    <2>5. Level' + Unit * (Len(grants') - i + 1) >= Burst + Refill * (now' - grants'[i])
      BY <1>2, <1>3, <2>2, <2>3, <2>4
    <2>6. i \in DOMAIN grants'
      BY <1>0, <1>2
    <2> QED BY <2>5, <2>6, Zenon DEF Tight
  <1>6. CASE ~(now < Horizon)
    BY <1>2, <1>6 DEF Tight
  <1> QED BY <1>0, <1>4, <1>5, <1>6 DEF Tight

(* A refusal leaves the level what it was. *)
LEMMA RefuseTight == ASSUME BInv, Tight, Refuse PROVE Tight'
  <1>1. Level \in 0..Burst
    BY LevelRange DEF BInv
  <1>2. Level' = Level
    <2>1. tokens' + age' * Refill = Level
      BY <1>1, BucketAssumption DEF Refuse
    <2> QED BY <2>1, <1>1, BucketAssumption DEF Level
  <1> QED BY <1>2 DEF Refuse, Tight

(* A tick fills the bucket, or adds a whole Refill to it and to each window. *)
LEMMA TickTight == ASSUME BInv, Tight, BucketTick PROVE Tight'
  <1> USE BucketAssumption
  <1>1. /\ age \in Nat /\ now \in 0..Horizon /\ tokens \in 0..Burst
        /\ grants' = grants /\ tokens' = tokens
    BY DEF BInv, BucketTypeOK, BucketTick
  <1>2. Level' = Burst \/ (Level' = Level + Refill /\ Level \in Int)
    <2>1. age * Refill \in Nat /\ (age + 1) * Refill = age * Refill + Refill
      BY <1>1
    <2> QED BY <2>1, <1>1 DEF Level, BucketTick
  <1>3. ASSUME now' < Horizon, Level' # Burst PROVE Tight'
    <2>1. now < Horizon /\ now' = now + 1
      BY <1>1, <1>3 DEF BucketTick
    <2>2. Level # Burst
      <3>1. age * Refill \in Nat /\ (age + 1) * Refill = age * Refill + Refill
        BY <1>1
      <3> QED BY <3>1, <1>1, <1>3 DEF Level, BucketTick
    <2>3. PICK i \in DOMAIN grants :
             Level + Unit * (Len(grants) - i + 1) >= Burst + Refill * (now - grants[i])
      BY <2>1, <2>2 DEF Tight
    <2>4. grants[i] \in Int /\ i \in Int /\ Len(grants) \in Int
      BY DEF BInv, BucketTypeOK
    <2> DEFINE u == Unit * (Len(grants) - i + 1)
               r == Refill * (now - grants[i])
    <2>5. u \in Int /\ r \in Int /\ Level + u >= Burst + r
      <3>1. Len(grants) - i + 1 \in Int /\ now - grants[i] \in Int
        BY <1>1, <2>4
      <3>2. u \in Int /\ r \in Int
        BY <3>1
      <3> QED BY <2>3, <3>2, Zenon
    <2>6. Refill * (now' - grants[i]) = r + Refill
      <3>1. now - grants[i] \in Int /\ now' - grants[i] = (now - grants[i]) + 1
        BY <1>1, <2>1, <2>4
      <3> QED BY <3>1, Successor
    <2> HIDE DEF u, r
    <2>7. Level' + u >= Burst + (r + Refill)
      BY <1>2, <1>3, <2>5
    <2>8. Level' + Unit * (Len(grants') - i + 1) >= Burst + Refill * (now' - grants'[i])
      BY <1>1, <2>6, <2>7 DEF u
    <2> QED BY <1>1, <2>8, Zenon DEF Tight
  <1> QED BY <1>3 DEF Tight

(* The limiter is no stricter than its cap: a caller is refused only when   *)
(* one more grant would exceed what some window may hand out.               *)
THEOREM CapIsReached == BucketSpec => []RefusesOnlyAtCap
  <1>1. BucketInit => Tight
    BY BucketAssumption DEF BucketInit, Tight, Level
  <1>2. BInv /\ Tight /\ [BucketNext]_bucketVars => Tight'
    <2>1. ASSUME UNCHANGED bucketVars, Tight PROVE Tight'
      BY <2>1 DEF bucketVars, Tight, Level
    <2> QED BY <2>1, GrantTight, RefuseTight, TickTight DEF BucketNext
  <1>3. BInv /\ Tight => RefusesOnlyAtCap
    <2> SUFFICES ASSUME BInv, Tight, Burst >= Unit, now < Horizon, Level < Unit
                 PROVE  \E i \in DOMAIN grants : WindowFull(i)
      BY DEF RefusesOnlyAtCap
    <2> USE BucketAssumption
    <2>1. Level \in 0..Burst
      BY LevelRange DEF BInv
    <2>2. PICK i \in DOMAIN grants :
             Level + Unit * (Len(grants) - i + 1) >= Burst + Refill * (now - grants[i])
      BY <2>1 DEF Tight
    <2>3. grants[i] \in Int /\ i \in Int /\ Len(grants) \in Int /\ now \in Int
      BY DEF BInv, BucketTypeOK
    <2> DEFINE u == Unit * (Len(grants) - i + 1)
               r == Refill * (now - grants[i])
    <2>4. u \in Int /\ r \in Int /\ Level + u >= Burst + r
      BY <2>2, <2>3
    <2>5. Unit * (Len(grants) - i + 2) = u + Unit
      <3>1. Len(grants) - i + 1 \in Int /\ Len(grants) - i + 2 = (Len(grants) - i + 1) + 1
        BY <2>3
      <3> QED BY <3>1, Successor
    <2> HIDE DEF u, r
    <2>6. u + Unit > Burst + r
      BY <2>1, <2>4
    <2> QED BY <2>5, <2>6 DEF WindowFull, r
  <1> QED BY <1>1, <1>2, <1>3, BucketInvariance, PTL DEF BucketSpec

(* No call of acquire has returned.                                         *)
NothingGranted == grants = <<>>

(* The burst of run_ingest is --rate-per-sec: a rate below one leaves a     *)
(* bucket smaller than a token, in which acquire waits for ever, although   *)
(* it "blocks (async) until a token is available" (rate_limiter.rs:40).     *)
THEOREM SlowBucketNeverGrants ==
    ASSUME Burst < Unit
    PROVE  BucketSpec => []NothingGranted
  <1>1. BucketInit => NothingGranted
    BY DEF BucketInit, NothingGranted
  <1>2. BInv /\ NothingGranted /\ [BucketNext]_bucketVars => NothingGranted'
    <2> SUFFICES ASSUME BInv, NothingGranted, [BucketNext]_bucketVars
                 PROVE  NothingGranted'
      OBVIOUS
    <2>1. Level < Unit
      BY LevelRange, BucketAssumption DEF BInv
    <2>2. ~Grant
      BY <2>1, LevelRange, BucketAssumption DEF Grant, BInv
    <2> QED BY <2>2 DEF NothingGranted, BucketNext, Refuse, BucketTick, bucketVars
  <1> QED BY <1>1, <1>2, BucketInvariance, PTL DEF BucketSpec

-----------------------------------------------------------------------------
(* What each place of a future says of the attempts behind it. *)
Progress(s) ==
    /\ pc[s] \in {"todo", "acquire"} => attempts[s] = 0
    /\ pc[s] = "todo" => timer[s] = 0
    /\ pc[s] = "request" => attempts[s] >= 1
    /\ pc[s] = "backoff" => IsTransient(result[s]) /\ attempts[s] >= 1

IInv == TypeOK /\ GivesUpOnlyWhenSpent /\ \A s \in Slots : Progress(s)

(* Refills, sleeps and delays are whole numbers of ticks. *)
LEMMA SleepIsNat == ASSUME BucketTypeOK, Refuse PROVE SleepFor(Level) \in Nat
  <1>1. Level \in 0..Burst /\ Level < Unit
    BY LevelRange DEF Refuse
  <1> QED BY <1>1, BucketAssumption DEF SleepFor

(* Whatever the jitter, the drawn delay is a natural number. *)
LEMMA DelayIsNat == \A a : BackoffDelays(a) \subseteq Nat
  BY FetchAssumption DEF BackoffDelays

(* The bucket's own invariant, step by step of the pool. *)
LEMMA StepsOfBucket == ASSUME [Next]_vars PROVE [BucketNext]_bucketVars
  BY DEF Next, vars, Acquire, Reply, Answer, Retry, Delivered, Tick, BucketNext

(* The bucket's variables keep their types. *)
LEMMA BucketTypes == ASSUME BucketTypeOK, BucketNext \/ UNCHANGED bucketVars PROVE BucketTypeOK'
  <1> USE BucketAssumption
  <1>1. Level \in 0..Burst
    BY LevelRange
  <1>2. CASE Grant
    BY <1>1, <1>2 DEF Grant, BucketTypeOK
  <1>3. CASE Refuse
    BY <1>1, <1>3 DEF Refuse, BucketTypeOK
  <1>4. CASE BucketTick
    BY <1>4 DEF BucketTick, BucketTypeOK
  <1>5. CASE UNCHANGED bucketVars
    BY <1>5 DEF BucketTypeOK, bucketVars
  <1> QED BY <1>2, <1>3, <1>4, <1>5 DEF BucketNext

(* A set of slots has an oldest one. *)
LEMMA OldestExists ==
    ASSUME NEW S \in SUBSET Slots, S # {}
    PROVE  Oldest(S) \in S /\ \A t \in S : Oldest(S) <= t
  <1>1. S \in SUBSET Nat
    BY FetchAssumption DEF Slots
  <1> DEFINE R == OpToRel(<, Nat)
  <1>2. PICK s \in S : \A t \in S : ~ (<<t, s>> \in R)
    <2> HIDE DEF R
    <2>1. IsWellFoundedOn(R, Nat)
      BY NatLessThanWellFounded DEF R
    <2> QED BY <1>1, <2>1, WFMin
  <1>3. \A t \in S : ~(t < s)
    BY <1>1, <1>2 DEF OpToRel
  <1>4. \A t \in S : s <= t
    BY <1>1, <1>3
  <1> QED BY <1>4, Zenon DEF Oldest

(* Sending a request counts one more attempt, from a place that has one left. *)
LEMMA SendIInv ==
    ASSUME IInv, NEW s \in Slots, SendRequest(s), UNCHANGED delivering, BucketTypeOK',
           attempts[s] <= MaxRetries
    PROVE  IInv'
  <1> USE FetchAssumption
  <1>1. TypeOK'
    BY DEF IInv, TypeOK, SendRequest
  <1> QED BY <1>1 DEF IInv, TypeOK, SendRequest, GivesUpOnlyWhenSpent, Progress

(* One step of the pool preserves the invariant. *)
LEMMA StepIInv == ASSUME IInv, [Next]_vars PROVE IInv'
  <1> USE FetchAssumption
  <1>1. BucketTypeOK'
    BY StepsOfBucket, BucketTypes DEF IInv, TypeOK
  <1>2. ASSUME NEW s \in Slots, Acquire(s) PROVE IInv'
    <2>1. attempts[s] = 0
      BY <1>2 DEF IInv, Progress, Acquire, Polled
    <2>2. CASE Grant /\ SendRequest(s)
      BY <1>1, <1>2, <2>1, <2>2, SendIInv DEF Acquire
    <2>3. CASE Refuse /\ SleepUntilRefill(s)
      <3>1. SleepFor(Level) \in Nat
        BY <2>3, SleepIsNat DEF IInv, TypeOK
      <3>2. TypeOK'
        BY <1>1, <1>2, <2>3, <3>1 DEF IInv, TypeOK, Acquire, SleepUntilRefill
      <3> QED
        BY <1>2, <2>1, <2>3, <3>2
        DEF IInv, TypeOK, Acquire, SleepUntilRefill, GivesUpOnlyWhenSpent, Progress
    <2> QED BY <1>2, <2>2, <2>3 DEF Acquire
  <1>3. ASSUME NEW s \in Slots, NEW res \in Results, Answer(s, res) PROVE IInv'
    <2>1. pc[s] = "request" /\ attempts[s] \in 1..(MaxRetries + 1)
      BY <1>3 DEF IInv, TypeOK, Progress, Answer, Polled
    <2>2. BackoffDelays(attempts[s] - 1) \subseteq Nat
      BY DelayIsNat
    <2>3. TypeOK'
      BY <1>1, <1>3, <2>1, <2>2 DEF IInv, TypeOK, Answer
    <2> QED
      BY <1>3, <2>1, <2>3
      DEF IInv, TypeOK, Answer, WillRetry, GivesUpOnlyWhenSpent, Progress
  <1>4. ASSUME NEW s \in Slots, Reply(s) PROVE IInv'
    <2>1. PICK reply \in Replies : Answer(s, Decoded(reply))
      BY <1>4, Zenon DEF Reply
    <2>2. Decoded(reply) \in Results
      BY DEF Replies, Decoded, Results
    <2> QED BY <1>3, <2>1, <2>2
  <1>5. ASSUME NEW s \in Slots, Retry(s) PROVE IInv'
    <2>1. attempts[s] <= MaxRetries
      BY <1>5 DEF IInv, GivesUpOnlyWhenSpent, Retry, Polled
    <2> QED BY <1>1, <1>5, <2>1, SendIInv DEF Retry
  <1>6. CASE Delivered
    <2>1. CASE Todo = {}
      BY <1>1, <1>6, <2>1 DEF IInv, TypeOK, Delivered, GivesUpOnlyWhenSpent, Progress
    <2>2. CASE Todo # {}
      <3> DEFINE o == Oldest(Todo)
      <3>1. /\ pc' = [pc EXCEPT ![o] = "acquire"]
            /\ UNCHANGED <<timer, attempts, result>>
            /\ delivering' = NoSlot
        BY <1>6, <2>2 DEF Delivered
      <3>2. o \in Slots /\ pc[o] = "todo"
        BY <2>2, OldestExists DEF Todo
      <3> HIDE DEF o
      <3>3. TypeOK'
        BY <1>1, <3>1, <3>2 DEF IInv, TypeOK
      <3> QED
        BY <3>1, <3>2, <3>3 DEF IInv, TypeOK, GivesUpOnlyWhenSpent, Progress
    <2> QED BY <2>1, <2>2
  <1>7. CASE Tick
    BY <1>1, <1>7 DEF IInv, TypeOK, Tick, GivesUpOnlyWhenSpent, Progress
  <1>8. CASE UNCHANGED vars
    BY <1>1, <1>8 DEF vars, futureVars, IInv, TypeOK, GivesUpOnlyWhenSpent, Progress
  <1> QED BY <1>2, <1>4, <1>5, <1>6, <1>7, <1>8 DEF Next

(* The pool's inductive invariant, from which the theorems follow. *)
THEOREM Invariance == Spec => []IInv
  <1>1. Init => IInv
    BY FetchAssumption, BucketAssumption
    DEF Init, BucketInit, IInv, TypeOK, BucketTypeOK, GivesUpOnlyWhenSpent, Progress, Slots
  <1>2. IInv /\ [Next]_vars => IInv'
    BY StepIInv
  <1> QED BY <1>1, <1>2, PTL DEF Spec

(* The futures' state stays in its range; no slot sends more than MaxRetries *)
(* requests beyond its first (retry.rs:30).                                  *)
THEOREM TypeCorrect == Spec => []TypeOK
  <1>1. IInv => TypeOK
    BY DEF IInv
  <1> QED BY <1>1, Invariance, PTL

(* A transient error ends a slot only when its retries are spent. *)
THEOREM GivesUpWhenSpent == Spec => []GivesUpOnlyWhenSpent
  <1>1. IInv => GivesUpOnlyWhenSpent
    BY DEF IInv
  <1> QED BY <1>1, Invariance, PTL

(* FR-1.3: only a transient error is followed by another request. *)
THEOREM OnlyTransientIsRetried == Spec => RetriesOnlyTransient
  <1> DEFINE Law == \A s \in Slots :
                      attempts'[s] > attempts[s] => attempts[s] = 0 \/ IsTransient(result[s])
  <1>1. IInv /\ [Next]_vars => [Law]_vars
    <2> SUFFICES ASSUME IInv, Next, NEW s \in Slots, attempts'[s] > attempts[s]
                 PROVE  attempts[s] = 0 \/ IsTransient(result[s])
      BY Zenon
    <2>1. \A a \in Nat : ~(a > a)
      OBVIOUS
    <2>2. attempts[s] \in Nat /\ attempts # attempts'
      BY <2>1, FetchAssumption DEF IInv, TypeOK
    <2>3. ASSUME NEW r \in Slots, Acquire(r) \/ Retry(r) PROVE r = s
      <3>1. attempts' = [attempts EXCEPT ![r] = @ + 1]
        BY <2>2, <2>3 DEF Acquire, Retry, SendRequest, SleepUntilRefill
      <3> QED BY <3>1, <2>1, <2>2, FetchAssumption DEF IInv, TypeOK
    <2>4. Acquire(s) \/ Retry(s)
      BY <2>2, <2>3 DEF Next, Delivered, Reply, Answer, Tick
    <2> QED BY <2>4 DEF Acquire, Retry, Polled, IInv, Progress
  <1> QED BY <1>1, Invariance, PTL DEF Spec, RetriesOnlyTransient

(* The pool is a finite set; its size is a number. *)
LEMMA PoolFinite == IsFiniteSet(InFlight) /\ Cardinality(InFlight) \in Nat
  <1>1. IsFiniteSet(Slots)
    BY FS_Interval, FetchAssumption DEF Slots
  <1>2. IsFiniteSet(InFlight)
    BY <1>1, FS_Subset DEF InFlight
  <1> QED BY <1>2, FS_CardinalityType

(* The pool is primed with the oldest slots, up to its limit. *)
LEMMA PrimedPool == ASSUME Init PROVE PoolDiscipline
  <1> USE FetchAssumption DEF Slots
  <1>1. \A s \in Slots : pc[s] = IF s <= MaxConcurrency THEN "acquire" ELSE "todo"
    BY DEF Init
  <1>2. CASE Count <= MaxConcurrency
    <2>1. InFlight = 1..Count /\ Todo = {}
      BY <1>1, <1>2 DEF InFlight, Todo
    <2>2. Cardinality(1..Count) = Count
      BY FS_Interval
    <2> QED BY <1>2, <2>1, <2>2 DEF PoolDiscipline
  <1>3. CASE MaxConcurrency < Count
    <2>1. InFlight = 1..MaxConcurrency /\ Todo = (MaxConcurrency + 1)..Count
      BY <1>1, <1>3 DEF InFlight, Todo
    <2>2. Cardinality(1..MaxConcurrency) = MaxConcurrency
      BY FS_Interval
    <2>3. delivering = NoSlot
      BY DEF Init
    <2> QED BY <1>3, <2>1, <2>2, <2>3 DEF PoolDiscipline
  <1> QED BY <1>2, <1>3

(* One step of the pool keeps it full, within its limit and in order. *)
LEMMA StepPool == ASSUME TypeOK, PoolDiscipline, [Next]_vars PROVE PoolDiscipline'
  <1> USE FetchAssumption
  <1>1. CASE InFlight' = InFlight /\ Todo' = Todo /\ delivering' = delivering
    BY <1>1 DEF PoolDiscipline
  <1>2. ASSUME NEW s \in Slots, pc[s] \in {"acquire", "request", "backoff"},
               NEW place \in {"acquire", "request", "backoff"},
               pc' = [pc EXCEPT ![s] = place], UNCHANGED delivering
        PROVE  PoolDiscipline'
    <2>1. InFlight' = InFlight /\ Todo' = Todo
      BY <1>2 DEF TypeOK, InFlight, Todo
    <2> QED BY <1>1, <1>2, <2>1
  <1>3. ASSUME NEW s \in Slots, Acquire(s) PROVE PoolDiscipline'
    BY <1>2, <1>3 DEF Acquire, Polled, SendRequest, SleepUntilRefill
  <1>4. ASSUME NEW s \in Slots, NEW res, Answer(s, res) PROVE PoolDiscipline'
    <2>1. CASE WillRetry(s, res)
      BY <1>2, <1>4, <2>1 DEF Answer, Polled
    <2>2. CASE ~WillRetry(s, res)
      <3>1. /\ pc[s] = "request" /\ pc' = [pc EXCEPT ![s] = "done"]
            /\ delivering = NoSlot /\ delivering' = s
        BY <1>4, <2>2 DEF Answer, Polled
      <3>2. s \in InFlight /\ InFlight' = InFlight \ {s} /\ Todo' = Todo
        BY <3>1 DEF TypeOK, InFlight, Todo
      <3>3. Cardinality(InFlight)' = Cardinality(InFlight) - 1
        BY <3>2, PoolFinite, FS_RemoveElement
      <3>4. delivering' # NoSlot
        BY <3>1 DEF Slots, NoSlot
      <3> QED BY <3>1, <3>2, <3>3, <3>4, PoolFinite DEF PoolDiscipline, NoSlot
    <2> QED BY <2>1, <2>2
  <1>5. ASSUME NEW s \in Slots, Reply(s) PROVE PoolDiscipline'
    BY <1>4, <1>5 DEF Reply
  <1>6. ASSUME NEW s \in Slots, Retry(s) PROVE PoolDiscipline'
    BY <1>2, <1>6 DEF Retry, Polled, SendRequest
  <1>7. CASE Delivered
    <2>1. CASE Todo = {}
      <3>1. InFlight' = InFlight /\ Todo' = Todo
        BY <1>7, <2>1 DEF Delivered, InFlight, Todo
      <3> QED BY <2>1, <3>1 DEF PoolDiscipline
    <2>2. CASE Todo # {}
      <3> DEFINE o == Oldest(Todo)
      <3>1. /\ pc' = [pc EXCEPT ![o] = "acquire"]
            /\ delivering # NoSlot /\ delivering' = NoSlot
        BY <1>7, <2>2 DEF Delivered
      <3>2. o \in Todo /\ \A t \in Todo : o <= t
        BY <2>2, OldestExists DEF Todo
      <3> HIDE DEF o
      <3>3. o \in Slots /\ pc[o] = "todo"
        BY <3>2 DEF Todo
      <3>4. o \notin InFlight /\ InFlight' = InFlight \cup {o} /\ Todo' = Todo \ {o}
        BY <3>1, <3>3 DEF TypeOK, InFlight, Todo
      <3>5. Cardinality(InFlight)' = Cardinality(InFlight) + 1
        BY <3>4, PoolFinite, FS_AddElement
      <3>6. Cardinality(InFlight) + 1 = MaxConcurrency
        BY <2>2, <3>1 DEF PoolDiscipline
      <3>7. \A s \in Todo', t \in Slots \ Todo' : t < s
        BY <3>2, <3>3, <3>4 DEF PoolDiscipline, Slots
      <3> QED BY <3>1, <3>5, <3>6, <3>7 DEF PoolDiscipline
    <2> QED BY <2>1, <2>2
  <1>8. CASE Tick
    <2>1. InFlight' = InFlight /\ Todo' = Todo /\ delivering' = delivering
      BY <1>8 DEF Tick, InFlight, Todo
    <2> QED BY <1>1, <2>1
  <1>9. CASE UNCHANGED vars
    <2>1. InFlight' = InFlight /\ Todo' = Todo /\ delivering' = delivering
      BY <1>9 DEF vars, futureVars, InFlight, Todo
    <2> QED BY <1>1, <2>1
  <1> QED BY <1>3, <1>5, <1>6, <1>7, <1>8, <1>9 DEF Next

(* FR-1.6: the pool never holds more than MaxConcurrency slots, takes the    *)
(* oldest first, and has no free place while a slot waits.                   *)
THEOREM PoolIsDisciplined == Spec => []PoolDiscipline
  <1>1. IInv /\ PoolDiscipline /\ [Next]_vars => PoolDiscipline'
    BY StepPool DEF IInv
  <1> QED BY <1>1, PrimedPool, Invariance, PTL DEF Spec

(* The pool implements the limiter's specification ... *)
THEOREM ImplementsBucket == Spec => RefinesBucket
  <1>1. Init => BucketInit
    BY DEF Init
  <1>2. [Next]_vars => [BucketNext]_bucketVars
    BY StepsOfBucket
  <1> QED BY <1>1, <1>2, PTL DEF Spec, RefinesBucket, BucketSpec

(* ... so however its futures interleave, sleep and retry, the tokens they  *)
(* are granted stay under the cap in every window of time (FR-1.2).         *)
THEOREM PoolKeepsCap == Spec => []GrantsBounded
  BY ImplementsBucket, CapIsKept, PTL DEF RefinesBucket

(* ... and the limiter holds none of them up without need.                  *)
THEOREM PoolReachesCap == Spec => []RefusesOnlyAtCap
  BY ImplementsBucket, CapIsReached, PTL DEF RefinesBucket

(* The slots that have taken a token. *)
Asked == {s \in Slots : attempts[s] > 0}

(* They are finitely many. *)
LEMMA AskedFinite == IsFiniteSet(Asked)
  <1>1. IsFiniteSet(Slots)
    BY FS_Interval, FetchAssumption DEF Slots
  <1> QED BY <1>1, FS_Subset DEF Asked

(* Only a slot's first request is paid for, and every first request is.     *)
LEMMA StepTokens == ASSUME IInv, OneTokenPerSlot, [Next]_vars PROVE OneTokenPerSlot'
  <1> USE FetchAssumption
  <1>1. OneTokenPerSlot <=> Len(grants) = Cardinality(Asked)
    BY DEF OneTokenPerSlot, Asked
  <1>2. OneTokenPerSlot' <=> Len(grants') = Cardinality(Asked')
    BY DEF OneTokenPerSlot, Asked
  <1>3. ASSUME Asked' = Asked, grants' = grants PROVE OneTokenPerSlot'
    BY <1>1, <1>2, <1>3
  <1>4. ASSUME NEW s \in Slots, Acquire(s) PROVE OneTokenPerSlot'
    <2>1. attempts[s] = 0
      BY <1>4 DEF IInv, Progress, Acquire, Polled
    <2>2. CASE Grant /\ SendRequest(s)
      <3>1. s \notin Asked /\ Asked' = Asked \cup {s}
        BY <2>1, <2>2 DEF IInv, TypeOK, SendRequest, Asked
      <3>2. Cardinality(Asked') = Cardinality(Asked) + 1
        BY <3>1, AskedFinite, FS_AddElement
      <3>3. Len(grants') = Len(grants) + 1
        BY <2>2 DEF IInv, TypeOK, BucketTypeOK, Grant
      <3> QED BY <1>1, <1>2, <3>2, <3>3
    <2>3. CASE Refuse /\ SleepUntilRefill(s)
      BY <1>3, <2>3 DEF Refuse, SleepUntilRefill, Asked
    <2> QED BY <1>4, <2>2, <2>3 DEF Acquire
  <1>5. ASSUME NEW s \in Slots, Reply(s) PROVE OneTokenPerSlot'
    BY <1>3, <1>5 DEF Reply, Answer, bucketVars, Asked
  <1>6. ASSUME NEW s \in Slots, Retry(s) PROVE OneTokenPerSlot'
    <2>1. attempts[s] >= 1
      BY <1>6 DEF IInv, Progress, Retry, Polled
    <2>2. Asked' = Asked
      BY <1>6, <2>1 DEF IInv, TypeOK, Retry, SendRequest, Asked
    <2> QED BY <1>3, <1>6, <2>2 DEF Retry, bucketVars
  <1>7. CASE Delivered
    BY <1>3, <1>7 DEF Delivered, bucketVars, Asked
  <1>8. CASE Tick
    BY <1>3, <1>8 DEF Tick, BucketTick, Asked
  <1>9. CASE UNCHANGED vars
    BY <1>3, <1>9 DEF vars, futureVars, bucketVars, Asked
  <1> QED BY <1>4, <1>5, <1>6, <1>7, <1>8, <1>9 DEF Next

(* One token for each slot asked for, whatever is retried, slept or failed. *)
THEOREM TokensMatchSlots == Spec => []OneTokenPerSlot
  <1>1. Init => OneTokenPerSlot
    <2> SUFFICES ASSUME Init PROVE OneTokenPerSlot
      OBVIOUS
    <2>1. {s \in Slots : attempts[s] > 0} = {}
      BY DEF Init
    <2>2. Len(grants) = 0
      BY DEF Init, BucketInit
    <2> QED BY <2>1, <2>2, FS_EmptySet DEF OneTokenPerSlot
  <1>2. IInv /\ OneTokenPerSlot /\ [Next]_vars => OneTokenPerSlot'
    BY StepTokens
  <1> QED BY <1>1, <1>2, Invariance, PTL DEF Spec

(* The sleep is the shortest that may bring a token: one tick less would not. *)
LEMMA SleepIsShort ==
  ASSUME BucketTypeOK, Level < Unit
  PROVE  Level + Refill * (SleepFor(Level) - 1) < Unit
  <1> USE BucketAssumption
  <1>1. Level \in 0..Burst
    BY LevelRange
  <1> DEFINE x == Unit - Level + Refill - 1
             q == x \div Refill
  <1>2. x \in Nat /\ q \in Nat
    BY <1>1
  <1>3. Refill * q <= x
    <2>1. x = Refill * q + (x % Refill) /\ (x % Refill) \in Nat
      BY <1>1, SMT
    <2>2. Refill * q \in Int
      BY <1>2
    <2> HIDE DEF x, q
    <2> QED BY <1>2, <2>1, <2>2
  <1>4. Refill * (q - 1) = Refill * q - Refill
    BY <1>2
  <1>5. Refill * q \in Int
    BY <1>2
  <1>6. Level + (Refill * q - Refill) < Unit
    <2> HIDE DEF q
    <2> QED BY <1>1, <1>3, <1>5
  <1> QED BY <1>4, <1>6 DEF SleepFor

(* The level after a step is in its range as well. *)
LEMMA LevelRangeNext ==
  ASSUME BucketTypeOK'
  PROVE  Level' \in 0..Burst
  <1>1. age' \in Nat /\ tokens' \in 0..Burst
    BY DEF BucketTypeOK
  <1>2. age' * Refill \in Nat
    BY <1>1, BucketAssumption
  <1> QED
    BY <1>1, <1>2, BucketAssumption DEF Level

(* Nothing that happens while a future sleeps gives the bucket its token.   *)
LEMMA StepSleep == ASSUME IInv, NoOversleep, [Next]_vars PROVE NoOversleep'
  <1> USE FetchAssumption, BucketAssumption
  <1> SUFFICES ASSUME NEW s \in Slots, pc'[s] = "acquire", timer'[s] > 0, Burst >= Unit
               PROVE  Level' + Refill * (timer'[s] - 1) < Unit
    BY DEF NoOversleep
  <1>1. Level \in 0..Burst /\ Level' \in 0..Burst
    <2>1. BucketTypeOK' /\ BucketTypeOK
      BY StepsOfBucket, BucketTypes DEF IInv, TypeOK
    <2> QED BY <2>1, LevelRange, LevelRangeNext
  <1>2. timer[s] \in Nat
    BY DEF IInv, TypeOK
  <1>3. ASSUME pc[s] = "acquire", timer'[s] = timer[s], Level' <= Level
        PROVE  Level' + Refill * (timer'[s] - 1) < Unit
    <2>1. Level + Refill * (timer[s] - 1) < Unit
      BY <1>3 DEF NoOversleep
    <2>2. Refill * (timer[s] - 1) \in Int
      BY <1>2
    <2> QED BY <1>1, <1>3, <2>1, <2>2
  <1>4. ASSUME NEW r \in Slots, Acquire(r) PROVE Level' + Refill * (timer'[s] - 1) < Unit
    <2>1. CASE Grant /\ SendRequest(r)
      <3>1. Level' <= Level
        <4>1. tokens' + age' * Refill = Level - Unit
          BY <1>1, <2>1 DEF Grant
        <4> QED BY <4>1, <1>1 DEF Level
      <3>2. r # s /\ pc[s] = "acquire" /\ timer'[s] = timer[s]
        BY <1>4, <2>1 DEF SendRequest, IInv, TypeOK
      <3> QED BY <1>3, <3>1, <3>2
    <2>2. CASE Refuse /\ SleepUntilRefill(r)
      <3>1. Level' = Level
        <4>1. tokens' + age' * Refill = Level
          BY <1>1, <2>2 DEF Refuse
        <4> QED BY <4>1, <1>1 DEF Level
      <3>2. CASE r = s
        <4>1. timer'[s] = SleepFor(Level)
          BY <2>2, <3>2 DEF SleepUntilRefill, IInv, TypeOK
        <4>2. Level + Refill * (SleepFor(Level) - 1) < Unit
          BY <2>2, SleepIsShort DEF IInv, TypeOK, Refuse
        <4> QED BY <3>1, <4>1, <4>2
      <3>3. CASE r # s
        <4>1. pc[s] = "acquire" /\ timer'[s] = timer[s]
          BY <2>2, <3>3 DEF SleepUntilRefill, IInv, TypeOK
        <4> QED BY <1>1, <1>3, <3>1, <4>1
      <3> QED BY <3>2, <3>3
    <2> QED BY <1>4, <2>1, <2>2 DEF Acquire
  <1>5. ASSUME UNCHANGED bucketVars PROVE Level' = Level
    BY <1>5 DEF bucketVars, Level
  <1>6. ASSUME NEW r \in Slots, Reply(r) PROVE Level' + Refill * (timer'[s] - 1) < Unit
    <2>1. PICK reply \in Replies : Answer(r, Decoded(reply))
      BY <1>6, Zenon DEF Reply
    <2>2. pc[s] = "acquire" /\ timer'[s] = timer[s]
      BY <2>1 DEF Answer, IInv, TypeOK
    <2> QED BY <1>1, <1>3, <1>5, <2>1, <2>2 DEF Answer
  <1>7. ASSUME NEW r \in Slots, Retry(r) PROVE Level' + Refill * (timer'[s] - 1) < Unit
    <2>1. pc[s] = "acquire" /\ timer'[s] = timer[s]
      BY <1>7 DEF Retry, SendRequest, IInv, TypeOK
    <2> QED BY <1>1, <1>3, <1>5, <1>7, <2>1 DEF Retry
  <1>8. CASE Delivered
    <2>1. timer'[s] = timer[s]
      BY <1>8 DEF Delivered
    <2>2. pc[s] = "acquire"
      <3>1. ASSUME Todo # {} PROVE Oldest(Todo) \in Todo
        BY <3>1, OldestExists DEF Todo
      <3>2. \A t \in Todo : timer[t] = 0
        BY DEF IInv, Progress, Todo
      <3> QED BY <1>8, <2>1, <3>1, <3>2 DEF Delivered, IInv, TypeOK, Todo
    <2> QED BY <1>1, <1>3, <1>5, <1>8, <2>1, <2>2 DEF Delivered
  <1>9. CASE Tick
    <2>1. pc[s] = "acquire" /\ timer[s] > 0 /\ timer'[s] = timer[s] - 1
      BY <1>2, <1>9 DEF Tick
    <2>2. Level + Refill * (timer[s] - 1) < Unit
      BY <2>1 DEF NoOversleep
    <2>3. Level' <= Level + Refill
      <3>1. age \in Nat /\ tokens \in 0..Burst
        BY DEF IInv, TypeOK, BucketTypeOK
      <3>2. age * Refill \in Nat /\ (age + 1) * Refill = age * Refill + Refill
        BY <3>1
      <3> QED BY <1>1, <1>9, <3>1, <3>2 DEF Level, Tick, BucketTick
    <2>4. Refill * (timer[s] - 1) = Refill * (timer'[s] - 1) + Refill
      <3>1. timer'[s] - 1 \in Int /\ timer[s] - 1 = (timer'[s] - 1) + 1
        BY <1>2, <2>1
      <3> QED BY <3>1, Successor
    <2>5. Refill * (timer'[s] - 1) \in Int
      BY <1>2, <2>1
    <2> QED BY <1>1, <2>2, <2>3, <2>4, <2>5
  <1>10. CASE UNCHANGED vars
    <2>1. pc[s] = "acquire" /\ timer'[s] = timer[s]
      BY <1>10 DEF vars, futureVars
    <2> QED BY <1>1, <1>3, <1>5, <1>10, <2>1 DEF vars
  <1> QED BY <1>4, <1>6, <1>7, <1>8, <1>9, <1>10 DEF Next

(* The shared limiter costs no time: whatever the other futures take or put *)
(* back meanwhile, nobody sleeps past the tick that brings a token.         *)
THEOREM NobodyOversleeps == Spec => []NoOversleep
  <1>1. Init => NoOversleep
    BY DEF Init, NoOversleep
  <1>2. IInv /\ NoOversleep /\ [Next]_vars => NoOversleep'
    BY StepSleep
  <1> QED BY <1>1, <1>2, Invariance, PTL DEF Spec
=============================================================================
