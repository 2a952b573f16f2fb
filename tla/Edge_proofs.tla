---------------------------- MODULE Edge_proofs ----------------------------
(***************************************************************************)
(* Theorems about the edge of the bus, which share no state: the limiter   *)
(* every request passes (RateLimiter), who is let in behind it (Access),   *)
(* and the Stop hook that calls the bus from a window (StopDrain).         *)
(*                                                                         *)
(* RateLimiter, at any rate, burst, ceiling and number of tokens:          *)
(* forgetting a bucket changes nothing, since a bucket idle for            *)
(* IDLE_EVICTION is full again, and Retry-After is enough.                 *)
(*                                                                         *)
(* Access, for any tokens, agents and life of a grant: the instant at      *)
(* which a token was last in force never recedes, so what rested on a      *)
(* lookup goes on resting on it; and a revoked token is let in no more.    *)
(*                                                                         *)
(* StopDrain, for any feed no longer than the file: what the file forgets  *)
(* is out of the feed, a reply stays in the feed as long as its question,  *)
(* and the file holds nothing but what was raised or swallowed.            *)
(***************************************************************************)
EXTENDS RateLimiter, Access, StopDrain, FiniteSetTheorems, WellFoundedInduction, TLAPS

-----------------------------------------------------------------------------
(* The rate limiter.                                                       *)

limiter == <<clock, limiterVars>>

(* A tracked caller that waits until its promise can afford a request. *)
PromiseFunded ==
  \A k \in Keys : promise[k] # Never /\ k \in DOMAIN buckets =>
    Accrued(buckets[k], promise[k]) >= Minute

(* The inductive invariant of the limiter. *)
LimiterInv == LimiterTypeOK /\ LevelIsIdeal /\ PromiseFunded

-----------------------------------------------------------------------------
(* What is regained in some seconds. *)
LEMMA RegainType == \A n \in Nat : n * PerMinute \in Nat
BY LimiterAssumption

LEMMA RegainGrows ==
  ASSUME NEW m \in Nat, NEW n \in Nat, m <= n
  PROVE  m * PerMinute <= n * PerMinute
<1>1. n - m \in Nat
  OBVIOUS
<1>2. (n - m) * PerMinute \in Nat
  BY <1>1, RegainType
<1>3. n * PerMinute = m * PerMinute + (n - m) * PerMinute
  BY LimiterAssumption
<1> QED
  BY <1>2, <1>3, RegainType

LEMMA RegainAdds ==
  ASSUME NEW m \in Nat, NEW n \in Nat
  PROVE  (m + n) * PerMinute = m * PerMinute + n * PerMinute
BY LimiterAssumption

(* A burst is worth one request at least, and is regained before a bucket  *)
(* is idle.                                                                *)
LEMMA BurstFacts ==
  /\ Burst \in Nat
  /\ Minute <= Burst
  /\ \A n \in Nat : IdleEviction <= n => Burst <= n * PerMinute
<1> DEFINE slow == PerMinute * BurstSeconds
           floor == BurstFloor * Minute
<1>1. /\ slow \in Nat
      /\ slow <= IdleEviction * PerMinute
  BY LimiterAssumption, RegainGrows, RegainType
<1>2. /\ floor \in Nat
      /\ Minute <= floor
  <2>1. BurstFloor - 1 \in Nat
    BY LimiterAssumption
  <2>2. (BurstFloor - 1) * Minute \in Nat
    BY <2>1, LimiterAssumption
  <2>3. floor = Minute + (BurstFloor - 1) * Minute
    BY LimiterAssumption
  <2> QED
    BY <2>2, <2>3, LimiterAssumption
<1>3. IdleEviction <= IdleEviction * PerMinute
  <2>1. PerMinute - 1 \in Nat
    BY LimiterAssumption
  <2>2. IdleEviction * (PerMinute - 1) \in Nat
    BY <2>1, LimiterAssumption
  <2>3. IdleEviction * PerMinute = IdleEviction + IdleEviction * (PerMinute - 1)
    BY LimiterAssumption
  <2> QED
    BY <2>2, <2>3, LimiterAssumption
<1>4. floor <= IdleEviction
  BY LimiterAssumption
<1>5. Burst = IF slow > floor THEN slow ELSE floor
  BY DEF Burst, Larger
<1>6. \A n \in Nat : IdleEviction <= n =>
        IdleEviction * PerMinute <= n * PerMinute /\ n * PerMinute \in Nat
  BY LimiterAssumption, RegainGrows, RegainType
<1>7. IdleEviction * PerMinute \in Nat /\ IdleEviction \in Nat /\ Minute \in Nat
  BY LimiterAssumption, RegainType
<1> HIDE DEF slow, floor
<1> QED
  BY <1>1, <1>2, <1>3, <1>4, <1>5, <1>6, <1>7

(* Whole seconds in which a deficit is regained. *)
LEMMA WaitCovers ==
  ASSUME NEW t \in Nat, t < Minute
  PROVE  /\ Wait(t) \in Nat
         /\ Minute <= t + Wait(t) * PerMinute
<1> DEFINE due == Minute - t
           d == (due + PerMinute - 1) \div PerMinute
<1>1. PerMinute \in Nat \ {0} /\ Minute \in Nat /\ due \in Nat
  BY LimiterAssumption
<1>2. due + PerMinute - 1 \in Nat
  BY <1>1
<1>3. /\ d \in Nat
      /\ due + PerMinute - 1 < (d + 1) * PerMinute
  BY <1>1, <1>2
<1>4. (d + 1) * PerMinute = d * PerMinute + PerMinute
  BY <1>1, <1>3
<1>5. due <= d * PerMinute
  BY <1>1, <1>3, <1>4, RegainType
<1>6. Wait(t) \in Nat /\ d <= Wait(t)
  BY <1>3 DEF Wait, Larger
<1>7. d * PerMinute <= Wait(t) * PerMinute
  BY <1>3, <1>6, RegainGrows
<1> QED
  BY <1>1, <1>3, <1>5, <1>6, <1>7, RegainType

-----------------------------------------------------------------------------
Bucket == [tokens : 0..Burst, last : Nat]

LEMMA ElapsedFacts ==
  ASSUME NEW b \in Bucket, NEW at \in Nat, NEW n \in Nat, at <= n
  PROVE  /\ Elapsed(b, at) \in Nat
         /\ Elapsed(b, n) \in Nat
         /\ Elapsed(b, at) <= Elapsed(b, n)
         /\ Elapsed(b, n) <= Elapsed(b, at) + (n - at)
         /\ b.last <= at => Elapsed(b, n) = Elapsed(b, at) + (n - at)
BY DEF Elapsed, Bucket

(* What a bucket holds grows with time, by no more than is regained. *)
LEMMA AccruedFacts ==
  ASSUME NEW b \in Bucket, NEW at \in Nat, NEW n \in Nat, at <= n
  PROVE  /\ Accrued(b, at) \in 0..Burst
         /\ Accrued(b, n) \in 0..Burst
         /\ Accrued(b, at) <= Accrued(b, n)
         /\ Accrued(b, n) <= Accrued(b, at) + (n - at) * PerMinute
         /\ b.last <= at =>
              Accrued(b, n) = Smaller(Accrued(b, at) + (n - at) * PerMinute, Burst)
<1> DEFINE e == Elapsed(b, at)
           f == Elapsed(b, n)
           d == n - at
<1>1. /\ e \in Nat /\ f \in Nat /\ d \in Nat /\ e <= f /\ f <= e + d
      /\ b.last <= at => f = e + d
  BY ElapsedFacts
<1> HIDE DEF e, f, d
<1>2. /\ e * PerMinute \in Nat /\ f * PerMinute \in Nat /\ d * PerMinute \in Nat
      /\ e * PerMinute <= f * PerMinute
      /\ f * PerMinute <= (e + d) * PerMinute
      /\ (e + d) * PerMinute = e * PerMinute + d * PerMinute
  <2>1. e * PerMinute \in Nat /\ f * PerMinute \in Nat /\ d * PerMinute \in Nat
    BY <1>1, RegainType
  <2>2. e * PerMinute <= f * PerMinute
    BY <1>1, RegainGrows
  <2>3. f * PerMinute <= (e + d) * PerMinute
    <3>1. e + d \in Nat
      BY <1>1
    <3> QED
      BY <1>1, <3>1, RegainGrows
  <2>4. (e + d) * PerMinute = e * PerMinute + d * PerMinute
    BY <1>1, RegainAdds
  <2> QED
    BY <2>1, <2>2, <2>3, <2>4
<1>3. /\ Accrued(b, at) = Smaller(b.tokens + e * PerMinute, Burst)
      /\ Accrued(b, n) = Smaller(b.tokens + f * PerMinute, Burst)
  BY DEF Accrued, e, f
<1>4. (n - at) * PerMinute = d * PerMinute
  BY DEF d
<1>5. b.tokens \in 0..Burst /\ Burst \in Nat
  BY BurstFacts DEF Bucket
<1>6. b.last <= at => f * PerMinute = e * PerMinute + d * PerMinute
  BY <1>1, <1>2
<1> DEFINE E == e * PerMinute
           F == f * PerMinute
           G == d * PerMinute
           T == b.tokens
<1>7. /\ E \in Nat /\ F \in Nat /\ G \in Nat /\ E <= F /\ F <= E + G
      /\ b.last <= at => F = E + G
      /\ T \in 0..Burst
  BY <1>2, <1>5, <1>6
<1>8. /\ Accrued(b, at) = Smaller(T + E, Burst)
      /\ Accrued(b, n) = Smaller(T + F, Burst)
      /\ (n - at) * PerMinute = G
  BY <1>3, <1>4
<1> HIDE DEF E, F, G, T
<1> QED
  BY <1>5, <1>7, <1>8 DEF Smaller

(* An idle bucket is full. *)
LEMMA IdleIsFull ==
  ASSUME NEW b \in Bucket, NEW at \in Nat, Idle(b, at)
  PROVE  Accrued(b, at) = Burst
<1>1. Elapsed(b, at) \in Nat /\ Burst <= Elapsed(b, at) * PerMinute
  BY BurstFacts, ElapsedFacts DEF Idle
<1>2. b.tokens \in Nat /\ Burst \in Nat
  BY BurstFacts DEF Bucket
<1> QED
  BY <1>1, <1>2, RegainType DEF Accrued, Smaller

-----------------------------------------------------------------------------
(* What a key is worth at an instant, tracked or forgotten. *)
LevelAt(k, at) == IF k \in DOMAIN buckets THEN Accrued(buckets[k], at) ELSE Burst

LEMMA BucketFacts ==
  ASSUME LimiterTypeOK
  PROVE  \A x \in DOMAIN buckets :
           /\ x \in Keys
           /\ buckets[x] \in Bucket
           /\ buckets[x].tokens \in 0..Burst
           /\ buckets[x].last \in 0..newest
<1> SUFFICES ASSUME NEW x \in DOMAIN buckets
             PROVE  /\ x \in Keys
                    /\ buckets[x] \in Bucket
                    /\ buckets[x].tokens \in 0..Burst
                    /\ buckets[x].last \in 0..newest
  OBVIOUS
<1>1. buckets[x] \in [tokens : 0..Burst, last : 0..newest]
  BY DEF LimiterTypeOK
<1> QED
  BY <1>1 DEF LimiterTypeOK, Bucket

(* Making room leaves the buckets it keeps alone, and drops only idle ones. *)
LEMMA RoomFacts ==
  ASSUME LimiterTypeOK, NEW k \in Keys, NEW at \in Nat
  PROVE  /\ DOMAIN Room(k, at) \subseteq DOMAIN buckets
         /\ \A x \in DOMAIN Room(k, at) : Room(k, at)[x] = buckets[x]
         /\ \A x \in DOMAIN buckets \ DOMAIN Room(k, at) : Idle(buckets[x], at)
<1> DEFINE S == Swept(at)
<1>1. /\ DOMAIN S \subseteq DOMAIN buckets
      /\ \A x \in DOMAIN S : S[x] = buckets[x]
      /\ \A x \in DOMAIN buckets \ DOMAIN S : Idle(buckets[x], at)
  BY DEF Swept, Kept
<1>2. Room(k, at) = S \/ Room(k, at) = Kept(S, at)
  BY DEF Room
<1>3. /\ DOMAIN Kept(S, at) = {x \in DOMAIN S : ~Idle(S[x], at)}
      /\ \A x \in DOMAIN Kept(S, at) : Kept(S, at)[x] = S[x]
  BY DEF Kept
<1> HIDE DEF S
<1>4. CASE Room(k, at) = S
  BY <1>1, <1>4
<1>5. CASE Room(k, at) = Kept(S, at)
  BY <1>1, <1>3, <1>5
<1> QED
  BY <1>2, <1>4, <1>5

(* However a bucket is found or made, it holds what its key is worth. *)
LEMMA ChargedLevel ==
  ASSUME LimiterTypeOK, NEW k \in Keys, NEW at \in Nat
  PROVE  /\ Accrued(BucketOf(k, at), at) = LevelAt(k, at)
         /\ LevelAt(k, at) \in 0..Burst
<1>1. CASE k \in DOMAIN Room(k, at)
  <2>1. k \in DOMAIN buckets /\ BucketOf(k, at) = buckets[k]
    BY <1>1, RoomFacts DEF BucketOf
  <2> QED
    BY <2>1, BucketFacts, AccruedFacts DEF LevelAt
<1>2. CASE k \notin DOMAIN Room(k, at)
  <2>1. BucketOf(k, at) = [tokens |-> Burst, last |-> at]
    BY <1>2 DEF BucketOf
  <2>2. Accrued(BucketOf(k, at), at) = Burst
    BY <2>1, BurstFacts, LimiterAssumption DEF Accrued, Elapsed, Smaller
  <2>3. LevelAt(k, at) = Burst
    BY <1>2, RoomFacts, BucketFacts, IdleIsFull DEF LevelAt
  <2> QED
    BY <2>2, <2>3, BurstFacts
<1> QED
  BY <1>1, <1>2

(* The worth of a key over time. *)
LEMMA LevelFacts ==
  ASSUME LimiterTypeOK, NEW k \in Keys, NEW at \in Nat
  PROVE  /\ Level(k) = LevelAt(k, newest)
         /\ Level(k) \in 0..Burst
         /\ newest <= at =>
              /\ LevelAt(k, at) = Smaller(Level(k) + (at - newest) * PerMinute, Burst)
              /\ Level(k) <= LevelAt(k, at)
         /\ at <= newest =>
              /\ LevelAt(k, at) <= Level(k)
              /\ Level(k) <= LevelAt(k, at) + (newest - at) * PerMinute
<1>1. newest \in Nat
  BY DEF LimiterTypeOK
<1>2. Level(k) = LevelAt(k, newest)
  BY DEF Level, LevelAt
<1>3. CASE k \in DOMAIN buckets
  <2>1. buckets[k] \in Bucket /\ buckets[k].last <= newest
    BY <1>1, <1>3, BucketFacts
  <2>2. Level(k) = Accrued(buckets[k], newest) /\ LevelAt(k, at) = Accrued(buckets[k], at)
    BY <1>3 DEF Level, LevelAt
  <2>3. CASE newest <= at
    BY <1>1, <1>2, <2>1, <2>2, <2>3, AccruedFacts DEF Smaller
  <2>4. CASE at <= newest
    <3>1. /\ Accrued(buckets[k], at) \in 0..Burst
          /\ Accrued(buckets[k], newest) \in 0..Burst
          /\ Accrued(buckets[k], at) <= Accrued(buckets[k], newest)
          /\ Accrued(buckets[k], newest) <=
               Accrued(buckets[k], at) + (newest - at) * PerMinute
      BY <1>1, <2>1, <2>4, AccruedFacts
    <3>2. newest <= at => newest = at
      BY <1>1, <2>4
    <3>3. newest <= at => (at - newest) * PerMinute = 0
      BY <3>2, <1>1, LimiterAssumption
    <3> QED
      BY <1>2, <2>2, <3>1, <3>2, <3>3, BurstFacts DEF Smaller
  <2> QED
    BY <1>1, <2>3, <2>4
<1>4. CASE k \notin DOMAIN buckets
  <2>1. Level(k) = Burst /\ LevelAt(k, at) = Burst
    BY <1>4 DEF Level, LevelAt
  <2>2. newest <= at => (at - newest) * PerMinute \in Nat
    <3>1. newest <= at => at - newest \in Nat
      BY <1>1
    <3> QED
      BY <3>1, RegainType
  <2>3. at <= newest => (newest - at) * PerMinute \in Nat
    <3>1. at <= newest => newest - at \in Nat
      BY <1>1
    <3> QED
      BY <3>1, RegainType
  <2> QED
    BY <1>2, <2>1, <2>2, <2>3, BurstFacts DEF Smaller
<1> QED
  BY <1>3, <1>4

-----------------------------------------------------------------------------
(* A request that has arrived. *)
LEMMA ArrivalFacts ==
  ASSUME LimiterTypeOK, NEW r \in Requests, arrived[r] # NoArrival
  PROVE  /\ arrived[r].key \in Keys
         /\ arrived[r].at \in 0..clock
         /\ arrived[r].at \in Nat
         /\ clock \in Nat
<1>1. arrived[r] \in [key : Keys, at : 0..clock]
  BY DEF LimiterTypeOK
<1> QED
  BY <1>1 DEF LimiterTypeOK

(* What Admit and Throttle have in common: the bucket pays some cost. *)
Pays(r, cost) ==
  LET k == arrived[r].key
      at == arrived[r].at
      tokens == Accrued(BucketOf(k, at), at) IN
  /\ arrived[r] # NoArrival
  /\ ~Full(k, at)
  /\ cost \in Nat
  /\ cost <= tokens
  /\ Settle(r, tokens - cost)
  /\ Account(k, at, cost)

LEMMA AdmitPays == ASSUME NEW r, Admit(r) PROVE Pays(r, Minute)
BY LimiterAssumption DEF Admit, Pays

LEMMA ThrottlePays ==
  ASSUME LimiterTypeOK, NEW r \in Requests, Throttle(r)
  PROVE  Pays(r, 0)
<1> DEFINE k == arrived[r].key
           at == arrived[r].at
           tokens == Accrued(BucketOf(k, at), at)
<1>1. k \in Keys /\ at \in Nat
  BY ArrivalFacts DEF Throttle
<1>2. tokens \in 0..Burst
  BY <1>1, ChargedLevel
<1>3. tokens - 0 = tokens
  BY <1>2
<1> QED
  BY <1>2, <1>3, BurstFacts DEF Throttle, Pays

(* Refilling every key brings its worth and its ideal up together. *)
LEMMA OthersKeep ==
  ASSUME LimiterTypeOK, LevelIsIdeal,
         NEW k \in Keys, NEW at \in Nat, NEW cost, NEW x \in Keys,
         Account(k, at, cost), x = k => cost = 0,
         x \in DOMAIN buckets' <=> x \in DOMAIN Room(k, at),
         x \in DOMAIN Room(k, at) => buckets'[x] = Room(k, at)[x],
         rewound'[x] = rewound[x]
  PROVE  /\ ideal'[x] <= Level(x)'
         /\ Level(x)' <= ideal'[x] + rewound'[x] * PerMinute
<1> DEFINE n == Larger(newest, at)
           G == (n - newest) * PerMinute
           W == rewound[x] * PerMinute
<1>1. /\ newest \in Nat /\ n \in Nat /\ newest <= n /\ at <= n
      /\ n - newest \in Nat
      /\ Larger(at - newest, 0) = n - newest
      /\ newest' = n
  BY DEF LimiterTypeOK, Account, Larger
<1>2. G \in Nat /\ W \in Nat
  BY <1>1, RegainType DEF LimiterTypeOK
<1>3. LevelAt(x, n) = Smaller(Level(x) + G, Burst)
  BY <1>1, LevelFacts
<1>4. Level(x)' = LevelAt(x, n)
  <2>1. CASE x \in DOMAIN Room(k, at)
    <3>1. x \in DOMAIN buckets /\ buckets'[x] = buckets[x] /\ x \in DOMAIN buckets'
      BY <2>1, RoomFacts
    <3> QED
      BY <1>1, <3>1 DEF Level, LevelAt
  <2>2. CASE x \notin DOMAIN Room(k, at)
    <3>1. Level(x)' = Burst
      BY <2>2 DEF Level, Burst
    <3>2. CASE x \in DOMAIN buckets
      <4>1. buckets[x] \in Bucket /\ Accrued(buckets[x], at) = Burst
        BY <2>2, <3>2, RoomFacts, BucketFacts, IdleIsFull
      <4>2. /\ Accrued(buckets[x], at) <= Accrued(buckets[x], n)
            /\ Accrued(buckets[x], n) \in 0..Burst
        BY <1>1, <4>1, AccruedFacts
      <4>3. Accrued(buckets[x], n) = Burst
        BY <4>1, <4>2, BurstFacts
      <4> QED
        BY <3>1, <3>2, <4>3 DEF LevelAt
    <3>3. CASE x \notin DOMAIN buckets
      BY <3>1, <3>3 DEF LevelAt
    <3> QED
      BY <3>2, <3>3
  <2> QED
    BY <2>1, <2>2
<1>5. ideal'[x] = Smaller(ideal[x] + G, Burst)
  <2>1. ideal'[x] = Smaller(ideal[x] + G, Burst) - (IF x = k THEN cost ELSE 0)
    BY <1>1 DEF Account
  <2>2. ideal[x] \in Int
    BY DEF LimiterTypeOK
  <2>3. Smaller(ideal[x] + G, Burst) \in Int
    BY <1>2, <2>2, BurstFacts DEF Smaller
  <2>4. (IF x = k THEN cost ELSE 0) = 0
    OBVIOUS
  <2> QED
    BY <2>1, <2>3, <2>4
<1>6. ideal[x] \in Int /\ ideal[x] <= Level(x) /\ Level(x) <= ideal[x] + W
  BY DEF LimiterTypeOK, LevelIsIdeal
<1>7. Level(x) \in 0..Burst /\ Burst \in Nat
  BY <1>1, LevelFacts, BurstFacts
<1>8. rewound'[x] * PerMinute = W
  OBVIOUS
<1> HIDE DEF G, W, n
<1> QED
  BY <1>2, <1>3, <1>4, <1>5, <1>6, <1>7, <1>8 DEF Smaller

(* The key that pays is worth as much less as it pays, and a payment of an  *)
(* earlier instant than the newest gives it the seconds in between again.   *)
LEMMA PayerKeeps ==
  ASSUME LimiterTypeOK, LevelIsIdeal, NEW r \in Requests, NEW cost, Pays(r, cost),
         NEW k, k = arrived[r].key
  PROVE  /\ ideal'[k] <= Level(k)'
         /\ Level(k)' <= ideal'[k] + rewound'[k] * PerMinute
<1> DEFINE at == arrived[r].at
           n == Larger(newest, at)
           v == LevelAt(k, at)
           L == Level(k)
           G == Larger(at - newest, 0) * PerMinute
           H == Larger(newest - at, 0) * PerMinute
           W == rewound[k] * PerMinute
<1>1. k \in Keys /\ at \in Nat /\ newest \in Nat
  BY ArrivalFacts DEF Pays, LimiterTypeOK
<1>2. /\ v \in 0..Burst
      /\ Accrued(BucketOf(k, at), at) = v
      /\ L \in 0..Burst
      /\ Burst \in Nat
  BY <1>1, ChargedLevel, LevelFacts, BurstFacts
<1>3. cost \in Nat /\ cost <= v
  BY <1>2 DEF Pays
<1>4. /\ k \in DOMAIN buckets'
      /\ buckets'[k] = [tokens |-> v - cost, last |-> at]
      /\ newest' = n
  BY <1>1, <1>2 DEF Pays, Settle, Account
<1>5. Level(k)' = Smaller(v - cost + H, Burst)
  <2>1. Elapsed([tokens |-> v - cost, last |-> at], n) = Larger(newest - at, 0)
    BY <1>1 DEF Elapsed, Larger
  <2>2. Level(k)' = Accrued([tokens |-> v - cost, last |-> at], n)
    BY <1>4 DEF Level, Accrued, Elapsed, Burst
  <2> QED
    BY <2>1, <2>2 DEF Accrued
<1>6. ideal'[k] = Smaller(ideal[k] + G, Burst) - cost
  BY <1>1 DEF Pays, Account
<1>7. rewound'[k] * PerMinute = W + H
  <2>1. rewound'[k] = rewound[k] + Larger(newest - at, 0)
    BY <1>1 DEF Pays, Settle, LimiterTypeOK
  <2>2. rewound[k] \in Nat /\ Larger(newest - at, 0) \in Nat
    BY <1>1 DEF LimiterTypeOK, Larger
  <2> QED
    BY <2>1, <2>2, RegainAdds
<1>8. /\ ideal[k] \in Int /\ ideal[k] <= L /\ L <= ideal[k] + W
      /\ G \in Nat /\ H \in Nat /\ W \in Nat
  BY <1>1, RegainType DEF LimiterTypeOK, LevelIsIdeal, Larger
<1>9. CASE newest <= at
  <2>1. H = 0
    BY <1>1, <1>9, LimiterAssumption DEF Larger
  <2>2. v = Smaller(L + G, Burst)
    <3>1. Larger(at - newest, 0) = at - newest
      BY <1>1, <1>9 DEF Larger
    <3> QED
      BY <1>1, <1>9, <3>1, LevelFacts
  <2> HIDE DEF v, L, G, H, W
  <2> QED
    BY <1>2, <1>3, <1>5, <1>6, <1>7, <1>8, <2>1, <2>2 DEF Smaller
<1>10. CASE at < newest
  <2>1. G = 0
    BY <1>1, <1>10, LimiterAssumption DEF Larger
  <2>2. v <= L /\ L <= v + H
    <3>1. Larger(newest - at, 0) = newest - at
      BY <1>1, <1>10 DEF Larger
    <3> QED
      BY <1>1, <1>10, <3>1, LevelFacts
  <2> HIDE DEF v, L, G, H, W
  <2> QED
    BY <1>2, <1>3, <1>5, <1>6, <1>7, <1>8, <2>1, <2>2 DEF Smaller
<1> QED
  BY <1>1, <1>9, <1>10

LEMMA PaymentKeepsLevels ==
  ASSUME LimiterTypeOK, LevelIsIdeal, NEW r \in Requests, NEW cost, Pays(r, cost)
  PROVE  LevelIsIdeal'
<1>0. PICK k \in Keys : k = arrived[r].key
  BY ArrivalFacts DEF Pays
<1> DEFINE at == arrived[r].at
<1>1. k \in Keys /\ at \in Nat
  BY ArrivalFacts DEF Pays
<1>2. ASSUME NEW x \in Keys, x # k
      PROVE  /\ ideal'[x] <= Level(x)'
             /\ Level(x)' <= ideal'[x] + rewound'[x] * PerMinute
  <2>1. /\ Account(k, at, cost)
        /\ DOMAIN buckets' = DOMAIN Room(k, at) \union {k}
        /\ x \in DOMAIN Room(k, at) => buckets'[x] = Room(k, at)[x]
        /\ rewound'[x] = rewound[x]
    BY <1>0, <1>2 DEF Pays, Settle, LimiterTypeOK
  <2> HIDE DEF at
  <2> QED
    BY <1>1, <1>2, <2>1, OthersKeep
<1>3. /\ ideal'[k] <= Level(k)'
      /\ Level(k)' <= ideal'[k] + rewound'[k] * PerMinute
  BY <1>0, PayerKeeps
<1> QED
  BY <1>2, <1>3 DEF LevelIsIdeal

-----------------------------------------------------------------------------
(* The map after a request: what room was made for, and its key. *)
LEMMA RoomIsFinite ==
  ASSUME LimiterTypeOK, NEW k \in Keys, NEW at \in Nat
  PROVE  /\ IsFiniteSet(DOMAIN Room(k, at))
         /\ Cardinality(DOMAIN Room(k, at)) \in Nat
         /\ Cardinality(DOMAIN Room(k, at)) <= MaxTracked
<1>1. DOMAIN Room(k, at) \subseteq DOMAIN buckets
  BY RoomFacts
<1>2. /\ IsFiniteSet(DOMAIN buckets)
      /\ Cardinality(DOMAIN buckets) <= MaxTracked
  BY DEF LimiterTypeOK
<1>3. /\ IsFiniteSet(DOMAIN Room(k, at))
      /\ Cardinality(DOMAIN Room(k, at)) <= Cardinality(DOMAIN buckets)
  BY <1>1, <1>2, FS_Subset
<1>4. Cardinality(DOMAIN Room(k, at)) \in Nat /\ Cardinality(DOMAIN buckets) \in Nat
  BY <1>2, <1>3, FS_CardinalityType
<1> QED
  BY <1>2, <1>3, <1>4, LimiterAssumption

LEMMA CountType == LimiterTypeOK /\ CountSweep => sinceSweep' \in 0..(SweepEvery - 1)
BY LimiterAssumption DEF LimiterTypeOK, CountSweep, SweepDue

LEMMA AccountType ==
  ASSUME LimiterTypeOK, NEW k, NEW at \in Nat, at <= clock, NEW cost \in Nat,
         Account(k, at, cost), UNCHANGED clock
  PROVE  /\ newest' \in 0..clock'
         /\ newest <= newest'
         /\ at <= newest'
         /\ ideal' \in [Keys -> Int]
<1>1. newest' \in 0..clock' /\ newest <= newest' /\ at <= newest'
  BY DEF LimiterTypeOK, Account, Larger
<1>2. \A x \in Keys : Smaller(ideal[x] + Larger(at - newest, 0) * PerMinute, Burst)
                        - (IF x = k THEN cost ELSE 0) \in Int
  <2> SUFFICES ASSUME NEW x \in Keys
               PROVE  Smaller(ideal[x] + Larger(at - newest, 0) * PerMinute, Burst)
                        - (IF x = k THEN cost ELSE 0) \in Int
    OBVIOUS
  <2> DEFINE G == Larger(at - newest, 0) * PerMinute
  <2>1. G \in Nat
    <3>1. Larger(at - newest, 0) \in Nat
      BY DEF LimiterTypeOK, Larger
    <3> QED
      BY <3>1, RegainType
  <2>2. ideal[x] \in Int /\ Burst \in Nat
    BY BurstFacts DEF LimiterTypeOK
  <2> HIDE DEF G
  <2>3. Smaller(ideal[x] + G, Burst) \in Int
    BY <2>1, <2>2 DEF Smaller
  <2> QED
    BY <2>3 DEF G
<1> QED
  BY <1>1, <1>2 DEF Account

(* A payment keeps the types, its bucket being within the burst. *)
LEMMA PaymentType ==
  ASSUME LimiterTypeOK, NEW r \in Requests, NEW cost, Pays(r, cost), CountSweep,
         UNCHANGED clock, promise' \in [Keys -> Nat \union {Never}]
  PROVE  LimiterTypeOK'
<1>0. PICK k \in Keys, at \in Nat : k = arrived[r].key /\ at = arrived[r].at /\ at <= clock
  BY ArrivalFacts DEF Pays
<1> DEFINE v == Accrued(BucketOf(k, at), at)
           R == Room(k, at)
<1>1. v \in 0..Burst /\ cost \in Nat /\ cost <= v
  BY <1>0, ChargedLevel DEF Pays
<1>2. v - cost \in 0..Burst
  BY <1>1, BurstFacts
<1>3. /\ newest' \in 0..clock' /\ newest <= newest' /\ at <= newest'
      /\ ideal' \in [Keys -> Int]
  <2>1. Account(k, at, cost)
    BY <1>0 DEF Pays
  <2> QED
    BY <1>0, <1>1, <2>1, AccountType
<1>4. buckets' = [x \in DOMAIN R \union {k} |->
                    IF x = k THEN [tokens |-> v - cost, last |-> at] ELSE R[x]]
  BY <1>0 DEF Pays, Settle
<1>5. /\ DOMAIN buckets' = DOMAIN R \union {k}
      /\ DOMAIN buckets' \subseteq Keys
  BY <1>4, RoomFacts DEF LimiterTypeOK
<1>6. buckets' \in [DOMAIN buckets' -> [tokens : 0..Burst', last : 0..newest']]
  <2>1. ASSUME NEW x \in DOMAIN buckets'
        PROVE  buckets'[x] \in [tokens : 0..Burst, last : 0..newest']
    <3>1. CASE x = k
      <4>1. buckets'[x] = [tokens |-> v - cost, last |-> at]
        BY <1>4, <1>5, <3>1
      <4>2. at \in 0..newest'
        BY <1>0, <1>3
      <4> QED
        BY <1>2, <4>1, <4>2
    <3>2. CASE x # k
      <4>1. x \in DOMAIN R /\ x \in DOMAIN buckets /\ buckets'[x] = buckets[x]
        BY <1>0, <1>4, <1>5, <2>1, <3>2, RoomFacts
      <4>2. buckets[x] \in [tokens : 0..Burst, last : 0..newest]
        BY <4>1 DEF LimiterTypeOK
      <4>3. 0..newest \subseteq 0..newest'
        BY <1>3 DEF LimiterTypeOK
      <4> QED
        BY <4>1, <4>2, <4>3
    <3> QED
      BY <3>1, <3>2
  <2> QED
    BY <1>4, <1>5, <2>1 DEF Burst
<1>7. /\ IsFiniteSet(DOMAIN buckets')
      /\ Cardinality(DOMAIN buckets') <= MaxTracked
  <2>1. /\ IsFiniteSet(DOMAIN R) /\ Cardinality(DOMAIN R) \in Nat
        /\ Cardinality(DOMAIN R) <= MaxTracked
    BY <1>0, RoomIsFinite
  <2>2. k \notin DOMAIN R => Cardinality(DOMAIN R) < MaxTracked
    BY <1>0, <2>1, LimiterAssumption DEF Pays, Full
  <2>3. /\ IsFiniteSet(DOMAIN R \union {k})
        /\ Cardinality(DOMAIN R \union {k}) =
             IF k \in DOMAIN R THEN Cardinality(DOMAIN R) ELSE Cardinality(DOMAIN R) + 1
    BY <2>1, FS_AddElement
  <2> HIDE DEF R
  <2> QED
    BY <1>5, <2>1, <2>2, <2>3, LimiterAssumption
<1>8. arrived' \in [Requests -> [key : Keys, at : 0..clock'] \union {NoArrival}]
  BY <1>0 DEF Pays, Settle, LimiterTypeOK
<1>9. rewound' \in [Keys -> Nat]
  <2>1. Larger(newest - at, 0) \in Nat
    BY <1>0 DEF LimiterTypeOK, Larger
  <2>2. rewound' = [rewound EXCEPT ![k] = @ + Larger(newest - at, 0)]
    BY <1>0 DEF Pays, Settle
  <2> QED
    BY <1>0, <2>1, <2>2 DEF LimiterTypeOK
<1>10. sinceSweep' \in 0..(SweepEvery - 1) /\ clock' \in Nat
  BY CountType DEF LimiterTypeOK
<1> HIDE DEF v, R
<1> QED
  BY <1>3, <1>5, <1>6, <1>7, <1>8, <1>9, <1>10 DEF LimiterTypeOK

-----------------------------------------------------------------------------
(* A caller that is throttled is tracked, and comes before its promise.     *)
LEMMA ThrottledEarly ==
  ASSUME LimiterTypeOK, PromiseFunded, NEW r \in Requests, Throttle(r)
  PROVE  /\ arrived[r].key \in DOMAIN buckets
         /\ LevelAt(arrived[r].key, arrived[r].at) < Minute
         /\ \/ promise[arrived[r].key] = Never
            \/ arrived[r].at < promise[arrived[r].key]
<1> DEFINE k == arrived[r].key
           at == arrived[r].at
<1>1. k \in Keys /\ at \in Nat
  BY ArrivalFacts DEF Throttle
<1>2. LevelAt(k, at) < Minute /\ LevelAt(k, at) \in 0..Burst
  BY <1>1, ChargedLevel DEF Throttle
<1>3. k \in DOMAIN buckets
  BY <1>2, BurstFacts, LimiterAssumption DEF LevelAt
<1>4. ASSUME promise[k] # Never, promise[k] <= at PROVE FALSE
  <2>1. promise[k] \in Nat
    BY <1>1, <1>4 DEF LimiterTypeOK
  <2>2. buckets[k] \in Bucket
    BY <1>3, BucketFacts
  <2>3. /\ Accrued(buckets[k], promise[k]) <= Accrued(buckets[k], at)
        /\ Accrued(buckets[k], promise[k]) \in 0..Burst
    BY <1>1, <1>4, <2>1, <2>2, AccruedFacts
  <2>4. Minute <= Accrued(buckets[k], promise[k])
    BY <1>1, <1>3, <1>4, LimiterAssumption DEF PromiseFunded
  <2>5. LevelAt(k, at) = Accrued(buckets[k], at)
    BY <1>3 DEF LevelAt
  <2> HIDE DEF k, at
  <2> QED
    BY <1>2, <2>3, <2>4, <2>5, BurstFacts, LimiterAssumption
<1>5. promise[k] \in Nat \union {Never}
  BY <1>1 DEF LimiterTypeOK
<1> QED
  BY <1>1, <1>2, <1>3, <1>4, <1>5 DEF Never

(* A key's funds for its promise last as long as nothing is charged to it. *)
LEMMA FundsLast ==
  ASSUME LimiterTypeOK, PromiseFunded, NEW k \in Keys, NEW at \in Nat, NEW x \in Keys,
         x \in DOMAIN buckets' => x \in DOMAIN Room(k, at) /\ buckets'[x] = Room(k, at)[x],
         promise'[x] = promise[x]
  PROVE  promise'[x] # Never /\ x \in DOMAIN buckets' =>
           Accrued(buckets'[x], promise'[x]) >= Minute
<1>1. x \in DOMAIN buckets' => x \in DOMAIN buckets /\ buckets'[x] = buckets[x]
  BY RoomFacts
<1> QED
  BY <1>1 DEF PromiseFunded

(* A refusal leaves a bucket that affords a request by the time it names.   *)
LEMMA RefusalFunds ==
  ASSUME LimiterTypeOK, PromiseFunded, NEW r \in Requests, Throttle(r),
         NEW k, k = arrived[r].key
  PROVE  /\ promise'[k] \in Nat
         /\ k \in DOMAIN buckets'
         /\ Accrued(buckets'[k], promise'[k]) >= Minute
<1> DEFINE at == arrived[r].at
           v == LevelAt(k, at)
           again == at + Wait(v)
           b == [tokens |-> v, last |-> at]
<1>1. k \in Keys /\ at \in Nat
  BY ArrivalFacts DEF Throttle
<1>2. /\ v \in 0..Burst
      /\ v < Minute
      /\ k \in DOMAIN buckets
      /\ promise[k] = Never \/ at < promise[k]
  BY <1>1, ChargedLevel, ThrottledEarly
<1>3. /\ k \in DOMAIN buckets'
      /\ buckets'[k] = b
      /\ promise'[k] = IF promise[k] = Never THEN again ELSE Smaller(promise[k], again)
  BY <1>1, ChargedLevel DEF Throttle, Settle, LimiterTypeOK
<1>4. /\ Wait(v) \in Nat
      /\ Minute <= v + Wait(v) * PerMinute
  BY <1>2, WaitCovers
<1>5. again \in Nat /\ at <= again /\ again - at = Wait(v)
  BY <1>1, <1>4
<1>6. \A p \in Nat : at <= p =>
        Accrued(b, p) = Smaller(v + (p - at) * PerMinute, Burst)
  BY <1>1 DEF Accrued, Elapsed, Smaller
<1>7. Accrued(b, again) >= Minute
  <2>1. Accrued(b, again) = Smaller(v + Wait(v) * PerMinute, Burst)
    BY <1>5, <1>6
  <2>2. Wait(v) * PerMinute \in Nat
    BY <1>4, RegainType
  <2> QED
    BY <1>2, <1>4, <2>1, <2>2, BurstFacts, LimiterAssumption DEF Smaller
<1>8. ASSUME promise[k] # Never
      PROVE  promise[k] \in Nat /\ Accrued(b, promise[k]) >= Minute
  <2>1. promise[k] \in Nat /\ at < promise[k]
    BY <1>1, <1>2, <1>8 DEF LimiterTypeOK
  <2>2. buckets[k] \in Bucket /\ v = Accrued(buckets[k], at)
    BY <1>2, BucketFacts DEF LevelAt
  <2> DEFINE G == (promise[k] - at) * PerMinute
             old == Accrued(buckets[k], promise[k])
  <2>3. old <= v + G /\ old \in 0..Burst
    BY <1>1, <2>1, <2>2, AccruedFacts
  <2>4. Minute <= old
    BY <1>1, <1>2, <1>8, <2>3, LimiterAssumption DEF PromiseFunded
  <2>5. G \in Nat
    BY <2>1, <1>1, RegainType
  <2>6. Accrued(b, promise[k]) = Smaller(v + G, Burst)
    BY <1>1, <1>6, <2>1
  <2> HIDE DEF old, G
  <2> QED
    BY <1>2, <2>1, <2>3, <2>4, <2>5, <2>6, BurstFacts, LimiterAssumption DEF Smaller
<1> HIDE DEF b, again
<1> QED
  BY <1>3, <1>5, <1>7, <1>8 DEF Smaller

-----------------------------------------------------------------------------
LEMMA LimiterStart == LimiterInit => LimiterInv
<1> SUFFICES ASSUME LimiterInit PROVE LimiterInv
  OBVIOUS
<1> USE DEF LimiterInit
<1>1. DOMAIN buckets = {}
  OBVIOUS
<1>2. IsFiniteSet({}) /\ Cardinality({}) = 0
  BY FS_EmptySet
<1>3. LimiterTypeOK
  <2>1. buckets \in [DOMAIN buckets -> [tokens : 0..Burst, last : 0..newest]]
    BY <1>1
  <2>2. IsFiniteSet(DOMAIN buckets) /\ Cardinality(DOMAIN buckets) <= MaxTracked
    BY <1>1, <1>2, LimiterAssumption
  <2> QED
    BY <1>1, <2>1, <2>2, BurstFacts, LimiterAssumption DEF LimiterTypeOK, Never
<1>4. LevelIsIdeal
  <2>1. 0 * PerMinute = 0
    BY LimiterAssumption
  <2>2. \A k \in Keys : Level(k) = Burst
    BY <1>1 DEF Level
  <2> QED
    BY <2>1, <2>2, BurstFacts DEF LevelIsIdeal
<1>5. PromiseFunded
  BY <1>1 DEF PromiseFunded
<1> QED
  BY <1>3, <1>4, <1>5 DEF LimiterInv

(* A request that is turned away changes no bucket but those it sweeps.     *)
LEMMA TurnAwayKeeps ==
  ASSUME LimiterInv, NEW r \in Requests, TurnAway(r)
  PROVE  LimiterInv'
<1> USE DEF LimiterInv
<1>0. PICK k \in Keys, at \in Nat : k = arrived[r].key /\ at = arrived[r].at /\ at <= clock
  BY ArrivalFacts DEF TurnAway
<1> DEFINE R == Room(k, at)
<1>1. /\ buckets' = R
      /\ Account(k, at, 0)
      /\ UNCHANGED <<clock, rewound, promise>>
      /\ CountSweep
      /\ arrived' = [arrived EXCEPT ![r] = NoArrival]
  BY <1>0 DEF TurnAway
<1>2. LimiterTypeOK'
  <2>1. /\ newest' \in 0..clock' /\ newest <= newest' /\ at <= newest'
        /\ ideal' \in [Keys -> Int]
    BY <1>0, <1>1, AccountType
  <2>2. /\ DOMAIN R \subseteq DOMAIN buckets
        /\ \A x \in DOMAIN R : R[x] = buckets[x]
    BY <1>0, RoomFacts
  <2>3. buckets' \in [DOMAIN buckets' -> [tokens : 0..Burst', last : 0..newest']]
    <3>1. ASSUME NEW x \in DOMAIN R PROVE R[x] \in [tokens : 0..Burst, last : 0..newest']
      <4>1. buckets[x] \in [tokens : 0..Burst, last : 0..newest]
        BY <2>2, <3>1 DEF LimiterTypeOK
      <4>2. 0..newest \subseteq 0..newest'
        BY <2>1 DEF LimiterTypeOK
      <4> QED
        BY <2>2, <4>1, <4>2
    <3>2. R = [x \in DOMAIN R |-> R[x]]
      BY DEF Room, Swept, Kept, LimiterTypeOK
    <3> HIDE DEF R
    <3> QED
      BY <1>1, <3>1, <3>2 DEF Burst
  <2>4. /\ IsFiniteSet(DOMAIN buckets')
        /\ Cardinality(DOMAIN buckets') <= MaxTracked
    BY <1>0, <1>1, RoomIsFinite
  <2> QED
    BY <1>1, <2>1, <2>2, <2>3, <2>4, CountType DEF LimiterTypeOK
<1>3. LevelIsIdeal'
  <2>1. ASSUME NEW x \in Keys
        PROVE  /\ ideal'[x] <= Level(x)'
               /\ Level(x)' <= ideal'[x] + rewound'[x] * PerMinute
    BY <1>0, <1>1, OthersKeep
  <2> QED
    BY <2>1 DEF LevelIsIdeal
<1>4. PromiseFunded'
  <2>1. ASSUME NEW x \in Keys
        PROVE  promise'[x] # Never /\ x \in DOMAIN buckets' =>
                 Accrued(buckets'[x], promise'[x]) >= Minute
    BY <1>0, <1>1, FundsLast
  <2> QED
    BY <2>1 DEF PromiseFunded, Accrued, Elapsed, Burst
<1> QED
  BY <1>2, <1>3, <1>4

(* A request that is admitted or throttled. *)
LEMMA PaymentKeeps ==
  ASSUME LimiterInv, NEW r \in Requests, Admit(r) \/ Throttle(r)
  PROVE  LimiterInv'
<1> USE DEF LimiterInv
<1>0. PICK k \in Keys, at \in Nat : k = arrived[r].key /\ at = arrived[r].at
  BY ArrivalFacts DEF Admit, Throttle
<1>1. PICK cost : Pays(r, cost)
  BY AdmitPays, ThrottlePays
<1>2. CountSweep /\ UNCHANGED clock
  BY DEF Admit, Throttle
<1>3. /\ \A x \in Keys \ {k} : promise'[x] = promise[x]
      /\ Admit(r) => promise'[k] = Never
      /\ promise' \in [Keys -> Nat \union {Never}]
  <2>1. CASE Admit(r)
    <3>1. promise' = [promise EXCEPT ![k] = Never]
      BY <1>0, <2>1 DEF Admit
    <3> QED
      BY <3>1 DEF LimiterTypeOK
  <2>2. CASE ~Admit(r) /\ Throttle(r)
    <3>1. promise'[k] \in Nat
      BY <1>0, <2>2, RefusalFunds
    <3>2. \E p : promise' = [promise EXCEPT ![k] = p]
      BY <1>0, <2>2 DEF Throttle
    <3> QED
      BY <2>2, <3>1, <3>2 DEF LimiterTypeOK
  <2> QED
    BY <2>1, <2>2
<1>4. LimiterTypeOK'
  BY <1>1, <1>2, <1>3, PaymentType
<1>5. LevelIsIdeal'
  BY <1>1, PaymentKeepsLevels
<1>6. ASSUME NEW x \in Keys
      PROVE  promise'[x] # Never /\ x \in DOMAIN buckets' =>
               Accrued(buckets'[x], promise'[x]) >= Minute
  <2>1. CASE x # k
    <3>1. x \in DOMAIN buckets' =>
            x \in DOMAIN Room(k, at) /\ buckets'[x] = Room(k, at)[x]
      BY <1>0, <1>1, <2>1 DEF Pays, Settle
    <3> QED
      BY <1>3, <2>1, <3>1, FundsLast
  <2>2. CASE x = k /\ Admit(r)
    BY <1>3, <2>2
  <2>3. CASE x = k /\ Throttle(r)
    BY <1>0, <2>3, RefusalFunds
  <2> QED
    BY <2>1, <2>2, <2>3
<1>7. PromiseFunded'
  BY <1>6 DEF PromiseFunded, Accrued, Elapsed, Burst
<1> QED
  BY <1>4, <1>5, <1>7

LEMMA LimiterKeeps == LimiterInv /\ [LimiterNext]_limiter => LimiterInv'
<1> SUFFICES ASSUME LimiterInv, [LimiterNext]_limiter PROVE LimiterInv'
  OBVIOUS
<1>1. ASSUME UNCHANGED <<buckets, newest, ideal, rewound, promise>>, LimiterTypeOK'
      PROVE  LimiterInv'
  BY <1>1 DEF LimiterInv, LevelIsIdeal, Level, PromiseFunded
<1>2. CASE Tick
  <2>1. LimiterTypeOK'
    BY <1>2 DEF Tick, LimiterInv, LimiterTypeOK, limiterVars, ghosts, Burst
  <2> QED
    BY <1>1, <1>2, <2>1 DEF Tick, limiterVars, ghosts
<1>3. ASSUME NEW r \in Requests, NEW k \in Keys, Arrive(r, k) PROVE LimiterInv'
  <2>1. LimiterTypeOK'
    BY <1>3 DEF Arrive, LimiterInv, LimiterTypeOK, ghosts, Burst
  <2> QED
    BY <1>1, <1>3, <2>1 DEF Arrive, ghosts
<1>4. ASSUME NEW r \in Requests, Admit(r) \/ Throttle(r) PROVE LimiterInv'
  BY <1>4, PaymentKeeps
<1>5. ASSUME NEW r \in Requests, TurnAway(r) PROVE LimiterInv'
  BY <1>5, TurnAwayKeeps
<1>6. CASE UNCHANGED limiter
  <2>1. LimiterTypeOK'
    BY <1>6 DEF limiter, limiterVars, ghosts, LimiterInv, LimiterTypeOK, Burst
  <2> QED
    BY <1>1, <1>6, <2>1 DEF limiter, limiterVars, ghosts
<1> QED
  BY <1>2, <1>3, <1>4, <1>5, <1>6 DEF LimiterNext

(* The inductive invariant holds throughout.                                *)
LEMMA LimiterInvariance == LimiterSpec => []LimiterInv
<1>1. LimiterInit => LimiterInv
  BY LimiterStart
<1>2. LimiterInv /\ [LimiterNext]_limiter => LimiterInv'
  BY LimiterKeeps
<1> QED
  BY <1>1, <1>2, PTL DEF LimiterSpec, limiter

(* The types, the ceiling of tracked tokens and the burst of each bucket.   *)
THEOREM LimiterTypeCorrect == LimiterSpec => []LimiterTypeOK
<1>1. LimiterInv => LimiterTypeOK
  BY DEF LimiterInv
<1> QED
  BY <1>1, LimiterInvariance, PTL

(* Forgetting idle tokens, refusing unknown ones and charging requests late *)
(* gives nobody more than is regained in the seconds by which they were     *)
(* late, and nobody less.                                                   *)
THEOREM ForgettingIsFree == LimiterSpec => []LevelIsIdeal
<1>1. LimiterInv => LevelIsIdeal
  BY DEF LimiterInv
<1> QED
  BY <1>1, LimiterInvariance, PTL

(* Whoever comes back when Retry-After said so is not throttled again,      *)
(* however many of its requests were refused and whatever was swept.        *)
THEOREM RetryAfterIsEnough == LimiterSpec => PromiseKept
<1>1. LimiterInv /\ [LimiterNext]_limiter =>
        [\A r \in Requests :
           LET k == arrived[r].key
               at == arrived[r].at IN
           Throttle(r) => promise[k] = Never \/ at < promise[k]]_limiter
  BY ThrottledEarly DEF LimiterInv
<1> QED
  BY <1>1, LimiterInvariance, PTL DEF LimiterSpec, PromiseKept, limiter

-----------------------------------------------------------------------------
(* Authentication and the dashboard.                                       *)

(* Nothing is remembered that has not happened yet. *)
LossesArePast == \A k \in Tokens : lastUsable[k] <= now

(* A call that runs has a token that was in force since it arrived.         *)
CallsRestOnTokens ==
  \A r \in Slots : calls[r] # Quiet =>
    /\ calls[r].since <= now
    /\ calls[r].at = "serving" => calls[r].since <= LastUsable(calls[r].key)

(* A grant, and a page made with one, rest on a token that was in force     *)
(* when the login looked it up; a page is made before its grant expires.    *)
GrantsRestOnTokens ==
  /\ cookie # Quiet => cookie.proved <= LastUsable(cookie.key)
  /\ page # Quiet =>
       /\ page.proved <= LastUsable(page.key)
       /\ page.at = "shown" => page.checked < page.issued + GrantTtl

AccessInv == TypeOK /\ LossesArePast /\ CallsRestOnTokens /\ GrantsRestOnTokens

-----------------------------------------------------------------------------
LEMMA AccessInit == Init => AccessInv
<1> SUFFICES ASSUME Init PROVE AccessInv
  OBVIOUS
<1> USE DEF Init
<1>1. TypeOK
  BY AccessAssumption DEF TypeOK, Instants, NoTime
<1>2. LossesArePast
  <2>1. NoTime <= 0
    BY DEF NoTime
  <2> QED
    BY <2>1 DEF LossesArePast
<1>3. CallsRestOnTokens /\ GrantsRestOnTokens
  BY DEF CallsRestOnTokens, GrantsRestOnTokens
<1> QED
  BY <1>1, <1>2, <1>3 DEF AccessInv

(* The instant at which a token was last in force. *)
LEMMA LastUsableType ==
  ASSUME TypeOK, NEW k \in Tokens
  PROVE  LastUsable(k) \in Instants /\ now \in Nat /\ Instants \subseteq Int
BY AccessAssumption DEF TypeOK, Instants, NoTime, LastUsable

(* The steps of calls and of the browser, which leave the tokens alone.     *)
CallStep(r) ==
  \/ \E k \in Tokens : Present(r, k)
  \/ Charge(r) \/ TooMany(r) \/ RefuseSession(r)
  \/ Authenticate(r) \/ Reject(r) \/ Answer(r)

BrowserStep ==
  \/ \E k \in Tokens : Login(k) \/ ShowByToken(k)
  \/ IssueGrant \/ ShowByGrant \/ SendPage

(* The steps of the clock and of the operator, which leave calls and pages. *)
OutsideStep ==
  \/ TimePasses
  \/ \E k \in Tokens : IssueToken(k) \/ RevokeToken(k)
  \/ \E a \in Agents : DisableAgent(a) \/ AddAgent(a)

LEMMA NextSplits ==
  Next <=> OutsideStep \/ BrowserStep \/ \E r \in Slots : CallStep(r)
BY DEF Next, OutsideStep, BrowserStep, CallStep

(* A step of a call or of the browser takes no time and changes no token.   *)
LEMMA OthersLeaveTokens ==
  ASSUME BrowserStep \/ \E r \in Slots : CallStep(r)
  PROVE  UNCHANGED <<now, credentials>>
<1>1. CASE BrowserStep
  BY <1>1 DEF BrowserStep, Login, ShowByToken, IssueGrant, ShowByGrant, SendPage, credentials
<1>2. ASSUME NEW r \in Slots, CallStep(r) PROVE UNCHANGED <<now, credentials>>
  BY <1>2 DEF CallStep, Present, Charge, TooMany, RefuseSession, Authenticate, Reject, Answer,
              credentials
<1> QED
  BY <1>1, <1>2

-----------------------------------------------------------------------------
(* The tokens lost with a step were in force until now.                     *)
LEMMA LossesNoted ==
  ASSUME TypeOK, LossesArePast, NoteLosses, UNCHANGED now, NEW k \in Tokens
  PROVE  /\ lastUsable' \in [Tokens -> Instants]
         /\ lastUsable'[k] <= now'
         /\ LastUsable(k) <= LastUsable(k)'
<1> USE AccessAssumption DEF TypeOK, LossesArePast, Instants, NoTime
<1>1. now \in Instants /\ now \in Int
  OBVIOUS
<1>2. lastUsable'[k] = IF Usable(k) /\ ~Usable(k)' THEN now ELSE lastUsable[k]
  BY DEF NoteLosses
<1>3. lastUsable' \in [Tokens -> Instants]
  <2>1. \A x \in Tokens :
          (IF Usable(x) /\ ~Usable(x)' THEN now ELSE lastUsable[x]) \in Instants
    BY <1>1
  <2> QED
    BY <2>1 DEF NoteLosses
<1>4. lastUsable[k] <= now /\ lastUsable[k] \in Int
  OBVIOUS
<1> QED
  BY <1>1, <1>2, <1>3, <1>4 DEF LastUsable

(* The operator and the clock never put off the instant a token was last in *)
(* force to an earlier one.                                                 *)
LEMMA OutsideKeepsTokens ==
  ASSUME TypeOK, LossesArePast, OutsideStep
  PROVE  /\ TypeOK'
         /\ LossesArePast'
         /\ \A k \in Tokens : LastUsable(k) <= LastUsable(k)'
         /\ now <= now'
         /\ UNCHANGED <<calls, dashboard>>
<1> USE AccessAssumption DEF dashboard
<1> DEFINE Goal == /\ TypeOK'
                   /\ LossesArePast'
                   /\ \A k \in Tokens : LastUsable(k) <= LastUsable(k)'
                   /\ now <= now'
                   /\ UNCHANGED <<calls, dashboard>>
<1>1. CASE TimePasses
  BY <1>1, LastUsableType
     DEF TimePasses, credentials, TypeOK, LossesArePast, LastUsable, Usable, Instants, NoTime
<1>2. ASSUME NEW a \in Agents, AddAgent(a) PROVE Goal
  BY <1>2 DEF AddAgent, TypeOK, LossesArePast, LastUsable, Usable, Instants, NoTime
<1>3. ASSUME NEW k \in Tokens, IssueToken(k) PROVE Goal
  BY <1>3 DEF IssueToken, TypeOK, LossesArePast, LastUsable, Usable, Instants, NoTime
<1>4. ASSUME NEW a \in Agents, DisableAgent(a) PROVE Goal
  <2>1. /\ now <= now'
        /\ lastUsable' \in [Tokens -> Instants]
        /\ \A k \in Tokens : lastUsable'[k] <= now' /\ LastUsable(k) <= LastUsable(k)'
    <3>1. NoteLosses /\ UNCHANGED now
      BY <1>4 DEF DisableAgent
    <3>2. lastUsable' \in [Tokens -> Instants]
      BY <3>1, LossesNoted DEF NoteLosses
    <3> QED
      BY <3>1, <3>2, LossesNoted DEF TypeOK
  <2>2. TypeOK'
    BY <1>4, <2>1 DEF DisableAgent, TypeOK
  <2> QED
    BY <1>4, <2>1, <2>2 DEF DisableAgent, LossesArePast
<1>5. ASSUME NEW x \in Tokens, RevokeToken(x) PROVE Goal
  <2>1. /\ now <= now'
        /\ lastUsable' \in [Tokens -> Instants]
        /\ \A k \in Tokens : lastUsable'[k] <= now' /\ LastUsable(k) <= LastUsable(k)'
    BY <1>5, LossesNoted DEF RevokeToken, TypeOK
  <2>2. TypeOK'
    BY <1>5, <2>1 DEF RevokeToken, TypeOK
  <2> QED
    BY <1>5, <2>1, <2>2 DEF RevokeToken, LossesArePast
<1> QED
  BY <1>1, <1>2, <1>3, <1>4, <1>5 DEF OutsideStep

-----------------------------------------------------------------------------
(* The invariant survives the clock and the operator, since no instant of   *)
(* last use recedes.                                                        *)
LEMMA OutsideKeeps == AccessInv /\ OutsideStep => AccessInv'
<1> SUFFICES ASSUME AccessInv, OutsideStep PROVE AccessInv'
  OBVIOUS
<1> USE DEF AccessInv
<1>1. /\ TypeOK'
      /\ LossesArePast'
      /\ \A k \in Tokens : LastUsable(k) <= LastUsable(k)'
      /\ now <= now'
      /\ UNCHANGED <<calls, cookie, page>>
  BY OutsideKeepsTokens DEF dashboard
<1>2. /\ now \in Nat /\ now' \in Nat
      /\ \A k \in Tokens : LastUsable(k) \in Int /\ LastUsable(k)' \in Int
  BY <1>1, AccessAssumption DEF LastUsable, TypeOK, Instants, NoTime
<1>3. CallsRestOnTokens'
  <2> SUFFICES ASSUME NEW r \in Slots, calls[r] # Quiet
               PROVE  /\ calls[r].since <= now'
                      /\ calls[r].at = "serving" =>
                           calls[r].since <= LastUsable(calls[r].key)'
    BY <1>1 DEF CallsRestOnTokens
  <2>1. calls[r].key \in Tokens /\ calls[r].since \in Nat
    BY DEF TypeOK, Call
  <2>2. /\ calls[r].since <= now
        /\ calls[r].at = "serving" => calls[r].since <= LastUsable(calls[r].key)
    BY DEF CallsRestOnTokens
  <2> QED
    BY <1>1, <1>2, <2>1, <2>2
<1>4. GrantsRestOnTokens'
  <2>1. ASSUME cookie # Quiet PROVE cookie.proved <= LastUsable(cookie.key)'
    <3>1. cookie.key \in Tokens /\ cookie.proved \in Nat
      BY <2>1 DEF TypeOK, Grant
    <3> QED
      BY <1>1, <1>2, <2>1, <3>1 DEF GrantsRestOnTokens
  <2>2. ASSUME page # Quiet PROVE page.proved <= LastUsable(page.key)'
    <3>1. page.key \in Tokens /\ page.proved \in Nat
      BY <2>2 DEF TypeOK, Page
    <3> QED
      BY <1>1, <1>2, <2>2, <3>1 DEF GrantsRestOnTokens
  <2> QED
    BY <1>1, <2>1, <2>2 DEF GrantsRestOnTokens
<1> QED
  BY <1>1, <1>3, <1>4

(* A call is let in by a lookup that finds its token in force.              *)
LEMMA CallKeeps ==
  ASSUME AccessInv, NEW r \in Slots, CallStep(r)
  PROVE  AccessInv'
<1> USE DEF AccessInv
<1> DEFINE c == calls'[r]
           Sound == /\ c \in Call \union {Quiet}
                    /\ c # Quiet =>
                         /\ c.since <= now
                         /\ c.at = "serving" => c.since <= LastUsable(c.key)
<1>1. UNCHANGED <<now, issued, revoked, disabled, changes, lastUsable>>
  BY OthersLeaveTokens DEF credentials
<1>2. UNCHANGED <<cookie, page>>
  BY DEF CallStep, Present, Charge, TooMany, RefuseSession, Authenticate, Reject, Answer,
         dashboard
<1>3. \A k \in Tokens : LastUsable(k)' = LastUsable(k)
  BY <1>1 DEF LastUsable, Usable
<1>4. calls' = [calls EXCEPT ![r] = c]
  BY DEF CallStep, Present, Charge, TooMany, RefuseSession, Authenticate, Reject, Answer,
         TypeOK
<1>5. Sound
  <2>0. calls \in [Slots -> Call \union {Quiet}] /\ now \in Nat
    BY AccessAssumption DEF TypeOK
  <2>1. ASSUME NEW k \in Tokens, Present(r, k) PROVE Sound
    <3>1. c = [at |-> "arrived", key |-> k, since |-> now]
      BY <2>0, <2>1 DEF Present
    <3> HIDE DEF c
    <3> QED
      BY <2>0, <3>1 DEF Call
  <2>2. CASE Charge(r)
    <3>1. calls[r] \in Call /\ c = [calls[r] EXCEPT !.at = "charged"] /\ calls[r].since <= now
      BY <2>0, <2>2 DEF Charge, CallsRestOnTokens
    <3> HIDE DEF c
    <3> QED
      BY <3>1 DEF Call
  <2>3. CASE Authenticate(r)
    <3>1. /\ calls[r] \in Call
          /\ c = [calls[r] EXCEPT !.at = "serving"]
          /\ calls[r].since <= now
          /\ LastUsable(calls[r].key) = now
      BY <2>0, <2>3 DEF Authenticate, CallsRestOnTokens, Resolves, LastUsable, Usable
    <3> HIDE DEF c
    <3> QED
      BY <2>0, <3>1 DEF Call
  <2>4. CASE TooMany(r) \/ RefuseSession(r) \/ Reject(r) \/ Answer(r)
    BY <2>0, <2>4 DEF TooMany, RefuseSession, Reject, Answer
  <2> QED
    BY <2>1, <2>2, <2>3, <2>4 DEF CallStep
<1> HIDE DEF c
<1>6. TypeOK'
  BY <1>1, <1>2, <1>4, <1>5 DEF TypeOK
<1>7. LossesArePast'
  BY <1>1 DEF LossesArePast
<1>8. CallsRestOnTokens'
  <2> SUFFICES ASSUME NEW s \in Slots, calls'[s] # Quiet
               PROVE  /\ calls'[s].since <= now
                      /\ calls'[s].at = "serving" =>
                           calls'[s].since <= LastUsable(calls[s].key)'
    BY <1>1 DEF CallsRestOnTokens
  <2>1. LastUsable(calls[s].key)' = LastUsable(calls'[s].key)
    BY <1>1 DEF LastUsable, Usable
  <2>2. /\ calls'[s].since <= now
        /\ calls'[s].at = "serving" => calls'[s].since <= LastUsable(calls'[s].key)
    BY <1>4, <1>5 DEF CallsRestOnTokens, TypeOK
  <2> QED
    BY <2>1, <2>2
<1>9. GrantsRestOnTokens'
  BY <1>2, <1>3 DEF GrantsRestOnTokens, TypeOK, Grant, Page
<1> QED
  BY <1>6, <1>7, <1>8, <1>9

(* A grant is signed for a token that was looked up, and a page is made     *)
(* with a grant that has not expired or a token that is in force.           *)
LEMMA BrowserKeeps == AccessInv /\ BrowserStep => AccessInv'
<1> SUFFICES ASSUME AccessInv, BrowserStep PROVE AccessInv'
  OBVIOUS
<1> USE DEF AccessInv
<1> DEFINE Sound ==
             /\ cookie' \in Grant \union {Quiet}
             /\ page' \in Page \union {Quiet}
             /\ cookie' # Quiet => cookie'.proved <= LastUsable(cookie'.key)
             /\ page' # Quiet =>
                  /\ page'.proved <= LastUsable(page'.key)
                  /\ page'.at = "shown" => page'.checked < page'.issued + GrantTtl
<1>1. UNCHANGED <<now, issued, revoked, disabled, changes, lastUsable>>
  BY OthersLeaveTokens DEF credentials
<1>2. UNCHANGED calls
  BY DEF BrowserStep, Login, ShowByToken, IssueGrant, ShowByGrant, SendPage
<1>3. \A k \in Tokens : LastUsable(k)' = LastUsable(k)
  BY <1>1 DEF LastUsable, Usable
<1>4. /\ now \in Nat /\ GrantTtl \in Nat \ {0}
      /\ \A k \in Tokens : Resolves(k) => LastUsable(k) = now
  BY AccessAssumption DEF TypeOK, Resolves, LastUsable, Usable
<1>5. Sound
  <2> USE DEF TypeOK, GrantsRestOnTokens
  <2>1. ASSUME NEW k \in Tokens, Login(k) PROVE Sound
    BY <1>4, <2>1 DEF Login, Page, Instants
  <2>2. ASSUME NEW k \in Tokens, ShowByToken(k) PROVE Sound
    BY <1>4, <2>2 DEF ShowByToken, Page, Instants
  <2>3. CASE IssueGrant
    BY <1>4, <2>3 DEF IssueGrant, Page, Grant
  <2>4. CASE ShowByGrant
    BY <1>4, <2>4 DEF ShowByGrant, HoldsGrant, Valid, Page, Grant, Instants
  <2>5. CASE SendPage
    BY <2>5 DEF SendPage
  <2> QED
    BY <2>1, <2>2, <2>3, <2>4, <2>5 DEF BrowserStep
<1>6. TypeOK'
  BY <1>1, <1>2, <1>5 DEF TypeOK
<1>7. LossesArePast'
  BY <1>1 DEF LossesArePast
<1>8. CallsRestOnTokens'
  BY <1>1, <1>2, <1>3 DEF CallsRestOnTokens, TypeOK, Call
<1>9. GrantsRestOnTokens'
  <2>1. /\ cookie' # Quiet => cookie'.key \in Tokens
        /\ page' # Quiet => page'.key \in Tokens
    BY <1>5 DEF Grant, Page
  <2> QED
    BY <1>3, <1>5, <2>1 DEF GrantsRestOnTokens
<1> QED
  BY <1>6, <1>7, <1>8, <1>9

LEMMA AccessStep == AccessInv /\ [Next]_vars => AccessInv'
<1>1. AccessInv /\ UNCHANGED vars => AccessInv'
  BY DEF vars, credentials, dashboard, AccessInv, TypeOK, LossesArePast, CallsRestOnTokens,
         GrantsRestOnTokens, LastUsable, Usable
<1> QED
  BY <1>1, NextSplits, OutsideKeeps, BrowserKeeps, CallKeeps

(* The invariant holds in every reachable state. *)
LEMMA AccessInvariance == Spec => []AccessInv
BY AccessInit, AccessStep, PTL DEF Spec

(* The types, and that what is revoked was issued.                          *)
THEOREM AccessTypeCorrect == Spec => []TypeOK
<1>1. AccessInv => TypeOK
  BY DEF AccessInv
<1> QED
  BY <1>1, AccessInvariance, PTL

(* require_bearer: whoever is served was let in with a token that was in    *)
(* force at some moment since the call arrived.                             *)
THEOREM ServedWithToken == Spec => []ServedWasUsable
<1>1. AccessInv => ServedWasUsable
  <2> SUFFICES ASSUME AccessInv, NEW r \in Slots, calls[r] # Quiet, calls[r].at = "serving"
               PROVE  LastUsable(calls[r].key) >= calls[r].since
    BY DEF ServedWasUsable
  <2>1. calls[r].key \in Tokens /\ calls[r].since \in Nat
    BY DEF AccessInv, TypeOK, Call
  <2>2. LastUsable(calls[r].key) \in Int
    BY <2>1, LastUsableType DEF AccessInv
  <2>3. calls[r].since <= LastUsable(calls[r].key)
    BY DEF AccessInv, CallsRestOnTokens
  <2> QED
    BY <2>1, <2>2, <2>3
<1> QED
  BY <1>1, AccessInvariance, PTL

(* The dashboard: a page outlives its token by less than a grant's life and *)
(* the time its login took.                                                 *)
THEOREM PagesEndWithGrants == Spec => []PagesEnd
<1>1. AccessInv => PagesEnd
  <2> SUFFICES ASSUME AccessInv, page # Quiet, page.at = "shown"
               PROVE  page.checked - LastUsable(page.key)
                        < GrantTtl + (page.issued - page.proved)
    BY DEF PagesEnd
  <2>1. /\ page.key \in Tokens /\ page.proved \in Nat
        /\ page.issued \in Int /\ page.checked \in Int
    BY DEF AccessInv, TypeOK, Page, Instants, NoTime
  <2>2. LastUsable(page.key) \in Int
    BY <2>1, LastUsableType DEF AccessInv
  <2>3. GrantTtl \in Int
    BY AccessAssumption
  <2>4. page.proved <= LastUsable(page.key) /\ page.checked < page.issued + GrantTtl
    BY DEF AccessInv, GrantsRestOnTokens
  <2> QED
    BY <2>1, <2>2, <2>3, <2>4
<1> QED
  BY <1>1, AccessInvariance, PTL

(* No handler runs under the token. *)
Silent(k) ==
  \A r \in Slots : calls[r] # Quiet => ~(calls[r].at = "serving" /\ calls[r].key = k)

(* Only Authenticate lets a token in, and it refuses one that is revoked.   *)
LEMMA SilenceKeeps ==
  ASSUME TypeOK, NEW k \in Tokens, k \in revoked, Silent(k), [Next]_vars
  PROVE  k \in revoked' /\ Silent(k)'
<1>1. ASSUME NEW r \in Slots, CallStep(r) PROVE Silent(k)'
  <2>1. \A s \in Slots \ {r} : calls'[s] = calls[s]
    BY <1>1 DEF CallStep, Present, Charge, TooMany, RefuseSession, Authenticate, Reject, Answer,
                TypeOK
  <2>2. calls'[r] # Quiet => ~(calls'[r].at = "serving" /\ calls'[r].key = k)
    <3>1. CASE \E x \in Tokens : Present(r, x)
      BY <3>1 DEF Present, TypeOK
    <3>2. CASE Charge(r)
      BY <3>2 DEF Charge, TypeOK, Call
    <3>3. CASE Authenticate(r)
      <4>1. calls[r] \in Call /\ calls[r].key # k
        BY <3>3 DEF Authenticate, Resolves, TypeOK
      <4> QED
        BY <3>3, <4>1 DEF Authenticate, TypeOK, Call
    <3>4. CASE TooMany(r) \/ RefuseSession(r) \/ Reject(r) \/ Answer(r)
      BY <3>4 DEF TooMany, RefuseSession, Reject, Answer, TypeOK
    <3> QED
      BY <1>1, <3>1, <3>2, <3>3, <3>4 DEF CallStep
  <2> QED
    BY <2>1, <2>2 DEF Silent
<1>2. ASSUME UNCHANGED calls PROVE Silent(k)'
  BY <1>2 DEF Silent
<1>3. BrowserStep \/ OutsideStep \/ UNCHANGED vars => UNCHANGED calls
  BY DEF BrowserStep, Login, ShowByToken, IssueGrant, ShowByGrant, SendPage, OutsideStep,
         TimePasses, IssueToken, RevokeToken, DisableAgent, AddAgent, vars
<1>4. revoked \subseteq revoked'
  <2>1. OutsideStep \/ UNCHANGED vars => revoked \subseteq revoked'
    BY DEF OutsideStep, TimePasses, IssueToken, RevokeToken, DisableAgent, AddAgent, vars,
           credentials
  <2> QED
    BY <2>1, NextSplits, OthersLeaveTokens DEF credentials
<1> QED
  BY <1>1, <1>2, <1>3, <1>4, NextSplits

(* resolve_token: once no handler runs under a revoked token, none ever     *)
(* does again, although its agent is disabled and added again; that those   *)
(* in progress come to an end is what fairness adds (RevokedFallsSilent).   *)
THEOREM RevokedStaysSilent ==
  ASSUME NEW k \in Tokens
  PROVE  Spec => [](k \in revoked /\ Silent(k) => []Silent(k))
<1>1. TypeOK /\ (k \in revoked /\ Silent(k)) /\ [Next]_vars => (k \in revoked /\ Silent(k))'
  BY SilenceKeeps
<1> QED
  BY <1>1, AccessTypeCorrect, PTL DEF Spec

-----------------------------------------------------------------------------
(* The Stop hook.                                                          *)

(* The ids that are newer than one of them. *)
Above(i, ids) == {j \in ids : j > i}

Questions == {i \in 1..Len(log) : log[i].kind = "question"}

(* The ids a window will have on file when its hook has written them.       *)
Known(h, ids) == IF h.at = "writing" THEN h.keep ELSE ids

(* The question a hook has chosen and not yet raised. *)
Chosen(h) == IF h.at \in {"writing", "marked"} THEN {h.id} ELSE {}

(* What is on file, or older than as many ids as the file keeps.            *)
Remembered(i, ids) == i \in ids \/ Cardinality(Above(i, ids)) >= FileSize

(* No reply to the question was there when the feed was read.               *)
OpenThen(id, upTo) ==
  \A i \in 1..Len(log) : log[i].kind = "mine" /\ log[i].re = id => i > upTo

(* One window, with its hook, its file and what it was held open for: the   *)
(* file holds questions, no newer than the feed a hook has read; a chosen   *)
(* one was open and is new to the window; and none is forgotten but for     *)
(* newer ones.                                                              *)
WindowInv(h, ids, old) ==
  /\ ids \subseteq Questions /\ Cardinality(ids) <= FileSize
  /\ h.keep \subseteq Questions /\ Cardinality(h.keep) <= FileSize
  /\ h.at = "read" => ids \subseteq 1..h.upTo
  /\ \A id \in Chosen(h) : id \in Questions \ old /\ OpenThen(id, h.upTo)
  /\ \A i \in old \union Chosen(h) : Remembered(i, Known(h, ids))

RepliesPointBack == \A i \in 1..Len(log) : log[i].re < i

HookInv ==
  /\ HookTypeOK
  /\ RepliesPointBack
  /\ \A w \in Windows : WindowInv(hook[w], file[w], raised[w])

-----------------------------------------------------------------------------
(* Every nonempty set of natural numbers has a least element.               *)
LEMMA LeastId ==
  ASSUME NEW S \in SUBSET Nat, NEW s \in S
  PROVE  \E m \in S : \A n \in S : m <= n
<1> DEFINE T == {0..n : n \in S}
<1>1. T \subseteq FiniteSubsetsOf(Nat)
  <2> SUFFICES ASSUME NEW n \in S PROVE 0..n \in FiniteSubsetsOf(Nat)
    OBVIOUS
  <2>1. IsFiniteSet(0..n)
    BY FS_Interval
  <2>2. 0..n \subseteq Nat
    OBVIOUS
  <2> QED
    BY <2>1, <2>2 DEF FiniteSubsetsOf
<1>2. 0..s \in T
  OBVIOUS
<1>3. PICK x \in T : \A y \in T : ~(<<y, x>> \in StrictSubsetOrdering(Nat))
  <2> HIDE DEF T
  <2> QED
    BY <1>1, <1>2, FS_StrictSubsetOrderingWellFounded, WFMin
<1>4. PICK m \in S : x = 0..m
  BY <1>3
<1>5. ASSUME NEW n \in S, n < m PROVE FALSE
  <2>1. 0..n \in SUBSET Nat /\ 0..m \in SUBSET Nat /\ 0..n \subseteq 0..m
    BY <1>5
  <2>2. m \in 0..m /\ m \notin 0..n
    BY <1>5
  <2>3. <<0..n, 0..m>> \in StrictSubsetOrdering(Nat)
    BY <2>1, <2>2 DEF StrictSubsetOrdering
  <2> QED
    BY <1>3, <1>4, <2>3
<1> QED
  BY <1>5

(* A nonempty set of ids has a greatest one. *)
LEMMA GreatestId ==
  ASSUME NEW n \in Nat, NEW S \in SUBSET (1..n), NEW s \in S
  PROVE  \E m \in S : \A i \in S : i <= m
<1> DEFINE T == {n - i : i \in S}
<1>1. T \in SUBSET Nat /\ n - s \in T
  OBVIOUS
<1>2. PICK x \in T : \A y \in T : x <= y
  <2> HIDE DEF T
  <2> QED
    BY <1>1, LeastId
<1>3. PICK m \in S : x = n - m
  BY <1>2
<1>4. ASSUME NEW i \in S PROVE i <= m
  <2>1. n - m <= n - i
    BY <1>2, <1>3
  <2> QED
    BY <2>1
<1> QED
  BY <1>4

(* Sets of ids are finite, and so are their parts. *)
LEMMA IdsAreFinite ==
  ASSUME NEW n \in Nat, NEW S \in SUBSET (1..n)
  PROVE  /\ IsFiniteSet(S) /\ Cardinality(S) \in Nat
         /\ \A R \in SUBSET S : /\ IsFiniteSet(R) /\ Cardinality(R) \in Nat
                                /\ Cardinality(R) <= Cardinality(S)
<1>1. IsFiniteSet(S)
  <2>1. IsFiniteSet(1..n)
    BY FS_Interval
  <2> QED
    BY <2>1, FS_Subset
<1> QED
  BY <1>1, FS_Subset, FS_CardinalityType

(* The newest n of some ids are at most n. *)
LEMMA NewestAreFew ==
  ASSUME NEW u \in Nat, NEW S \in SUBSET (1..u), NEW n \in Nat
  PROVE  Newest(S, n) \subseteq S /\ Cardinality(Newest(S, n)) <= n
<1> DEFINE N == Newest(S, n)
<1>1. /\ N \subseteq S
      /\ \A i \in N : Cardinality(Above(i, S)) < n
  BY DEF Newest, Above
<1> HIDE DEF N
<1>2. S \in SUBSET Nat
  OBVIOUS
<1>3. CASE N = {}
  BY <1>1, <1>3, FS_EmptySet DEF N
<1>4. CASE N # {}
  <2>1. N \in SUBSET Nat
    BY <1>1, <1>2
  <2>2. PICK m \in N : \A i \in N : m <= i
    BY <1>4, <2>1, LeastId
  <2> DEFINE A == Above(m, S)
  <2>3. IsFiniteSet(A) /\ Cardinality(A) \in Nat /\ Cardinality(A) < n
    BY <1>1, <2>2, IdsAreFinite DEF Above
  <2>4. N \subseteq A \union {m}
    <3> SUFFICES ASSUME NEW i \in N, i # m PROVE i \in S /\ i > m
      BY DEF Above
    <3> QED
      BY <1>1, <2>1, <2>2
  <2> HIDE DEF A
  <2>5. /\ IsFiniteSet(A \union {m})
        /\ Cardinality(A \union {m}) \in {Cardinality(A), Cardinality(A) + 1}
    BY <2>3, FS_AddElement
  <2>6. Cardinality(N) <= Cardinality(A \union {m}) /\ Cardinality(N) \in Nat
    BY <2>4, <2>5, FS_Subset, FS_CardinalityType
  <2>7. Cardinality(N) <= n
    BY <2>3, <2>5, <2>6
  <2> QED
    BY <1>1, <2>7 DEF N
<1> QED
  BY <1>3, <1>4 DEF N

(* An id that has n newer ones among some ids has n newer ones among the    *)
(* newest n of them.                                                        *)
LEMMA NewestStayAbove ==
  ASSUME NEW u \in Nat, NEW S \in SUBSET (1..u), NEW n \in Nat, NEW i \in Nat,
         Cardinality(Above(i, S)) >= n
  PROVE  Cardinality(Above(i, Newest(S, n))) >= n
<1> DEFINE B == {b \in S : b > i /\ Cardinality(Above(b, S)) >= n}
<1>0. /\ Newest(S, n) = {j \in S : Cardinality(Above(j, S)) < n}
      /\ Newest(S, n) \in SUBSET (1..u)
  BY DEF Newest, Above
<1>1. \A j \in S : Cardinality(Above(j, S)) \in Nat
  BY IdsAreFinite DEF Above
<1>2. Above(i, Newest(S, n)) \in SUBSET (1..u)
  BY <1>0 DEF Above
<1>3. CASE B = {}
  <2>1. Above(i, S) \subseteq Above(i, Newest(S, n))
    <3> SUFFICES ASSUME NEW j \in S, j > i PROVE j \in Newest(S, n)
      BY DEF Above
    <3>1. ~(Cardinality(Above(j, S)) >= n)
      BY <1>3
    <3> QED
      BY <1>0, <1>1, <3>1
  <2>2. Above(i, S) = Above(i, Newest(S, n))
    BY <1>0, <2>1 DEF Above
  <2> QED
    BY <2>2
<1>4. CASE B # {}
  <2>1. B \in SUBSET (1..u)
    OBVIOUS
  <2>2. PICK m \in B : \A b \in B : b <= m
    <3> HIDE DEF B
    <3> QED
      BY <1>4, <2>1, GreatestId
  <2>3. Above(m, S) \subseteq Above(i, Newest(S, n))
    <3> SUFFICES ASSUME NEW j \in S, j > m PROVE j > i /\ j \in Newest(S, n)
      BY DEF Above
    <3>1. j > i
      BY <2>2
    <3>2. j \notin B
      BY <2>2
    <3> QED
      BY <1>0, <1>1, <3>1, <3>2
  <2>4. /\ Cardinality(Above(m, S)) <= Cardinality(Above(i, Newest(S, n)))
        /\ Cardinality(Above(i, Newest(S, n))) \in Nat
    BY <1>2, <2>3, IdsAreFinite
  <2>5. Cardinality(Above(m, S)) >= n /\ Cardinality(Above(m, S)) \in Nat
    BY <1>1, <2>2
  <2> QED
    BY <2>4, <2>5
<1> QED
  BY <1>3, <1>4

(* The oldest of some ids is one of them. *)
LEMMA OldestIsOne ==
  ASSUME NEW u \in Nat, NEW S \in SUBSET (1..u), S # {}
  PROVE  Min(S) \in S /\ \A i \in S : Min(S) <= i
<1>1. S \in SUBSET Nat
  OBVIOUS
<1>2. PICK s \in S : TRUE
  OBVIOUS
<1>3. \E m \in S : \A i \in S : m <= i
  BY <1>1, <1>2, LeastId
<1> QED
  BY <1>3 DEF Min

-----------------------------------------------------------------------------
LEMMA HookStart == HookInit => HookInv
<1> SUFFICES ASSUME HookInit PROVE HookInv
  OBVIOUS
<1> USE DEF HookInit
<1>1. Len(log) = 0 /\ log \in Seq(Message)
  OBVIOUS
<1>2. Cardinality({}) = 0
  BY FS_EmptySet
<1>3. HookTypeOK
  BY <1>1, <1>2, StopDrainAssumption DEF HookTypeOK, Hook, Resting
<1>4. RepliesPointBack
  BY <1>1 DEF RepliesPointBack
<1>5. ASSUME NEW w \in Windows PROVE WindowInv(hook[w], file[w], raised[w])
  <2>1. hook[w] = Resting /\ file[w] = {} /\ raised[w] = {}
    OBVIOUS
  <2>2. Resting.at = "rest" /\ Resting.keep = {} /\ Chosen(Resting) = {}
    BY DEF Resting, Chosen
  <2>3. 0 <= FileSize
    BY StopDrainAssumption
  <2>4. WindowInv(Resting, {}, {})
    BY <1>2, <2>2, <2>3 DEF WindowInv
  <2> QED
    BY <2>1, <2>4
<1> QED
  BY <1>3, <1>4, <1>5 DEF HookInv

(* What is known of messages. *)
LEMMA MessageFacts ==
  ASSUME HookInv
  PROVE  /\ Len(log) \in Nat
         /\ \A i \in 1..Len(log) : /\ log[i] \in Message
                                   /\ log[i].re \in Nat /\ log[i].re < i
         /\ Questions \subseteq 1..Len(log)
<1>1. log \in Seq(Message)
  BY DEF HookInv, HookTypeOK
<1>2. \A i \in 1..Len(log) : log[i] \in Message
  BY <1>1
<1> QED
  BY <1>1, <1>2 DEF HookInv, RepliesPointBack, Message, Questions

(* The types of one window. *)
LEMMA WindowFacts ==
  ASSUME HookInv, NEW w \in Windows
  PROVE  /\ hook[w] \in Hook
         /\ file[w] \subseteq 1..Len(log)
         /\ raised[w] \subseteq 1..Len(log)
         /\ WindowInv(hook[w], file[w], raised[w])
BY DEF HookInv, HookTypeOK

-----------------------------------------------------------------------------
(* A question that is pending has not been raised: whatever the file has    *)
(* forgotten is older than FileSize questions of the feed, and so, the feed *)
(* being no longer, outside it.  And it was not answered: a reply is newer  *)
(* than its question, and in the feed if the question is.                   *)
LEMMA PendingIsNew ==
  ASSUME HookInv, NEW w \in Windows, hook[w].at = "read",
         NEW id \in Pending(w, hook[w].upTo)
  PROVE  id \in Questions \ raised[w] /\ OpenThen(id, hook[w].upTo)
<1> DEFINE n == hook[w].upTo
           V == Visible(n)
<1>1. /\ n \in 0..Len(log) /\ Len(log) \in Nat
      /\ WindowInv(hook[w], file[w], raised[w])
  BY WindowFacts, MessageFacts DEF Hook
<1>2. /\ id \in V /\ Cardinality(Above(id, V)) < FeedSize
      /\ log[id].kind = "question"
      /\ id \notin Answered(n) /\ id \notin file[w]
  BY DEF Pending, Feed, Newest, Above
<1>3. V \in SUBSET (1..n) /\ V \in SUBSET (1..Len(log)) /\ id \in 1..Len(log)
  BY <1>1, <1>2 DEF Visible
<1>4. id \in Questions
  BY <1>2, <1>3 DEF Questions
<1>5. id \notin raised[w]
  <2> SUFFICES ASSUME id \in raised[w] PROVE FALSE
    OBVIOUS
  <2>1. Remembered(id, file[w]) /\ file[w] \subseteq Questions /\ file[w] \subseteq 1..n
    BY <1>1 DEF WindowInv, Known
  <2>2. Cardinality(Above(id, file[w])) >= FileSize
    BY <1>2, <2>1 DEF Remembered
  <2>3. file[w] \subseteq V
    BY <2>1 DEF Questions, Visible
  <2>4. Above(id, file[w]) \subseteq Above(id, V) /\ Above(id, V) \subseteq V
    BY <2>3 DEF Above
  <2>5. Above(id, V) \in SUBSET (1..Len(log))
    BY <1>3, <2>4
  <2> HIDE DEF V, n
  <2>6. /\ Cardinality(Above(id, file[w])) <= Cardinality(Above(id, V))
        /\ Cardinality(Above(id, file[w])) \in Nat /\ Cardinality(Above(id, V)) \in Nat
    BY <1>1, <2>4, <2>5, IdsAreFinite
  <2> QED
    BY <1>2, <2>2, <2>6, StopDrainAssumption
<1>6. OpenThen(id, n)
  <2> SUFFICES ASSUME NEW i \in 1..Len(log), log[i].kind = "mine", log[i].re = id, ~(i > n)
               PROVE  FALSE
    BY DEF OpenThen
  <2>1. i \in V /\ i > id
    BY <1>1, <1>3, MessageFacts DEF Visible
  <2>2. Above(i, V) \subseteq Above(id, V) /\ Above(id, V) \subseteq V
    BY <1>3, <2>1 DEF Above
  <2>3. Above(id, V) \in SUBSET (1..Len(log))
    BY <1>3, <2>2
  <2>4. /\ Cardinality(Above(i, V)) <= Cardinality(Above(id, V))
        /\ Cardinality(Above(i, V)) \in Nat /\ Cardinality(Above(id, V)) \in Nat
    <3> HIDE DEF V, n
    <3> QED
      BY <1>1, <2>2, <2>3, IdsAreFinite
  <2>5. Cardinality(Above(i, V)) < FeedSize
    <3> HIDE DEF V, n
    <3> QED
      BY <1>2, <2>4, StopDrainAssumption
  <2>6. i \in Feed(n)
    BY <2>1, <2>5 DEF Feed, Newest, Above
  <2> QED
    BY <1>2, <2>6 DEF Answered
<1> QED
  BY <1>4, <1>5, <1>6

(* What a hook is about to write: the chosen question, and the newest of    *)
(* the file, so that what is left out is older than all of them.            *)
LEMMA FileRemembers ==
  ASSUME HookInv, NEW w \in Windows, hook[w].at = "read", NEW id \in Questions,
         NEW keep, keep = Bounded(file[w] \union {id})
  PROVE  /\ keep \subseteq Questions /\ Cardinality(keep) <= FileSize
         /\ \A i \in raised[w] \union {id} : Remembered(i, keep)
<1> DEFINE S == file[w] \union {id}
<1>1. /\ file[w] \subseteq Questions
      /\ \A i \in raised[w] : Remembered(i, file[w])
  BY WindowFacts DEF WindowInv, Known
<1>2. S \subseteq Questions /\ S \in SUBSET (1..Len(log)) /\ Len(log) \in Nat
  BY <1>1, MessageFacts
<1>3. keep = Newest(S, FileSize)
  BY DEF Bounded
<1>4. keep \subseteq S /\ Cardinality(keep) <= FileSize
  <2> HIDE DEF S
  <2> QED
    BY <1>2, <1>3, NewestAreFew, StopDrainAssumption
<1>5. ASSUME NEW i \in Nat, Cardinality(Above(i, S)) >= FileSize
      PROVE  Remembered(i, keep)
  <2> HIDE DEF S
  <2> QED
    BY <1>2, <1>3, <1>5, NewestStayAbove, StopDrainAssumption DEF Remembered
<1>6. ASSUME NEW i \in S PROVE Remembered(i, keep)
  <2>1. i \in Nat
    BY <1>2
  <2>2. i \in keep \/ ~(Cardinality(Above(i, S)) < FileSize)
    BY <1>3, <1>6 DEF Newest, Above
  <2>3. Cardinality(Above(i, S)) \in Nat
    <3>1. Above(i, S) \subseteq S
      BY DEF Above
    <3> HIDE DEF S
    <3> QED
      BY <1>2, <3>1, IdsAreFinite
  <2> HIDE DEF S
  <2> QED
    BY <1>5, <2>1, <2>2, <2>3, StopDrainAssumption DEF Remembered
<1>7. ASSUME NEW i \in raised[w], i \notin S PROVE Remembered(i, keep)
  <2>1. Cardinality(Above(i, file[w])) >= FileSize /\ i \in Nat
    BY <1>1, <1>7, WindowFacts, MessageFacts DEF Remembered
  <2>2. Above(i, file[w]) \subseteq Above(i, S) /\ Above(i, S) \subseteq S
    BY DEF Above
  <2> HIDE DEF S
  <2>3. /\ Cardinality(Above(i, file[w])) <= Cardinality(Above(i, S))
        /\ Cardinality(Above(i, file[w])) \in Nat /\ Cardinality(Above(i, S)) \in Nat
    <3>1. Above(i, S) \in SUBSET (1..Len(log))
      BY <1>2, <2>2
    <3> QED
      BY <1>2, <2>2, <3>1, IdsAreFinite
  <2>4. Cardinality(Above(i, S)) >= FileSize
    BY <2>1, <2>3, StopDrainAssumption
  <2> QED
    BY <1>5, <2>1, <2>4
<1>8. \A i \in raised[w] \union {id} : Remembered(i, keep)
  BY <1>6, <1>7
<1> QED
  BY <1>2, <1>4, <1>8

-----------------------------------------------------------------------------
(* A step of one window, which leaves it as it should be. *)
LEMMA WindowStep ==
  ASSUME HookInv, NEW w \in Windows, UNCHANGED log,
         NEW h \in Hook, hook' = [hook EXCEPT ![w] = h],
         NEW ids, file' = [file EXCEPT ![w] = ids],
         NEW old \in SUBSET (1..Len(log)), raised' = [raised EXCEPT ![w] = old],
         NEW lost \in SUBSET (1..Len(log)), swallowed' = [swallowed EXCEPT ![w] = lost],
         faults' \in 0..MaxFaults,
         WindowInv(h, ids, old)
  PROVE  HookInv'
<1>1. ids \in SUBSET (1..Len(log)) /\ Cardinality(ids) <= FileSize
  BY MessageFacts DEF WindowInv
<1>2. HookTypeOK'
  <2>1. HookTypeOK
    BY DEF HookInv
  <2>2. Hook' = Hook
    BY DEF Hook
  <2>3. /\ log' \in Seq(Message) /\ Len(log') <= MaxLog
        /\ hook' \in [Windows -> Hook]
        /\ file' \in [Windows -> SUBSET (1..Len(log'))]
        /\ \A x \in Windows : Cardinality(file'[x]) <= FileSize
        /\ raised' \in [Windows -> SUBSET (1..Len(log'))]
        /\ swallowed' \in [Windows -> SUBSET (1..Len(log'))]
    BY <1>1, <2>1 DEF HookTypeOK
  <2> QED
    BY <2>2, <2>3 DEF HookTypeOK
<1>3. RepliesPointBack'
  BY DEF HookInv, RepliesPointBack
<1>4. ASSUME NEW x \in Windows PROVE WindowInv(hook'[x], file'[x], raised'[x])
  BY DEF HookInv, HookTypeOK
<1>5. ASSUME NEW x \in Windows PROVE WindowInv(hook[x], file[x], raised[x])'
  BY <1>4 DEF WindowInv, Questions, OpenThen, Remembered, Known, Chosen, Above
<1> QED
  BY <1>2, <1>3, <1>5 DEF HookInv

(* A message that is posted is newer than any feed a hook has read. *)
LEMMA PostKeeps ==
  ASSUME HookInv, NEW m \in Message, Post(m)
  PROVE  HookInv'
<1>1. /\ log \in Seq(Message) /\ Len(log) \in Nat
      /\ log' = Append(log, m) /\ Len(log') = Len(log) + 1
      /\ log' \in Seq(Message) /\ Len(log') <= MaxLog
      /\ \A i \in 1..Len(log) : log'[i] = log[i]
      /\ log'[Len(log) + 1] = m
      /\ UNCHANGED <<hook, file, raised, swallowed, faults>>
  BY StopDrainAssumption DEF Post, HookInv, HookTypeOK
<1>2. \A i \in 1..Len(log') : i \in 1..Len(log) \/ i = Len(log) + 1
  BY <1>1
<1>3. 1..Len(log) \subseteq 1..Len(log') /\ 0..Len(log) \subseteq 0..Len(log')
  BY <1>1
<1>4. HookTypeOK'
  <2>1. HookTypeOK
    BY DEF HookInv
  <2>2. \A h \in Hook : h \in Hook'
    BY <1>3 DEF Hook
  <2>3. /\ hook' \in [Windows -> Hook']
        /\ file' \in [Windows -> SUBSET (1..Len(log'))]
        /\ raised' \in [Windows -> SUBSET (1..Len(log'))]
        /\ swallowed' \in [Windows -> SUBSET (1..Len(log'))]
    BY <1>1, <1>3, <2>1, <2>2 DEF HookTypeOK
  <2> QED
    BY <1>1, <2>1, <2>3 DEF HookTypeOK
<1>5. RepliesPointBack'
  BY <1>1, <1>2, MessageFacts DEF RepliesPointBack, Post
<1>6. Questions \subseteq Questions'
  BY <1>1, <1>3 DEF Questions
<1>7. ASSUME NEW w \in Windows PROVE WindowInv(hook[w], file[w], raised[w])'
  <2>1. WindowInv(hook[w], file[w], raised[w]) /\ hook[w] \in Hook
    BY WindowFacts
  <2>2. ASSUME NEW id, OpenThen(id, hook[w].upTo) PROVE OpenThen(id, hook[w].upTo)'
    <3>1. hook[w].upTo \in 0..Len(log)
      BY <2>1 DEF Hook
    <3>2. \A i \in 1..Len(log) :
            log[i].kind = "mine" /\ log[i].re = id => i > hook[w].upTo
      BY <2>2 DEF OpenThen
    <3>3. \A i \in 1..Len(log') :
            log'[i].kind = "mine" /\ log'[i].re = id => i > hook[w].upTo
      BY <1>1, <1>2, <3>1, <3>2
    <3> QED
      BY <1>1, <3>3 DEF OpenThen
  <2> QED
    BY <1>1, <1>6, <2>1, <2>2 DEF WindowInv, Chosen, Known, Remembered, Above
<1> QED
  BY <1>4, <1>5, <1>7 DEF HookInv

-----------------------------------------------------------------------------
LEMMA ReadFeedKeeps == ASSUME HookInv, NEW w \in Windows, ReadFeed(w) PROVE HookInv'
<1> DEFINE h == [Resting EXCEPT !.at = "read", !.upTo = Len(log)]
<1>1. WindowInv(hook[w], file[w], raised[w]) /\ hook[w].at = "rest"
  BY WindowFacts DEF ReadFeed
<1>2. /\ h \in Hook /\ h.at = "read" /\ h.upTo = Len(log) /\ h.keep = {}
      /\ hook' = [hook EXCEPT ![w] = h]
  <2>1. Len(log) \in 0..Len(log) /\ 0 \in 0..Len(log)
    BY MessageFacts
  <2>2. Resting \in Hook /\ Resting.keep = {}
    BY <2>1 DEF Resting, Hook
  <2>3. hook' = [hook EXCEPT ![w] = h]
    BY DEF ReadFeed
  <2>4. h \in Hook /\ h.at = "read" /\ h.upTo = Len(log) /\ h.keep = Resting.keep
    BY <2>1, <2>2 DEF Hook
  <2> HIDE DEF h
  <2> QED
    BY <2>2, <2>3, <2>4
<1> HIDE DEF h
<1>3. Cardinality({}) = 0 /\ 0 <= FileSize
  BY FS_EmptySet, StopDrainAssumption
<1>4. WindowInv(h, file[w], raised[w])
  BY <1>1, <1>2, <1>3, MessageFacts DEF WindowInv, Chosen, Known
<1>5. /\ UNCHANGED <<log, faults>> /\ faults' \in 0..MaxFaults
      /\ file' = [file EXCEPT ![w] = file[w]]
      /\ raised' = [raised EXCEPT ![w] = raised[w]]
      /\ swallowed' = [swallowed EXCEPT ![w] = swallowed[w]]
      /\ raised[w] \in SUBSET (1..Len(log)) /\ swallowed[w] \in SUBSET (1..Len(log))
  BY DEF ReadFeed, HookInv, HookTypeOK
<1> QED
  BY <1>2, <1>4, <1>5, WindowStep

(* A hook that ends, its window's file being as it left it. *)
LEMMA RestKeeps ==
  ASSUME HookInv, NEW w \in Windows, UNCHANGED <<log, file>>,
         hook' = [hook EXCEPT ![w] = Resting],
         NEW old \in SUBSET (1..Len(log)), raised' = [raised EXCEPT ![w] = old],
         NEW lost \in SUBSET (1..Len(log)), swallowed' = [swallowed EXCEPT ![w] = lost],
         faults' \in 0..MaxFaults,
         \A i \in old : Remembered(i, file[w])
  PROVE  HookInv'
<1>1. WindowInv(hook[w], file[w], raised[w])
  BY WindowFacts
<1>2. /\ Resting \in Hook /\ Resting.at = "rest" /\ Resting.keep = {}
  BY MessageFacts DEF Hook, Resting
<1>3. Cardinality({}) = 0 /\ 0 <= FileSize
  BY FS_EmptySet, StopDrainAssumption
<1>4. WindowInv(Resting, file[w], old)
  BY <1>1, <1>2, <1>3 DEF WindowInv, Chosen, Known
<1>5. file' = [file EXCEPT ![w] = file[w]]
  BY DEF HookInv, HookTypeOK
<1> QED
  BY <1>2, <1>4, <1>5, WindowStep

LEMMA GoQuietKeeps == ASSUME HookInv, NEW w \in Windows, GoQuiet(w) PROVE HookInv'
<1>1. \A i \in raised[w] : Remembered(i, file[w])
  BY WindowFacts DEF GoQuiet, WindowInv, Known
<1>2. /\ raised' = [raised EXCEPT ![w] = raised[w]] /\ faults' \in 0..MaxFaults
      /\ swallowed' = [swallowed EXCEPT ![w] = swallowed[w]]
      /\ raised[w] \in SUBSET (1..Len(log)) /\ swallowed[w] \in SUBSET (1..Len(log))
  BY DEF GoQuiet, HookInv, HookTypeOK
<1> QED
  BY <1>1, <1>2, RestKeeps DEF GoQuiet

LEMMA ChooseKeeps == ASSUME HookInv, NEW w \in Windows, Choose(w) PROVE HookInv'
<1> DEFINE P == Pending(w, hook[w].upTo)
           id == Min(P)
           keep == Bounded(file[w] \union {id})
           h == [hook[w] EXCEPT !.at = "writing", !.id = id, !.keep = keep]
<1>1. hook[w] \in Hook /\ hook[w].at = "read" /\ P # {} /\ Len(log) \in Nat
  BY WindowFacts, MessageFacts DEF Choose
<1>2. P \in SUBSET (1..Len(log))
  BY <1>1 DEF Pending, Feed, Newest, Visible, Hook
<1>3. id \in P
  <2> HIDE DEF P
  <2> QED
    BY <1>1, <1>2, OldestIsOne
<1>4. id \in Questions \ raised[w] /\ OpenThen(id, hook[w].upTo)
  <2> HIDE DEF id
  <2> QED
    BY <1>1, <1>3, PendingIsNew
<1> HIDE DEF P, id
<1>5. /\ keep \subseteq Questions /\ Cardinality(keep) <= FileSize
      /\ \A i \in raised[w] \union {id} : Remembered(i, keep)
  BY <1>1, <1>4, FileRemembers
<1>6. hook' = [hook EXCEPT ![w] = h]
  BY <1>1 DEF Choose, P, id, HookInv, HookTypeOK
<1> HIDE DEF keep
<1>7. /\ h \in Hook /\ h.at = "writing" /\ h.id = id /\ h.keep = keep
      /\ h.upTo = hook[w].upTo
  <2>1. id \in 0..Len(log) /\ keep \in SUBSET (1..Len(log))
    BY <1>1, <1>4, <1>5, MessageFacts
  <2> QED
    BY <1>1, <2>1 DEF Hook
<1> HIDE DEF h
<1>8. Cardinality({}) = 0 /\ 0 <= FileSize
  BY FS_EmptySet, StopDrainAssumption
<1>9. WindowInv(h, {}, raised[w])
  BY <1>4, <1>5, <1>7, <1>8 DEF WindowInv, Chosen, Known
<1>10. /\ UNCHANGED log /\ faults' \in 0..MaxFaults
       /\ file' = [file EXCEPT ![w] = {}]
       /\ raised' = [raised EXCEPT ![w] = raised[w]]
       /\ swallowed' = [swallowed EXCEPT ![w] = swallowed[w]]
       /\ raised[w] \in SUBSET (1..Len(log)) /\ swallowed[w] \in SUBSET (1..Len(log))
  BY DEF Choose, HookInv, HookTypeOK
<1> QED
  BY <1>6, <1>7, <1>9, <1>10, WindowStep

LEMMA MarkKeeps == ASSUME HookInv, NEW w \in Windows, Mark(w) PROVE HookInv'
<1> DEFINE h == [hook[w] EXCEPT !.at = "marked"]
<1>1. /\ hook[w] \in Hook /\ hook[w].at = "writing"
      /\ WindowInv(hook[w], file[w], raised[w])
  BY WindowFacts DEF Mark
<1>2. hook' = [hook EXCEPT ![w] = h]
  BY <1>1 DEF Mark, HookInv, HookTypeOK
<1>3. /\ h \in Hook /\ h.at = "marked" /\ h.id = hook[w].id /\ h.keep = hook[w].keep
      /\ h.upTo = hook[w].upTo
  BY <1>1 DEF Hook
<1> HIDE DEF h
<1>4. WindowInv(h, hook[w].keep, raised[w])
  BY <1>1, <1>3 DEF WindowInv, Chosen, Known
<1>5. /\ UNCHANGED log /\ faults' \in 0..MaxFaults
      /\ file' = [file EXCEPT ![w] = hook[w].keep]
      /\ raised' = [raised EXCEPT ![w] = raised[w]]
      /\ swallowed' = [swallowed EXCEPT ![w] = swallowed[w]]
      /\ raised[w] \in SUBSET (1..Len(log)) /\ swallowed[w] \in SUBSET (1..Len(log))
  BY DEF Mark, HookInv, HookTypeOK
<1> QED
  BY <1>2, <1>3, <1>4, <1>5, WindowStep

LEMMA RaiseKeeps == ASSUME HookInv, NEW w \in Windows, Raise(w) PROVE HookInv'
<1> DEFINE old == raised[w] \union {hook[w].id}
<1>1. /\ hook[w].at = "marked" /\ raised[w] \subseteq 1..Len(log)
      /\ WindowInv(hook[w], file[w], raised[w])
  BY WindowFacts DEF Raise
<1>2. hook[w].id \in Questions /\ \A i \in old : Remembered(i, file[w])
  BY <1>1 DEF WindowInv, Chosen, Known
<1>3. old \in SUBSET (1..Len(log))
  BY <1>1, <1>2, MessageFacts
<1>4. /\ UNCHANGED <<log, file>> /\ faults' \in 0..MaxFaults
      /\ hook' = [hook EXCEPT ![w] = Resting]
      /\ raised' = [raised EXCEPT ![w] = old]
      /\ swallowed' = [swallowed EXCEPT ![w] = swallowed[w]]
      /\ swallowed[w] \in SUBSET (1..Len(log))
  BY DEF Raise, HookInv, HookTypeOK
<1> HIDE DEF old
<1> QED
  BY <1>2, <1>3, <1>4, RestKeeps

(* A hook that is killed while it writes leaves an empty file behind, and   *)
(* with it forgets what the window was held open for.                       *)
LEMMA FailKeeps == ASSUME HookInv, NEW w \in Windows, Fail(w) PROVE HookInv'
<1> DEFINE old == IF hook[w].at = "writing" THEN {} ELSE raised[w]
           lost == IF hook[w].at = "marked" THEN swallowed[w] \union {hook[w].id}
                                            ELSE swallowed[w]
<1>1. /\ raised[w] \subseteq 1..Len(log)
      /\ WindowInv(hook[w], file[w], raised[w])
  BY WindowFacts
<1>2. \A i \in old : Remembered(i, file[w])
  BY <1>1 DEF WindowInv, Known
<1>3. hook[w].at = "marked" => hook[w].id \in 1..Len(log)
  BY <1>1, MessageFacts DEF WindowInv, Chosen
<1>4. old \in SUBSET (1..Len(log)) /\ lost \in SUBSET (1..Len(log))
  BY <1>1, <1>3 DEF HookInv, HookTypeOK
<1>5. /\ UNCHANGED <<log, file>> /\ faults' \in 0..MaxFaults
      /\ hook' = [hook EXCEPT ![w] = Resting]
      /\ raised' = [raised EXCEPT ![w] = old]
      /\ swallowed' = [swallowed EXCEPT ![w] = lost]
  BY StopDrainAssumption DEF Fail, HookInv, HookTypeOK
<1> HIDE DEF old, lost
<1> QED
  BY <1>2, <1>4, <1>5, RestKeeps

LEMMA HookKeeps == HookInv /\ [HookNext]_hookVars => HookInv'
<1> SUFFICES ASSUME HookInv, [HookNext]_hookVars PROVE HookInv'
  OBVIOUS
<1>1. ASSUME NEW m \in [kind : Kinds, re : 0..MaxLog], Post(m) PROVE HookInv'
  <2>1. m \in Message
    BY <1>1, StopDrainAssumption DEF Message
  <2> QED
    BY <1>1, <2>1, PostKeeps
<1>2. ASSUME NEW w \in Windows, HookStep(w) \/ Fail(w) PROVE HookInv'
  BY <1>2, ReadFeedKeeps, GoQuietKeeps, ChooseKeeps, MarkKeeps, RaiseKeeps, FailKeeps
     DEF HookStep
<1>3. CASE UNCHANGED hookVars
  BY <1>3 DEF hookVars, HookInv, HookTypeOK, Hook, RepliesPointBack, WindowInv, Questions,
              OpenThen, Remembered, Known, Chosen, Above
<1> QED
  BY <1>1, <1>2, <1>3 DEF HookNext

(* The invariant holds in every reachable state. *)
LEMMA HookInvariance == HookSpec => []HookInv
BY HookStart, HookKeeps, PTL DEF HookSpec

(* The types, and that `head -n 200` bounds the file.                       *)
THEOREM HookTypeCorrect == HookSpec => []HookTypeOK
<1>1. HookInv => HookTypeOK
  BY DEF HookInv
<1> QED
  BY <1>1, HookInvariance, PTL

(* stop-drain.sh blocks on a question once per window, since FileSize is no *)
(* less than FeedSize: what its file forgets is out of the feed by then.    *)
THEOREM BlockedOnOnce == HookSpec => []RaisedOnce
<1>1. HookInv => RaisedOnce
  BY DEF HookInv, WindowInv, Chosen, RaisedOnce
<1> QED
  BY <1>1, HookInvariance, PTL

(* stop-drain.sh never blocks on a question that was answered when it read  *)
(* the feed, though it sees no more of the answers than the feed holds.     *)
THEOREM BlockedOnUnanswered == HookSpec => []RaisedWasOpen
<1>1. HookInv => RaisedWasOpen
  BY DEF HookInv, WindowInv, Chosen, OpenThen, RaisedWasOpen
<1> QED
  BY <1>1, HookInvariance, PTL
-----------------------------------------------------------------------------
(* What is on file was raised, or marked by a hook that was killed before   *)
(* it raised it, or is just being raised; and a file that is being written  *)
(* is empty.                                                                *)
MarksAccountedFor ==
  \A w \in Windows :
    /\ Known(hook[w], file[w]) \subseteq raised[w] \union swallowed[w] \union Chosen(hook[w])
    /\ hook[w].at = "writing" => file[w] = {}

LEMMA MarksStart == HookInit => MarksAccountedFor
BY DEF HookInit, MarksAccountedFor, Known, Chosen, Resting

(* A hook writes what was on file and the question it chose, at most.       *)
LEMMA ChoiceIsMarked ==
  ASSUME HookTypeOK, NEW w \in Windows, Choose(w)
  PROVE  /\ hook'[w].at = "writing"
         /\ hook'[w].keep \subseteq file[w] \union {hook'[w].id}
<1> DEFINE id == Min(Pending(w, hook[w].upTo))
           h == [hook[w] EXCEPT !.at = "writing", !.id = id,
                                !.keep = Bounded(file[w] \union {id})]
<1>1. hook[w] \in Hook
  BY DEF HookTypeOK
<1>2. hook'[w] = h
  BY DEF Choose, HookTypeOK
<1>3. Bounded(file[w] \union {id}) \subseteq file[w] \union {id}
  BY DEF Bounded, Newest
<1>4. h.at = "writing" /\ h.id = id /\ h.keep = Bounded(file[w] \union {id})
  BY <1>1 DEF Hook
<1> HIDE DEF id, h
<1> QED
  BY <1>2, <1>3, <1>4

LEMMA MarksKeep == HookTypeOK /\ MarksAccountedFor /\ [HookNext]_hookVars => MarksAccountedFor'
<1> SUFFICES ASSUME HookTypeOK, MarksAccountedFor, [HookNext]_hookVars, NEW w \in Windows
             PROVE  /\ (Known(hook[w], file[w])
                          \subseteq raised[w] \union swallowed[w] \union Chosen(hook[w]))'
                    /\ (hook[w].at = "writing" => file[w] = {})'
  BY DEF MarksAccountedFor
<1>1. /\ Known(hook[w], file[w]) \subseteq raised[w] \union swallowed[w] \union Chosen(hook[w])
      /\ hook[w].at = "writing" => file[w] = {}
  BY DEF MarksAccountedFor
<1> USE DEF HookTypeOK, Known, Chosen
<1>2. CASE UNCHANGED <<hook[w], file[w], raised[w], swallowed[w]>>
  BY <1>1, <1>2
<1>3. CASE ReadFeed(w) \/ GoQuiet(w)
  <2>1. hook[w].at \in {"rest", "read"} /\ UNCHANGED <<file, raised, swallowed>>
    BY <1>3 DEF ReadFeed, GoQuiet
  <2>2. hook'[w].at \in {"rest", "read"}
    <3> DEFINE h == [Resting EXCEPT !.at = "read", !.upTo = Len(log)]
    <3>1. 0 \in 0..Len(log) /\ Len(log) \in 0..Len(log)
      OBVIOUS
    <3>2. Resting \in Hook /\ Resting.at = "rest"
      BY <3>1 DEF Resting, Hook
    <3>3. h.at = "read"
      BY <3>1, <3>2 DEF Hook
    <3>4. hook'[w] \in {Resting, h}
      BY <1>3 DEF ReadFeed, GoQuiet
    <3> HIDE DEF h
    <3> QED
      BY <3>2, <3>3, <3>4
  <2> QED
    BY <1>1, <2>1, <2>2
<1>4. CASE Choose(w)
  <2>1. hook[w].at = "read" /\ file'[w] = {} /\ UNCHANGED <<raised, swallowed>>
    BY <1>4 DEF Choose
  <2> QED
    BY <1>1, <1>4, <2>1, ChoiceIsMarked
<1>5. CASE Mark(w)
  <2>1. /\ hook[w].at = "writing" /\ UNCHANGED <<raised, swallowed>>
        /\ file'[w] = hook[w].keep
        /\ hook' = [hook EXCEPT ![w].at = "marked"]
    BY <1>5 DEF Mark
  <2>2. hook'[w].at = "marked" /\ hook'[w].id = hook[w].id
    <3>1. hook[w] \in Hook
      OBVIOUS
    <3> QED
      BY <2>1, <3>1 DEF Hook
  <2> QED
    BY <1>1, <2>1, <2>2
<1>6. CASE Raise(w)
  <2>1. /\ hook[w].at = "marked" /\ UNCHANGED <<file, swallowed>>
        /\ raised'[w] = raised[w] \union {hook[w].id}
        /\ hook'[w].at = "rest"
    BY <1>6 DEF Raise, Resting
  <2> QED
    BY <1>1, <2>1
<1>7. CASE Fail(w)
  <2>1. /\ UNCHANGED file
        /\ raised'[w] = IF hook[w].at = "writing" THEN {} ELSE raised[w]
        /\ swallowed'[w] = IF hook[w].at = "marked"
                           THEN swallowed[w] \union {hook[w].id} ELSE swallowed[w]
        /\ hook'[w].at = "rest"
    BY <1>7 DEF Fail, Resting
  <2> QED
    BY <1>1, <2>1
<1>8. ASSUME NEW v \in Windows \ {w}, HookStep(v) \/ Fail(v)
      PROVE  UNCHANGED <<hook[w], file[w], raised[w], swallowed[w]>>
  BY <1>8 DEF HookStep, ReadFeed, GoQuiet, Choose, Mark, Raise, Fail
<1>9. (\E m \in [kind : Kinds, re : 0..MaxLog] : Post(m)) \/ UNCHANGED hookVars
        => UNCHANGED <<hook[w], file[w], raised[w], swallowed[w]>>
  BY DEF Post, hookVars
<1> QED
  BY <1>2, <1>3, <1>4, <1>5, <1>6, <1>7, <1>8, <1>9 DEF HookNext, HookStep

(* A window goes quiet only when nothing in the feed it read is owed: each  *)
(* question there was answered, or held the window open before, or was      *)
(* marked by a hook that was killed before it could.  The file never hides  *)
(* a question on any other ground; with fairness this is QuestionsSurface.  *)
THEOREM QuietOwesNothing ==
  HookSpec => [][\A w \in Windows : GoQuiet(w) =>
                   \A q \in Feed(hook[w].upTo) \intersect Questions :
                     q \in Answered(hook[w].upTo) \union raised[w] \union swallowed[w]]_hookVars
<1>1. MarksAccountedFor /\ [HookNext]_hookVars =>
        [\A w \in Windows : GoQuiet(w) =>
           \A q \in Feed(hook[w].upTo) \intersect Questions :
             q \in Answered(hook[w].upTo) \union raised[w] \union swallowed[w]]_hookVars
  <2> SUFFICES ASSUME MarksAccountedFor, NEW w \in Windows, GoQuiet(w),
                      NEW q \in Feed(hook[w].upTo) \intersect Questions
               PROVE  q \in Answered(hook[w].upTo) \union raised[w] \union swallowed[w]
    OBVIOUS
  <2>1. hook[w].at = "read" /\ Pending(w, hook[w].upTo) = {}
    BY DEF GoQuiet
  <2>2. q \in Answered(hook[w].upTo) \union file[w]
    BY <2>1 DEF Pending, Questions
  <2>3. file[w] \subseteq raised[w] \union swallowed[w]
    BY <2>1 DEF MarksAccountedFor, Known, Chosen
  <2> QED
    BY <2>2, <2>3
<1>2. HookSpec => []MarksAccountedFor
  BY MarksStart, MarksKeep, HookTypeCorrect, PTL DEF HookSpec
<1> QED
  BY <1>1, <1>2, PTL DEF HookSpec
=============================================================================
