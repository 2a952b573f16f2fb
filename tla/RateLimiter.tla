---------------------------- MODULE RateLimiter ----------------------------
(***************************************************************************)
(* The token buckets of one server process: src/ratelimit.rs.  A request   *)
(* reads the clock before it takes the mutex (`Instant::now()` is the      *)
(* first line of `check`), so the buckets may be charged in another order  *)
(* than the clock was read: Arrive is the reading, and Admit, Throttle or  *)
(* TurnAway is everything done under the mutex.                            *)
(*                                                                         *)
(* Tokens are counted in units: one request costs Minute units and a       *)
(* bucket regains PerMinute units in a second, so no fraction is left.     *)
(***************************************************************************)
EXTENDS Integers, FiniteSets

CONSTANTS Keys,           \* hashes of presented tokens
          Requests,       \* requests the process may be serving at once
          NoArrival,      \* a request slot that holds no request
          PerMinute,      \* BUS_RATE_LIMIT_PER_MINUTE
          Minute,         \* 60 seconds
          BurstSeconds,   \* 6: a tenth of the minute
          BurstFloor,     \* 10 requests
          IdleEviction,   \* IDLE_EVICTION: 600 seconds
          SweepEvery,     \* SWEEP_EVERY: 512
          MaxTracked,     \* MAX_TRACKED: 10 000
          MaxClock        \* bound on the clock

(* With the numbers of the source the last line holds, by nothing to spare: *)
(* 10 requests of 60 units are regained in 600 seconds at 1 per minute.     *)
ASSUME LimiterAssumption ==
  /\ NoArrival \notin [key : Keys, at : Nat]
  /\ {PerMinute, Minute, BurstSeconds, BurstFloor} \subseteq Nat \ {0}
  /\ {IdleEviction, SweepEvery, MaxTracked} \subseteq Nat \ {0}
  /\ MaxClock \in Nat
  /\ BurstSeconds <= IdleEviction
  /\ BurstFloor * Minute <= IdleEviction

VARIABLES clock,       \* the monotonic clock, in seconds
          buckets,     \* the tracked keys, with their tokens and `last`
          sinceSweep,  \* since_sweep
          arrived,     \* per request: its key and the `now` it has read
          newest,      \* the latest `now` a request was charged with
          ideal,       \* what a limiter that forgets nothing holds by then
          rewound,     \* the seconds by which requests were charged late
          promise      \* when the last refusal said to come back

ghosts == <<newest, ideal, rewound, promise>>
limiterVars == <<buckets, sinceSweep, arrived, ghosts>>
-----------------------------------------------------------------------------
Smaller(a, b) == IF a < b THEN a ELSE b
Larger(a, b) == IF a > b THEN a ELSE b

(* ((per_minute / 10).max(10)) requests, in units. *)
Burst == Larger(PerMinute * BurstSeconds, BurstFloor * Minute)

Never == -1

(* Variant: the clock that ran backwards is not noticed. *)
Difference(b, at) == at - b.last

(* now.duration_since(last) saturates at zero. *)
Elapsed(b, at) == IF at > b.last THEN at - b.last ELSE 0

(* What the bucket holds at an instant. *)
Accrued(b, at) == Smaller(b.tokens + Elapsed(b, at) * PerMinute, Burst)

(* Variant: a bucket is forgotten while it is still refilling. *)
IdleSoon(b, at) == Elapsed(b, at) * 2 >= IdleEviction

Idle(b, at) == Elapsed(b, at) >= IdleEviction

Kept(bs, at) == [k \in {x \in DOMAIN bs : ~Idle(bs[x], at)} |-> bs[k]]

SweepDue == sinceSweep + 1 >= SweepEvery

(* The map after the periodic sweep and, for an unknown key that finds no  *)
(* room, after the sweep that looks for some.                              *)
Swept(at) == IF SweepDue THEN Kept(buckets, at) ELSE buckets
Room(k, at) ==
  LET bs == Swept(at) IN
  IF k \notin DOMAIN bs /\ Cardinality(DOMAIN bs) >= MaxTracked
    THEN Kept(bs, at) ELSE bs

Full(k, at) ==
  k \notin DOMAIN Room(k, at) /\ Cardinality(DOMAIN Room(k, at)) >= MaxTracked

(* The bucket a request is charged against, a new one being full. *)
BucketOf(k, at) ==
  IF k \in DOMAIN Room(k, at) THEN Room(k, at)[k]
                              ELSE [tokens |-> Burst, last |-> at]

(* Variant: the seconds are rounded down. *)
WaitRoundedDown(tokens) == Larger(1, (Minute - tokens) \div PerMinute)

(* Whole seconds until one request is affordable, at least one. *)
Wait(tokens) == Larger(1, (Minute - tokens + PerMinute - 1) \div PerMinute)

(* What a tracked or forgotten key is worth at `newest`. *)
Level(k) == IF k \in DOMAIN buckets THEN Accrued(buckets[k], newest) ELSE Burst

-----------------------------------------------------------------------------
LimiterInit ==
  /\ clock = 0
  /\ buckets = [k \in {} |-> [tokens |-> 0, last |-> 0]]
  /\ sinceSweep = 0
  /\ arrived = [r \in Requests |-> NoArrival]
  /\ newest = 0
  /\ ideal = [k \in Keys |-> Burst]
  /\ rewound = [k \in Keys |-> 0]
  /\ promise = [k \in Keys |-> Never]

Tick ==
  /\ clock < MaxClock
  /\ clock' = clock + 1
  /\ UNCHANGED limiterVars

Arrive(r, k) ==
  /\ arrived[r] = NoArrival
  /\ arrived' = [arrived EXCEPT ![r] = [key |-> k, at |-> clock]]
  /\ UNCHANGED <<clock, buckets, sinceSweep, ghosts>>

CountSweep == sinceSweep' = IF SweepDue THEN 0 ELSE sinceSweep + 1

(* The limiter that forgets nothing lets its time only go forward: it      *)
(* refills every key up to the request's `now`, or not at all when the     *)
(* request comes late, and charges `cost` to one key.                      *)
Account(k, at, cost) ==
  /\ newest' = Larger(newest, at)
  /\ ideal' = [x \in Keys |->
                 Smaller(ideal[x] + Larger(at - newest, 0) * PerMinute, Burst)
                   - (IF x = k THEN cost ELSE 0)]

(* The bucket is brought up to the request's `now` and left with `tokens`. *)
Settle(r, tokens) ==
  LET k == arrived[r].key
      at == arrived[r].at IN
  /\ buckets' = [x \in DOMAIN Room(k, at) \union {k} |->
                   IF x = k THEN [tokens |-> tokens, last |-> at]
                            ELSE Room(k, at)[x]]
  /\ rewound' = [rewound EXCEPT ![k] = @ + Larger(newest - at, 0)]
  /\ arrived' = [arrived EXCEPT ![r] = NoArrival]

Admit(r) ==
  /\ arrived[r] # NoArrival
  /\ LET k == arrived[r].key
         at == arrived[r].at
         tokens == Accrued(BucketOf(k, at), at) IN
     /\ ~Full(k, at)
     /\ tokens >= Minute
     /\ Settle(r, tokens - Minute)
     /\ Account(k, at, Minute)
     /\ promise' = [promise EXCEPT ![k] = Never]
  /\ CountSweep
  /\ UNCHANGED clock

(* The answer carries Retry-After; the earliest such instant is remembered. *)
Throttle(r) ==
  /\ arrived[r] # NoArrival
  /\ LET k == arrived[r].key
         at == arrived[r].at
         tokens == Accrued(BucketOf(k, at), at)
         again == at + Wait(tokens) IN
     /\ ~Full(k, at)
     /\ tokens < Minute
     /\ Settle(r, tokens)
     /\ Account(k, at, 0)
     /\ promise' = [promise EXCEPT ![k] =
                      IF @ = Never THEN again ELSE Smaller(@, again)]
  /\ CountSweep
  /\ UNCHANGED clock

(* An unknown key at the ceiling: "retry in 60s", and nothing is tracked. *)
TurnAway(r) ==
  /\ arrived[r] # NoArrival
  /\ LET k == arrived[r].key
         at == arrived[r].at IN
     /\ Full(k, at)
     /\ buckets' = Room(k, at)
     /\ Account(k, at, 0)
  /\ arrived' = [arrived EXCEPT ![r] = NoArrival]
  /\ CountSweep
  /\ UNCHANGED <<clock, rewound, promise>>

LimiterNext ==
  \/ Tick
  \/ \E r \in Requests :
       \/ \E k \in Keys : Arrive(r, k)
       \/ Admit(r)
       \/ Throttle(r)
       \/ TurnAway(r)

LimiterSpec == LimiterInit /\ [][LimiterNext]_<<clock, limiterVars>>

-----------------------------------------------------------------------------
(* The map never exceeds its ceiling, a bucket never its burst, and no     *)
(* bucket was last used in the future.                                     *)
LimiterTypeOK ==
  /\ clock \in Nat
  /\ DOMAIN buckets \subseteq Keys
  /\ buckets \in [DOMAIN buckets -> [tokens : 0..Burst, last : 0..newest]]
  /\ IsFiniteSet(DOMAIN buckets)
  /\ Cardinality(DOMAIN buckets) <= MaxTracked
  /\ sinceSweep \in 0..(SweepEvery - 1)
  /\ arrived \in [Requests -> [key : Keys, at : 0..clock] \union {NoArrival}]
  /\ newest \in 0..clock
  /\ ideal \in [Keys -> Int]
  /\ rewound \in [Keys -> Nat]
  /\ promise \in [Keys -> Nat \union {Never}]

(* Forgetting idle keys, and refusing the unknown at the ceiling, gives    *)
(* nobody anything: a key is worth what it would be worth to a limiter     *)
(* that forgets nothing, and more only by what is regained in the seconds  *)
(* by which requests for it were charged after one that had read a later   *)
(* clock (check reads the clock before it takes the mutex).                *)
LevelIsIdeal ==
  \A k \in Keys :
    /\ ideal[k] <= Level(k)
    /\ Level(k) <= ideal[k] + rewound[k] * PerMinute

(* Retry-After is enough: a tracked caller who comes back at the instant   *)
(* its refusal named, nobody having been admitted on its token meanwhile,  *)
(* is not throttled again, however many of its requests were refused.      *)
PromiseKept ==
  [][\A r \in Requests :
       LET k == arrived[r].key
           at == arrived[r].at IN
       Throttle(r) => promise[k] = Never \/ at < promise[k]]_<<clock, limiterVars>>
=============================================================================
