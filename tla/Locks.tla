------------------------------- MODULE Locks -------------------------------
(***************************************************************************)
(* The advisory locks of one team: src/store/locks.rs over the table       *)
(* locks.  A call that changes the row takes two steps: its statement, and *)
(* the reply (that of acquire_lock is made of a second statement).  Other  *)
(* calls run in between, and the reply can get lost.  A call that is       *)
(* refused changes nothing but what the caller knows.                      *)
(***************************************************************************)
EXTENDS Integers

CONSTANTS Names,          \* lock names
          Agents,         \* agents.id
          Sessions,       \* the X-Session value, the shared session included
          Callers,        \* the identities that call: pairs <<agent, session>>
          Nobody,         \* no row
          NoName,         \* the lock of a call that has none
          NoPurpose,      \* purpose IS NULL
          MinTtl,         \* 5 seconds in the code
          MaxTtl,         \* MAX_TTL_SECS
          TtlRequests,    \* the ttl_seconds callers ask for
          MaxTime         \* bound on the clock

ASSUME CallersAssumption ==
  /\ Callers \subseteq Agents \X Sessions
  /\ Nobody \notin Callers
  /\ NoPurpose \notin Callers
  /\ NoName \notin Names

ASSUME TtlAssumption ==
  /\ MinTtl \in Nat \ {0}
  /\ MaxTtl \in Nat
  /\ MinTtl <= MaxTtl
  /\ TtlRequests \subseteq Int
  /\ MaxTime \in Nat

VARIABLES now,       \* the database's now()
          holder,    \* holder_agent_id with holder_session; Nobody without a row
          purpose,   \* who stated the purpose the row shows
          acquired,  \* acquired_at
          expires,   \* expires_at
          calls,     \* the call each identity waits for
          told,      \* told[c][n]: what the last reply said to c about n
          cut        \* cut[c]: the locks whose end c has moved up since that reply

row == <<holder, purpose, acquired, expires>>
replies == <<told, cut>>
vars == <<now, row, calls, told, cut>>

-----------------------------------------------------------------------------
NoLease == -1
Times == Nat \union {NoLease}
AgentOf(c) == c[1]

(* until is the expiry that the upsert of an acquire_lock wrote. *)
IdleCall == [op |-> "idle", name |-> NoName, until |-> NoLease]
CallType == [op : {"idle", "acquire", "release"}, name : Names \union {NoName},
             until : Times]

(* What a reply says to a caller about a lock: that it is not the caller's  *)
(* ("nothing"), that the row is the caller's ("mine"), or `acquired: true`  *)
(* next to a row that is not, read before the expiry the upsert wrote had   *)
(* passed ("acquired") or after it ("late").  until is the expires_at shown *)
(* with it, if any.                                                         *)
Replies == [says : {"nothing", "mine", "acquired", "late"}, until : Times]
NoReply == [says |-> "nothing", until |-> NoLease]

(* Variant: the comparison before sessions existed, by agent alone. *)
HeldByAgent(c, n) == holder[n] # Nobody /\ AgentOf(holder[n]) = AgentOf(c)

(* holder_agent_id = $agent AND COALESCE(holder_session, '') = $session. *)
HeldBy(c, n) == holder[n] = c

(* Variant: a lock can be taken at the very moment it expires. *)
LapsedAtDeadline(n) == holder[n] # Nobody /\ expires[n] <= now

(* locks.expires_at < now() *)
Lapsed(n) == holder[n] # Nobody /\ expires[n] < now

(* Variant: the ttl is stored as it was asked for. *)
Unclamped(s) == s

(* ttl_seconds.clamp(5, MAX_TTL_SECS) *)
ClampTtl(s) == IF s < MinTtl THEN MinTtl ELSE IF s > MaxTtl THEN MaxTtl ELSE s

(* The INSERT meets no row, or its ON CONFLICT ... WHERE lets the update in. *)
Takeable(c, n) == holder[n] = Nobody \/ Lapsed(n) \/ HeldBy(c, n)

Idle(c) == calls[c].op = "idle"
Await(c, op, n, until) ==
  calls' = [calls EXCEPT ![c] = [op |-> op, name |-> n, until |-> until]]
Hangup(c) == calls' = [calls EXCEPT ![c] = IdleCall]

(* c's own statement gives n this end, or none.  The reply c has is not     *)
(* touched by that: until the next reply it may promise more than the row.  *)
SetEnd(c, n, end) ==
  /\ cut' = [cut EXCEPT ![c] =
               IF told[c][n].says = "mine" /\ end < told[c][n].until
                 THEN @ \union {n} ELSE @ \ {n}]
  /\ UNCHANGED told

Tell(c, n, reply) ==
  /\ told' = [told EXCEPT ![c][n] = reply]
  /\ cut' = [cut EXCEPT ![c] = @ \ {n}]

-----------------------------------------------------------------------------
Init ==
  /\ now = 0
  /\ holder = [n \in Names |-> Nobody]
  /\ purpose = [n \in Names |-> NoPurpose]
  /\ acquired = [n \in Names |-> NoLease]
  /\ expires = [n \in Names |-> NoLease]
  /\ calls = [c \in Callers |-> IdleCall]
  /\ told = [c \in Callers |-> [n \in Names |-> NoReply]]
  /\ cut = [c \in Callers |-> {}]

(* The upsert of acquire_lock, when it matches; states says whether the     *)
(* caller gave a purpose, and COALESCE keeps the old one if it did not.     *)
AcquireLock(c, n, s, states) ==
  /\ Idle(c)
  /\ Takeable(c, n)
  /\ holder' = [holder EXCEPT ![n] = c]
  /\ purpose' = [purpose EXCEPT ![n] = IF states THEN c ELSE @]
  /\ acquired' = [acquired EXCEPT ![n] = IF HeldBy(c, n) THEN @ ELSE now]
  /\ expires' = [expires EXCEPT ![n] = now + ClampTtl(s)]
  /\ Await(c, "acquire", n, now + ClampTtl(s))
  /\ SetEnd(c, n, now + ClampTtl(s))
  /\ UNCHANGED now

(* What acquire_lock says when its SELECT finds the row as it is now:       *)
(* `acquired: true` whatever that row is.                                   *)
Says(c, n) ==
  IF HeldBy(c, n) THEN "mine"
  ELSE IF calls[c].until >= now THEN "acquired" ELSE "late"

AcquireReply(c) ==
  LET n == calls[c].name IN
  /\ calls[c].op = "acquire"
  /\ Tell(c, n, [says |-> Says(c, n), until |-> expires[n]])
  /\ Hangup(c)
  /\ UNCHANGED <<now, row>>

(* The DELETE of release_lock: by the holder's session, lapsed or not. *)
ReleaseLock(c, n) ==
  /\ Idle(c)
  /\ HeldBy(c, n)
  /\ holder' = [holder EXCEPT ![n] = Nobody]
  /\ purpose' = [purpose EXCEPT ![n] = NoPurpose]
  /\ acquired' = [acquired EXCEPT ![n] = NoLease]
  /\ expires' = [expires EXCEPT ![n] = NoLease]
  /\ Await(c, "release", n, NoLease)
  /\ SetEnd(c, n, NoLease)
  /\ UNCHANGED now

(* "released lock ..." *)
ReleaseReply(c) ==
  /\ calls[c].op = "release"
  /\ Tell(c, calls[c].name, NoReply)
  /\ Hangup(c)
  /\ UNCHANGED <<now, row>>

(* acquire_lock or release_lock of a lock that is not the caller's: it is   *)
(* told `acquired: false`, who has the lock, or that nobody has.            *)
Refused(c, n) ==
  /\ Idle(c)
  /\ ~HeldBy(c, n)
  /\ Tell(c, n, NoReply)
  /\ UNCHANGED <<now, row, calls>>

(* list_locks: the rows with expires_at > now(). *)
ListLocks(c) ==
  /\ Idle(c)
  /\ told' = [told EXCEPT ![c] = [n \in Names |->
                IF HeldBy(c, n) /\ expires[n] > now
                  THEN [says |-> "mine", until |-> expires[n]] ELSE NoReply]]
  /\ cut' = [cut EXCEPT ![c] = {}]
  /\ UNCHANGED <<now, row, calls>>

(* The call ends after its statement; what it wrote stays. *)
Abort(c) ==
  /\ ~Idle(c)
  /\ Hangup(c)
  /\ UNCHANGED <<now, row, replies>>

RunsOut(reply) == reply.until # NoLease /\ reply.until <= now

(* A session that was shown when the lock lapses stops when it has lapsed.  *)
Tick ==
  /\ now < MaxTime
  /\ now' = now + 1
  /\ told' = [c \in Callers |-> [n \in Names |->
               IF RunsOut(told[c][n]) THEN NoReply ELSE told[c][n]]]
  /\ cut' = [c \in Callers |-> {n \in cut[c] : ~RunsOut(told[c][n])}]
  /\ UNCHANGED <<row, calls>>

Next ==
  \/ \E c \in Callers :
       \/ \E n \in Names, s \in TtlRequests, states \in BOOLEAN :
            AcquireLock(c, n, s, states)
       \/ AcquireReply(c)
       \/ \E n \in Names : ReleaseLock(c, n)
       \/ ReleaseReply(c)
       \/ \E n \in Names : Refused(c, n)
       \/ ListLocks(c)
       \/ Abort(c)
  \/ Tick

Spec == Init /\ [][Next]_vars

-----------------------------------------------------------------------------
VariableTypes ==
  /\ now \in Nat
  /\ holder \in [Names -> Callers \union {Nobody}]
  /\ purpose \in [Names -> Callers \union {NoPurpose}]
  /\ acquired \in [Names -> Times]
  /\ expires \in [Names -> Times]
  /\ calls \in [Callers -> CallType]
  /\ told \in [Callers -> [Names -> Replies]]
  /\ cut \in [Callers -> SUBSET Names]

(* A call past its statement is about a lock. *)
CallShape ==
  \A c \in Callers : IF Idle(c) THEN calls[c] = IdleCall ELSE calls[c].name \in Names

(* A row was acquired in the past and expires after that, at most           *)
(* MAX_TTL_SECS from now; without a row there is nothing.                   *)
RowShape ==
  \A n \in Names :
    IF holder[n] = Nobody
    THEN purpose[n] = NoPurpose /\ acquired[n] = NoLease /\ expires[n] = NoLease
    ELSE /\ 0 <= acquired[n] /\ acquired[n] <= now
         /\ acquired[n] < expires[n] /\ expires[n] <= now + MaxTtl

(* The type of every variable and the shape of calls and rows. *)
TypeOK == VariableTypes /\ CallShape /\ RowShape

(* c acts under n: the last reply it got says that n is its own and shows   *)
(* no expiry that has passed.  Nothing but a reply tells it what its own    *)
(* calls did.                                                               *)
Acts(c, n) ==
  /\ told[c][n].says # "nothing"
  /\ told[c][n].until = NoLease \/ told[c][n].until >= now

(* The two ways to act under a lock that is someone else's by then: c       *)
(* released it or moved its expiry up and the reply that says so is lost or *)
(* on its way; or the SELECT of c's acquire_lock ran after the expiry that  *)
(* its upsert wrote, and c was told `acquired: true` next to the row of     *)
(* whoever took the lock over.                                              *)
Excused(c, n) == n \in cut[c] \/ told[c][n].says = "late"

(* But for those, what a session was told is true until the expiry it was   *)
(* shown has passed: the row is its own and lasts at least as long,         *)
(* although the reply was read after the upsert, says `acquired: true`      *)
(* whatever it reads, and other sessions of the same person acquire, extend *)
(* and release meanwhile.                                                   *)
ToldIsTrue ==
  \A c \in Callers, n \in Names :
    Acts(c, n) /\ ~Excused(c, n) => holder[n] = c /\ expires[n] >= told[c][n].until

(* So no two sessions act under one lock at once by such replies ("a deploy *)
(* lock held by your core-manager window must not be silently inherited").  *)
OneHolder ==
  \A n \in Names : \A c, d \in Callers :
    Acts(c, n) /\ Acts(d, n) /\ ~Excused(c, n) /\ ~Excused(d, n) => c = d

(* The lock table implements the abstract lease; no lock is ever retired.   *)
L == INSTANCE Lease WITH Resources <- Names, Holders <- Callers,
                         owner <- holder, until <- expires, retired <- {}

ImplementsLease == L!Spec
=============================================================================
