--------------------------- MODULE Locks_proofs ---------------------------
(***************************************************************************)
(* Theorems about Locks, for every set of names, agents and sessions,      *)
(* every range of ttls and every bound on the clock.                       *)
(***************************************************************************)
EXTENDS Locks, TLAPS

(* clamp(5, MAX_TTL_SECS) yields a ttl between the two. *)
LEMMA ClampRange ==
  ASSUME NEW s \in TtlRequests
  PROVE  ClampTtl(s) \in Nat \ {0} /\ ClampTtl(s) <= MaxTtl
BY TtlAssumption DEF ClampTtl

-----------------------------------------------------------------------------
LEMMA TypeInit == Init => TypeOK
BY DEF Init, TypeOK, VariableTypes, CallShape, RowShape, Times, NoLease, CallType,
  IdleCall, Idle, Replies, NoReply

(* What a statement of c's own and what a reply leave of the replies.       *)
LEMMA SetEndType ==
  ASSUME VariableTypes, NEW c \in Callers, NEW n \in Names, NEW end,
         SetEnd(c, n, end)
  PROVE  /\ told' \in [Callers -> [Names -> Replies]]
         /\ cut' \in [Callers -> SUBSET Names]
<1>1. cut[c] \union {n} \in SUBSET Names /\ cut[c] \ {n} \in SUBSET Names
  BY DEF VariableTypes
<1> QED
  BY <1>1 DEF SetEnd, VariableTypes

LEMMA TellType ==
  ASSUME VariableTypes, NEW c \in Callers, NEW n \in Names, NEW reply \in Replies,
         Tell(c, n, reply)
  PROVE  /\ told' \in [Callers -> [Names -> Replies]]
         /\ cut' \in [Callers -> SUBSET Names]
<1>1. cut[c] \ {n} \in SUBSET Names
  BY DEF VariableTypes
<1> QED
  BY <1>1 DEF Tell, VariableTypes

LEMMA CallsType ==
  ASSUME VariableTypes, CallShape, NEW c \in Callers,
         \/ Hangup(c)
         \/ \E op \in {"acquire", "release"}, n \in Names, until \in Times :
              Await(c, op, n, until)
  PROVE  calls' \in [Callers -> CallType] /\ CallShape'
<1>1. CASE Hangup(c)
  BY <1>1 DEF Hangup, IdleCall, CallType, Times, VariableTypes, CallShape, Idle
<1>2. ASSUME NEW op \in {"acquire", "release"}, NEW n \in Names, NEW until \in Times,
             Await(c, op, n, until)
      PROVE  calls' \in [Callers -> CallType] /\ CallShape'
  <2>1. [op |-> op, name |-> n, until |-> until] \in CallType
    BY DEF CallType
  <2> QED
    BY <1>2, <2>1 DEF Await, VariableTypes, CallShape, Idle
<1> QED
  BY <1>1, <1>2

LEMMA TypeStep == TypeOK /\ [Next]_vars => TypeOK'
<1> SUFFICES ASSUME VariableTypes, CallShape, RowShape, [Next]_vars
             PROVE  VariableTypes' /\ CallShape' /\ RowShape'
  BY DEF TypeOK
<1> USE DEF row, HeldBy
<1>0. NoReply \in Replies
  BY DEF NoReply, Replies, Times
<1>1. ASSUME NEW c \in Callers, NEW n \in Names, NEW s \in TtlRequests,
             NEW states \in BOOLEAN, AcquireLock(c, n, s, states)
      PROVE  VariableTypes' /\ CallShape' /\ RowShape'
  <2> USE <1>1 DEF AcquireLock
  <2>1. /\ now + ClampTtl(s) \in Nat
        /\ now + ClampTtl(s) <= now + MaxTtl
        /\ now < now + ClampTtl(s)
    BY ClampRange, TtlAssumption DEF VariableTypes
  <2>2. calls' \in [Callers -> CallType] /\ CallShape'
    BY <2>1, CallsType DEF Times
  <2>3. VariableTypes'
    BY <2>1, <2>2, SetEndType DEF VariableTypes, Times
  <2>4. acquired'[n] <= now /\ 0 <= acquired'[n]
    BY CallersAssumption DEF VariableTypes, RowShape
  <2>5. RowShape'
    BY <2>1, <2>4, CallersAssumption DEF VariableTypes, RowShape, Times, NoLease
  <2> QED
    BY <2>2, <2>3, <2>5
<1>2. ASSUME NEW c \in Callers, AcquireReply(c)
      PROVE  VariableTypes' /\ CallShape' /\ RowShape'
  <2>1. calls[c].name \in Names
    BY <1>2 DEF AcquireReply, CallShape, Idle
  <2>2. [says |-> Says(c, calls[c].name), until |-> expires[calls[c].name]] \in Replies
    BY <2>1 DEF VariableTypes, Says, Replies
  <2>3. VariableTypes' /\ CallShape'
    BY <1>2, <2>1, <2>2, TellType, CallsType DEF AcquireReply, VariableTypes
  <2> QED
    BY <1>2, <2>3 DEF AcquireReply, RowShape
<1>3. ASSUME NEW c \in Callers, NEW n \in Names, ReleaseLock(c, n)
      PROVE  VariableTypes' /\ CallShape' /\ RowShape'
  <2>1. calls' \in [Callers -> CallType] /\ CallShape'
    BY <1>3, CallsType DEF ReleaseLock, Times
  <2>2. VariableTypes'
    BY <1>3, <2>1, SetEndType DEF ReleaseLock, VariableTypes, Times
  <2>3. RowShape'
    BY <1>3 DEF ReleaseLock, VariableTypes, RowShape
  <2> QED
    BY <2>1, <2>2, <2>3
<1>4. ASSUME NEW c \in Callers, ReleaseReply(c)
      PROVE  VariableTypes' /\ CallShape' /\ RowShape'
  <2>1. calls[c].name \in Names
    BY <1>4 DEF ReleaseReply, CallShape, Idle
  <2>2. VariableTypes' /\ CallShape'
    BY <1>0, <1>4, <2>1, TellType, CallsType DEF ReleaseReply, VariableTypes
  <2> QED
    BY <1>4, <2>2 DEF ReleaseReply, RowShape
<1>5. ASSUME NEW c \in Callers, NEW n \in Names, Refused(c, n)
      PROVE  VariableTypes' /\ CallShape' /\ RowShape'
  <2>1. VariableTypes'
    BY <1>0, <1>5, TellType DEF Refused, VariableTypes
  <2> QED
    BY <1>5, <2>1 DEF Refused, RowShape, CallShape, Idle
<1>6. ASSUME NEW c \in Callers, ListLocks(c)
      PROVE  VariableTypes' /\ CallShape' /\ RowShape'
  <2>1. told' \in [Callers -> [Names -> Replies]] /\ cut' \in [Callers -> SUBSET Names]
    BY <1>0, <1>6 DEF ListLocks, VariableTypes, Replies
  <2> QED
    BY <1>6, <2>1 DEF ListLocks, VariableTypes, RowShape, CallShape, Idle
<1>7. ASSUME NEW c \in Callers, Abort(c)
      PROVE  VariableTypes' /\ CallShape' /\ RowShape'
  <2>1. calls' \in [Callers -> CallType] /\ CallShape'
    BY <1>7, CallsType DEF Abort
  <2> QED
    BY <1>7, <2>1 DEF Abort, replies, VariableTypes, RowShape
<1>8. ASSUME Tick PROVE VariableTypes' /\ CallShape' /\ RowShape'
  <2>1. told' \in [Callers -> [Names -> Replies]] /\ cut' \in [Callers -> SUBSET Names]
    BY <1>0, <1>8 DEF Tick, VariableTypes
  <2>2. now' = now + 1 /\ now' \in Nat
    BY <1>8 DEF Tick, VariableTypes
  <2>3. RowShape'
    BY <1>8, <2>2, TtlAssumption DEF Tick, VariableTypes, RowShape, Times, NoLease
  <2> QED
    BY <1>8, <2>1, <2>2, <2>3 DEF Tick, VariableTypes, CallShape, Idle
<1>9. ASSUME UNCHANGED vars PROVE VariableTypes' /\ CallShape' /\ RowShape'
  BY <1>9 DEF vars, VariableTypes, RowShape, CallShape, Idle
<1> QED
  BY <1>1, <1>2, <1>3, <1>4, <1>5, <1>6, <1>7, <1>8, <1>9 DEF Next

(* The lock table is well typed and its rows well formed in every reachable *)
(* state.                                                                   *)
THEOREM TypeCorrect == Spec => []TypeOK
BY TypeInit, TypeStep, PTL DEF Spec

-----------------------------------------------------------------------------
(* Why ToldIsTrue holds.  While an acquire_lock whose expiry has not passed *)
(* waits for its SELECT the row is the caller's with that expiry, so no     *)
(* reply says `acquired: true` next to another's row unless it is late; and *)
(* a reply that nothing excuses keeps the row for its session.              *)
Pending(c, n) == calls[c].name = n /\ calls[c].until >= now
Counts(c, n) == Acts(c, n) /\ ~Excused(c, n)

Fit(c, n) ==
  /\ told[c][n].says # "acquired"
  /\ told[c][n].says = "mine" => told[c][n].until # NoLease

Upheld(c, n) ==
  /\ Fit(c, n)
  /\ Pending(c, n) => HeldBy(c, n) /\ expires[n] = calls[c].until
  /\ Counts(c, n) => HeldBy(c, n) /\ expires[n] >= told[c][n].until

RowsUpheld == \A c \in Callers, n \in Names : Upheld(c, n)

LEMMA UpheldInit == Init => RowsUpheld
<1> SUFFICES ASSUME Init, NEW c \in Callers, NEW n \in Names
             PROVE  Upheld(c, n)
  BY DEF RowsUpheld
<1>1. now = 0 /\ told[c][n] = NoReply /\ calls[c] = IdleCall
  BY DEF Init
<1>2. ~Pending(c, n)
  BY <1>1 DEF Pending, IdleCall, NoLease
<1>3. ~Counts(c, n) /\ Fit(c, n)
  BY <1>1 DEF Counts, Acts, Fit, NoReply
<1> QED
  BY <1>2, <1>3 DEF Upheld

(* A row that is somebody's has an expiry. *)
LEMMA HeldHasExpiry ==
  ASSUME TypeOK, NEW c \in Callers, NEW n \in Names, HeldBy(c, n)
  PROVE  expires[n] # NoLease
<1>1. holder[n] # Nobody
  BY CallersAssumption DEF HeldBy
<1>2. acquired[n] \in Int /\ expires[n] \in Int
  BY DEF TypeOK, VariableTypes, Times, NoLease
<1>3. 0 <= acquired[n] /\ acquired[n] < expires[n]
  BY <1>1 DEF TypeOK, RowShape
<1> QED
  BY <1>2, <1>3 DEF NoLease

(* A step that leaves the clock, the row of m and d's reply about it alone, *)
(* and starts no call of d's about m.                                       *)
LEMMA QuietUpholds ==
  ASSUME TypeOK, RowsUpheld, now' = now, NEW d \in Callers, NEW m \in Names,
         holder'[m] = holder[m], expires'[m] = expires[m],
         told'[d][m] = told[d][m], m \in cut'[d] <=> m \in cut[d],
         \/ calls'[d] = calls[d]
         \/ calls'[d].until = NoLease
         \/ calls'[d].name # m
  PROVE  Upheld(d, m)'
<1>1. Upheld(d, m)
  BY DEF RowsUpheld
<1>2. Pending(d, m)' => Pending(d, m) /\ calls'[d] = calls[d]
  BY DEF Pending, TypeOK, VariableTypes, NoLease
<1>3. Counts(d, m)' <=> Counts(d, m)
  BY DEF Counts, Acts, Excused
<1> QED
  BY <1>1, <1>2, <1>3 DEF Upheld, Fit, HeldBy

(* A reply to c about n that says n is not c's, or shows c's own row.       *)
LEMMA TellUpholds ==
  ASSUME TypeOK, RowsUpheld, UNCHANGED <<now, row>>,
         NEW c \in Callers, NEW n \in Names, NEW reply, Tell(c, n, reply),
         \/ reply.says \in {"nothing", "late"}
         \/ (reply.says = "mine" /\ HeldBy(c, n) /\ reply.until = expires[n]),
         \/ UNCHANGED calls
         \/ Hangup(c),
         NEW d \in Callers, NEW m \in Names
  PROVE  Upheld(d, m)'
<1> USE DEF TypeOK, VariableTypes
<1>1. calls'[d] = calls[d] \/ calls'[d].until = NoLease
  BY DEF Hangup, IdleCall
<1>2. CASE d # c \/ m # n
  <2>1. told'[d][m] = told[d][m] /\ (m \in cut'[d] <=> m \in cut[d])
    BY <1>2 DEF Tell
  <2> QED
    BY <1>1, <2>1, QuietUpholds DEF row
<1>3. CASE d = c /\ m = n
  <2>1. Pending(c, n)' => Pending(c, n) /\ calls'[c] = calls[c]
    BY <1>1, <1>3 DEF Pending, NoLease
  <2>2. told'[c][n] = reply
    BY DEF Tell
  <2>3. HeldBy(c, n) => expires[n] # NoLease
    BY HeldHasExpiry
  <2>4. Counts(c, n)' => reply.says = "mine"
    BY <2>2 DEF Counts, Acts, Excused
  <2>5. Fit(c, n)'
    BY <2>2, <2>3 DEF Fit
  <2>6. Upheld(c, n)
    BY DEF RowsUpheld
  <2>7. expires[n] \in Int
    BY DEF Times, NoLease
  <2> QED
    BY <1>3, <2>1, <2>2, <2>4, <2>5, <2>6, <2>7 DEF Upheld, HeldBy, row
<1> QED
  BY <1>2, <1>3

(* A statement of c's own about n that gives n the end `end`.               *)
LEMMA SetEndCounts ==
  ASSUME TypeOK, RowsUpheld, now' = now, NEW c \in Callers, NEW n \in Names,
         NEW end \in Times, SetEnd(c, n, end)
  PROVE  /\ UNCHANGED told
         /\ \A d \in Callers, m \in Names :
              (d # c \/ m # n) => (m \in cut'[d] <=> m \in cut[d])
         /\ Counts(c, n)' => told[c][n].says = "mine" /\ told[c][n].until \in Nat
                             /\ told[c][n].until <= end
<1> USE DEF TypeOK, VariableTypes
<1>1. UNCHANGED told
  BY DEF SetEnd
<1>2. \A d \in Callers, m \in Names :
        (d # c \/ m # n) => (m \in cut'[d] <=> m \in cut[d])
  BY DEF SetEnd
<1>3. told[c][n].says = "mine" /\ end < told[c][n].until => n \in cut'[c]
  BY DEF SetEnd
<1>4. told[c][n].says \in {"nothing", "mine", "acquired", "late"}
      /\ told[c][n].until \in Times
  BY DEF Replies
<1>5. Fit(c, n)
  BY DEF RowsUpheld, Upheld
<1>6. Counts(c, n)' => told[c][n].says = "mine" /\ n \notin cut'[c]
  BY <1>1, <1>4, <1>5 DEF Counts, Acts, Excused, Fit
<1> QED
  BY <1>1, <1>2, <1>3, <1>4, <1>5, <1>6 DEF Fit, Times, NoLease

(* Nobody else is owed a row that c may take.                               *)
LEMMA FreeForTheTaking ==
  ASSUME TypeOK, RowsUpheld, NEW c \in Callers, NEW n \in Names, Takeable(c, n),
         NEW d \in Callers, d # c
  PROVE  ~Pending(d, n) /\ ~Counts(d, n)
<1> USE DEF TypeOK, VariableTypes
<1>1. Upheld(d, n)
  BY DEF RowsUpheld
<1>2. HeldBy(d, n) => expires[n] < now
  BY CallersAssumption DEF HeldBy, Takeable, Lapsed
<1>3. ASSUME Pending(d, n) PROVE FALSE
  <2>1. calls[d].until \in Times
    BY DEF CallType
  <2> QED
    BY <1>1, <1>2, <1>3, <2>1 DEF Upheld, Pending, Times, NoLease
<1>4. ASSUME Counts(d, n) PROVE FALSE
  <2>1. told[d][n] \in Replies
    OBVIOUS
  <2>2. told[d][n].until \in Times /\ told[d][n].says = "mine"
    BY <1>1, <1>4, <2>1 DEF Upheld, Fit, Counts, Acts, Excused, Replies
  <2>3. told[d][n].until >= now
    BY <1>1, <1>4, <2>2 DEF Upheld, Fit, Counts, Acts
  <2> QED
    BY <1>1, <1>2, <1>4, <2>2, <2>3 DEF Upheld, Times, NoLease
<1> QED
  BY <1>3, <1>4

LEMMA UpheldStep == TypeOK /\ RowsUpheld /\ [Next]_vars => RowsUpheld'
<1> SUFFICES ASSUME TypeOK, RowsUpheld, [Next]_vars,
                    NEW d \in Callers, NEW m \in Names
             PROVE  Upheld(d, m)'
  BY DEF RowsUpheld
<1>1. ASSUME NEW c \in Callers, NEW n \in Names, NEW s \in TtlRequests,
             NEW states \in BOOLEAN, AcquireLock(c, n, s, states)
      PROVE  Upheld(d, m)'
  <2> DEFINE end == now + ClampTtl(s)
  <2>1. end \in Nat
    BY ClampRange DEF TypeOK, VariableTypes
  <2>2. /\ now' = now
        /\ SetEnd(c, n, end)
        /\ Takeable(c, n)
        /\ holder'[n] = c /\ expires'[n] = end
        /\ m # n => holder'[m] = holder[m] /\ expires'[m] = expires[m]
    BY <1>1 DEF AcquireLock, TypeOK, VariableTypes
  <2>3. /\ calls'[c].name = n /\ calls'[c].until = end
        /\ d # c => calls'[d] = calls[d]
    BY <1>1 DEF AcquireLock, Await, TypeOK, VariableTypes
  <2> HIDE DEF end
  <2>4. /\ UNCHANGED told
        /\ \A e \in Callers, k \in Names :
             (e # c \/ k # n) => (k \in cut'[e] <=> k \in cut[e])
        /\ Counts(c, n)' => told[c][n].says = "mine" /\ told[c][n].until \in Nat
                            /\ told[c][n].until <= end
    BY <2>1, <2>2, SetEndCounts DEF Times
  <2>5. CASE m # n
    BY <2>2, <2>3, <2>4, <2>5, QuietUpholds
  <2>6. CASE m = n /\ d # c
    <3>1. ~Pending(d, n) /\ ~Counts(d, n)
      BY <2>2, <2>6, FreeForTheTaking
    <3>2. ~Pending(d, n)' /\ ~Counts(d, n)'
      BY <2>2, <2>3, <2>4, <2>6, <3>1 DEF Pending, Counts, Acts, Excused
    <3>3. Fit(d, n)'
      BY <2>4 DEF RowsUpheld, Upheld, Fit
    <3> QED
      BY <2>6, <3>2, <3>3 DEF Upheld
  <2>7. CASE m = n /\ d = c
    <3>1. Fit(c, n)'
      BY <2>4 DEF RowsUpheld, Upheld, Fit
    <3>2. Counts(c, n)' => expires'[n] >= told'[c][n].until
      BY <2>1, <2>2, <2>4
    <3> QED
      BY <2>2, <2>3, <2>7, <3>1, <3>2 DEF Upheld, HeldBy
  <2> QED
    BY <2>5, <2>6, <2>7
<1>2. ASSUME NEW c \in Callers, AcquireReply(c) PROVE Upheld(d, m)'
  <2> DEFINE n == calls[c].name
  <2>1. n \in Names
    BY <1>2 DEF AcquireReply, TypeOK, CallShape, Idle
  <2>2. Pending(c, n) => HeldBy(c, n)
    BY <2>1 DEF RowsUpheld, Upheld
  <2>3. (Says(c, n) = "mine" /\ HeldBy(c, n)) \/ Says(c, n) = "late"
    BY <2>2 DEF Says, Pending
  <2>4. /\ Tell(c, n, [says |-> Says(c, n), until |-> expires[n]])
        /\ Hangup(c)
        /\ UNCHANGED <<now, row>>
    BY <1>2 DEF AcquireReply
  <2> HIDE DEF n
  <2> QED
    BY <2>1, <2>3, <2>4, TellUpholds
<1>3. ASSUME NEW c \in Callers, NEW n \in Names, ReleaseLock(c, n)
      PROVE  Upheld(d, m)'
  <2>1. /\ now' = now
        /\ SetEnd(c, n, NoLease)
        /\ HeldBy(c, n)
        /\ m # n => holder'[m] = holder[m] /\ expires'[m] = expires[m]
    BY <1>3 DEF ReleaseLock, TypeOK, VariableTypes
  <2>2. calls'[c].until = NoLease /\ (d # c => calls'[d] = calls[d])
    BY <1>3 DEF ReleaseLock, Await, TypeOK, VariableTypes
  <2>3. /\ UNCHANGED told
        /\ \A e \in Callers, k \in Names :
             (e # c \/ k # n) => (k \in cut'[e] <=> k \in cut[e])
        /\ ~Counts(c, n)'
    BY <2>1, SetEndCounts DEF Times, NoLease
  <2>4. CASE m # n
    BY <2>1, <2>2, <2>3, <2>4, QuietUpholds
  <2>5. CASE m = n
    <3>1. d # c => ~Pending(d, n) /\ ~Counts(d, n)
      BY <2>1, FreeForTheTaking DEF Takeable
    <3>2. ~Pending(d, n)'
      BY <2>1, <2>2, <3>1 DEF Pending, TypeOK, VariableTypes, NoLease
    <3>3. ~Counts(d, n)'
      BY <2>1, <2>3, <3>1 DEF Counts, Acts, Excused
    <3>4. Fit(d, n)'
      BY <2>3 DEF RowsUpheld, Upheld, Fit
    <3> QED
      BY <2>5, <3>2, <3>3, <3>4 DEF Upheld
  <2> QED
    BY <2>4, <2>5
<1>4. ASSUME NEW c \in Callers, ReleaseReply(c) PROVE Upheld(d, m)'
  <2>1. calls[c].name \in Names
    BY <1>4 DEF ReleaseReply, TypeOK, CallShape, Idle
  <2> QED
    BY <1>4, <2>1, TellUpholds DEF ReleaseReply, NoReply
<1>5. ASSUME NEW c \in Callers, NEW n \in Names, Refused(c, n) PROVE Upheld(d, m)'
  BY <1>5, TellUpholds DEF Refused, NoReply
<1>6. ASSUME NEW c \in Callers, ListLocks(c) PROVE Upheld(d, m)'
  <2>1. UNCHANGED <<now, row, calls>>
    BY <1>6 DEF ListLocks
  <2>2. CASE d # c
    <3>1. told'[d][m] = told[d][m] /\ (m \in cut'[d] <=> m \in cut[d])
      BY <1>6, <2>2 DEF ListLocks, TypeOK, VariableTypes
    <3> QED
      BY <2>1, <3>1, QuietUpholds DEF row
  <2>3. CASE d = c
    <3>1. told'[c][m] = IF HeldBy(c, m) /\ expires[m] > now
                          THEN [says |-> "mine", until |-> expires[m]] ELSE NoReply
      BY <1>6 DEF ListLocks, TypeOK, VariableTypes
    <3>2. HeldBy(c, m) => expires[m] # NoLease
      BY HeldHasExpiry
    <3>3. Upheld(c, m)
      BY DEF RowsUpheld
    <3>4. Fit(c, m)'
      BY <3>1, <3>2 DEF Fit, NoReply
    <3>5. Counts(c, m)' => HeldBy(c, m) /\ expires[m] >= told'[c][m].until
      <4>1. expires[m] \in Int
        BY DEF TypeOK, VariableTypes, Times, NoLease
      <4> QED
        BY <3>1, <4>1 DEF Counts, Acts, NoReply
    <3> QED
      BY <2>1, <2>3, <3>3, <3>4, <3>5 DEF Upheld, Pending, HeldBy, row
  <2> QED
    BY <2>2, <2>3
<1>7. ASSUME NEW c \in Callers, Abort(c) PROVE Upheld(d, m)'
  <2>1. calls'[d] = calls[d] \/ calls'[d].until = NoLease
    BY <1>7 DEF Abort, Hangup, IdleCall, TypeOK, VariableTypes
  <2> QED
    BY <1>7, <2>1, QuietUpholds DEF Abort, row, replies
<1>8. ASSUME Tick PROVE Upheld(d, m)'
  <2> USE DEF TypeOK, VariableTypes
  <2>1. Upheld(d, m) /\ now' = now + 1 /\ calls' = calls /\ UNCHANGED row
    BY <1>8 DEF RowsUpheld, Tick
  <2>2. told'[d][m] = (IF RunsOut(told[d][m]) THEN NoReply ELSE told[d][m])
        /\ (m \in cut'[d] <=> m \in cut[d] /\ ~RunsOut(told[d][m]))
    BY <1>8 DEF Tick
  <2>3. calls[d].until \in Times
    BY DEF CallType
  <2>4. Pending(d, m)' => Pending(d, m)
    BY <2>1, <2>3 DEF Pending, Times, NoLease
  <2>5. Counts(d, m)' => told'[d][m] = told[d][m] /\ Counts(d, m)
    BY <2>1, <2>2 DEF Counts, Acts, Excused, NoReply, RunsOut, Replies, Times
  <2>6. Fit(d, m)'
    BY <2>1, <2>2 DEF Upheld, Fit, NoReply
  <2> QED
    BY <2>1, <2>4, <2>5, <2>6 DEF Upheld, HeldBy, row
<1>9. ASSUME UNCHANGED vars PROVE Upheld(d, m)'
  BY <1>9, QuietUpholds DEF vars, row
<1> QED
  BY <1>1, <1>2, <1>3, <1>4, <1>5, <1>6, <1>7, <1>8, <1>9 DEF Next

LEMMA UpheldAlways == Spec => []RowsUpheld
<1>1. Init => TypeOK /\ RowsUpheld
  BY TypeInit, UpheldInit
<1>2. TypeOK /\ RowsUpheld /\ [Next]_vars => (TypeOK /\ RowsUpheld)'
  BY TypeStep, UpheldStep
<1> QED
  BY <1>1, <1>2, PTL DEF Spec

(* But for a lost reply to one's own shortening and an acquire's reply that *)
(* comes after its expiry, what a session was told of a lock is the row     *)
(* until the expiry it was told has passed.                                 *)
THEOREM RepliesAreTrue == Spec => []ToldIsTrue
<1>1. RowsUpheld => ToldIsTrue
  BY DEF RowsUpheld, Upheld, Counts, HeldBy, ToldIsTrue
<1> QED
  BY <1>1, UpheldAlways, PTL

(* But for those, two sessions never both act under one lock. *)
THEOREM MutualExclusion == Spec => []OneHolder
<1>1. ToldIsTrue => OneHolder
  BY DEF ToldIsTrue, OneHolder
<1> QED
  BY <1>1, RepliesAreTrue, PTL

-----------------------------------------------------------------------------
(* The lock table implements Lease.                                         *)
LEMMA LeaseStep == TypeOK /\ [Next]_vars => [L!Next]_(L!leaseVars)
<1> SUFFICES ASSUME TypeOK, [Next]_vars PROVE L!Next \/ UNCHANGED L!leaseVars
  OBVIOUS
<1> USE DEF TypeOK, VariableTypes, row, L!leaseVars
<1>1. ASSUME NEW c \in Callers, NEW n \in Names, NEW s \in TtlRequests,
             NEW states \in BOOLEAN, AcquireLock(c, n, s, states)
      PROVE  L!Take(n, c)
  <2>1. expires'[n] > now /\ expires' = [expires EXCEPT ![n] = expires'[n]]
    BY <1>1, ClampRange, TtlAssumption DEF AcquireLock
  <2>2. holder[n] \in {Nobody, c} \/ expires[n] < now
    BY <1>1 DEF AcquireLock, Takeable, Lapsed, HeldBy
  <2> QED
    BY <1>1, <2>1, <2>2 DEF AcquireLock, L!Take, L!Available
<1>2. ASSUME NEW c \in Callers, NEW n \in Names, ReleaseLock(c, n)
      PROVE  L!Leave(n)
  BY <1>2 DEF ReleaseLock, L!Leave, L!Free
<1>3. ASSUME NEW c \in Callers,
             \/ AcquireReply(c)
             \/ ReleaseReply(c)
             \/ \E n \in Names : Refused(c, n)
             \/ ListLocks(c)
             \/ Abort(c)
      PROVE  UNCHANGED L!leaseVars
  BY <1>3 DEF AcquireReply, ReleaseReply, Refused, ListLocks, Abort
<1>4. ASSUME Tick PROVE L!Advance
  BY <1>4 DEF Tick, L!Advance
<1>5. ASSUME UNCHANGED vars PROVE UNCHANGED L!leaseVars
  BY <1>5 DEF vars
<1> QED
  BY <1>1, <1>2, <1>3, <1>4, <1>5 DEF Next, L!Next

(* A lock changes hands only when it was released or has lapsed. *)
THEOREM LocksImplementLease == Spec => ImplementsLease
<1>1. Init => L!Init
  BY DEF Init, L!Init
<1>2. TypeOK /\ [Next]_vars => [L!Next]_(L!leaseVars)
  BY LeaseStep
<1> QED
  BY <1>1, <1>2, TypeCorrect, PTL DEF Spec, ImplementsLease, L!Spec
=============================================================================
