--------------------------- MODULE Tasks_proofs ---------------------------
(***************************************************************************)
(* Theorems about Tasks, for every set of tasks, agents and sessions,      *)
(* every range of lease lengths and every bound on the clock and on the    *)
(* calls in flight.                                                        *)
(***************************************************************************)
EXTENDS Tasks, FiniteSetTheorems, WellFoundedInduction, TLAPS

(* clamp(30, MAX_LEASE_SECS) yields a length between the two. *)
LEMMA ClampRange ==
  ASSUME NEW r \in LeaseRequests
  PROVE  Clamp(r) \in Nat /\ MinLease <= Clamp(r) /\ Clamp(r) <= MaxLease
BY LeaseAssumption DEF Clamp

LEMMA Agent ==
  ASSUME NEW c \in Callers
  PROVE  AgentOf(c) \in Agents /\ c # Nobody
BY CallersAssumption DEF AgentOf

-----------------------------------------------------------------------------
(* Every reachable state is well typed and every row well formed: claimed   *)
(* with a holder and a lease, open with neither.                            *)
LEMMA TypeInit == Init => TypeOK
BY DEF Init, TypeOK, VariableTypes, CallShape, RowShape, Statuses, Leases,
  CallType, IdleCall, Events, Idle, NoLease, Replies, NoReply

(* What a statement of c's own and what a reply leave of the replies.       *)
LEMMA SetEndType ==
  ASSUME VariableTypes, NEW c \in Callers, NEW t \in Tasks, NEW end,
         SetEnd(c, t, end)
  PROVE  /\ told' \in [Callers -> [Tasks -> Replies]]
         /\ cut' \in [Callers -> SUBSET Tasks]
<1>1. cut[c] \union {t} \in SUBSET Tasks /\ cut[c] \ {t} \in SUBSET Tasks
  BY DEF VariableTypes
<1> QED
  BY <1>1 DEF SetEnd, VariableTypes

LEMMA TellType ==
  ASSUME VariableTypes, NEW c \in Callers, NEW t \in Tasks, Tell(c, t)
  PROVE  /\ told' \in [Callers -> [Tasks -> Replies]]
         /\ cut' \in [Callers -> SUBSET Tasks]
<1>1. cut[c] \ {t} \in SUBSET Tasks
  BY DEF VariableTypes
<1>2. [says |-> Says(c, t), until |-> lease[t]] \in Replies /\ NoReply \in Replies
  BY DEF VariableTypes, Says, Replies, NoReply, Leases
<1> QED
  BY <1>1, <1>2 DEF Tell, VariableTypes

LEMMA GrantType ==
  ASSUME TypeOK, NEW c \in Callers, NEW t \in Tasks, NEW r \in LeaseRequests,
         Grant(c, t, r)
  PROVE  TypeOK'
<1> USE DEF TypeOK, Grant, Goto
<1>1. now + Clamp(r) \in Nat /\ now + Clamp(r) <= now + MaxLease
  BY ClampRange, LeaseAssumption DEF VariableTypes
<1>2. ClaimCall(t, now + Clamp(r)) \in CallType
  BY <1>1 DEF ClaimCall, CallType, Events, Leases
<1>3. VariableTypes'
  BY <1>1, <1>2, SetEndType DEF VariableTypes, Statuses, Leases
<1>4. CallShape'
  BY <1>2 DEF VariableTypes, CallShape, Idle, ClaimCall, Events
<1>5. RowShape'
  BY <1>1, Agent DEF VariableTypes, RowShape
<1> QED
  BY <1>3, <1>4, <1>5

LEMMA TypeStep == TypeOK /\ [Next]_vars => TypeOK'
<1> SUFFICES ASSUME VariableTypes, CallShape, RowShape, [Next]_vars
             PROVE  VariableTypes' /\ CallShape' /\ RowShape'
  BY DEF TypeOK
<1> USE DEF Goto, taskRow, replies
<1>1. ASSUME NEW c \in Callers, NEW t \in Tasks, NEW D \in SUBSET Tasks,
             CreateResolve(c, t, D)
      PROVE  VariableTypes' /\ CallShape' /\ RowShape'
  <2> USE <1>1 DEF CreateResolve
  <2>1. Call("insert", t, D, "created") \in CallType
    BY DEF Call, CallType, Events, Leases
  <2>2. VariableTypes'
    BY <2>1 DEF VariableTypes
  <2>3. CallShape'
    BY DEF VariableTypes, CallShape, Idle, Call, Events
  <2> QED
    BY <2>2, <2>3 DEF RowShape
<1>2. ASSUME NEW c \in Callers, CreateInsert(c)
      PROVE  VariableTypes' /\ CallShape' /\ RowShape'
  <2> USE <1>2 DEF CreateInsert
  <2>1. calls[c].task \in Tasks /\ calls[c].event \in Events
    BY DEF CallShape, Idle, Events
  <2>2. [calls[c] EXCEPT !.pc = "log"] \in CallType
    BY DEF VariableTypes, CallType
  <2>3. VariableTypes'
    BY <2>1, <2>2 DEF VariableTypes, Statuses
  <2>4. CallShape'
    BY <2>1, <2>2 DEF VariableTypes, CallShape, Idle, CallType
  <2>5. RowShape'
    BY <2>1 DEF VariableTypes, RowShape
  <2> QED
    BY <2>3, <2>4, <2>5
<1>3. ASSUME NEW c \in Callers, CreateCollides(c)
      PROVE  VariableTypes' /\ CallShape' /\ RowShape'
  <2> USE <1>3 DEF CreateCollides
  <2>1. VariableTypes'
    BY DEF VariableTypes, CallType, IdleCall, Leases
  <2>2. CallShape'
    BY DEF VariableTypes, CallShape, Idle, IdleCall
  <2> QED
    BY <2>1, <2>2 DEF RowShape
<1>4. ASSUME NEW c \in Callers, CreateDep(c)
      PROVE  VariableTypes' /\ CallShape' /\ RowShape'
  <2>1. PICK d \in calls[c].todo :
          /\ deps' = [deps EXCEPT ![calls[c].task] = @ \union {d}]
          /\ Goto(c, [calls[c] EXCEPT !.todo = @ \ {d}])
    BY <1>4 DEF CreateDep
  <2>2. UNCHANGED <<now, taskRow, created, births, history, replies>>
        /\ calls[c].pc = "log"
    BY <1>4 DEF CreateDep
  <2>3. calls[c].task \in Tasks /\ calls[c].event \in Events /\ d \in Tasks
    BY <2>1, <2>2 DEF CallShape, Idle, VariableTypes, CallType
  <2>4. [calls[c] EXCEPT !.todo = @ \ {d}] \in CallType
    BY DEF VariableTypes, CallType
  <2>5. VariableTypes'
    BY <2>1, <2>2, <2>3, <2>4 DEF VariableTypes
  <2>6. CallShape'
    BY <2>1, <2>2, <2>3, <2>4 DEF VariableTypes, CallShape, Idle, CallType
  <2> QED
    BY <2>2, <2>5, <2>6 DEF RowShape
<1>5. ASSUME NEW c \in Callers, LogEvent(c)
      PROVE  VariableTypes' /\ CallShape' /\ RowShape'
  <2> USE <1>5 DEF LogEvent
  <2>1. calls[c].task \in Tasks /\ calls[c].event \in Events
    BY DEF CallShape, Idle
  <2>2. [calls[c] EXCEPT !.pc = "reply", !.event = "none"] \in CallType
    BY DEF VariableTypes, CallType
  <2>3. VariableTypes'
    BY <2>1, <2>2, Agent DEF VariableTypes
  <2>4. CallShape'
    BY <2>1, <2>2 DEF VariableTypes, CallShape, Idle, CallType
  <2> QED
    BY <2>3, <2>4 DEF RowShape
<1>6. ASSUME NEW c \in Callers, Reply(c)
      PROVE  VariableTypes' /\ CallShape' /\ RowShape'
  <2> USE <1>6 DEF Reply
  <2>1. calls[c].task \in Tasks
    BY DEF CallShape, Idle
  <2>2. IdleCall \in CallType
    BY DEF CallType, IdleCall, Leases
  <2>3. VariableTypes'
    BY <2>1, <2>2, TellType DEF VariableTypes
  <2>4. CallShape'
    BY DEF VariableTypes, CallShape, Idle, IdleCall
  <2> QED
    BY <2>3, <2>4 DEF RowShape
<1>7. ASSUME NEW c \in Callers, NEW t \in Tasks, GetTask(c, t)
      PROVE  VariableTypes' /\ CallShape' /\ RowShape'
  <2> USE <1>7 DEF GetTask
  <2>1. VariableTypes'
    BY TellType DEF VariableTypes
  <2> QED
    BY <2>1 DEF RowShape, CallShape, Idle
<1>8. ASSUME NEW c \in Callers, NEW t \in Tasks, NEW r \in LeaseRequests,
             Claim(c, t, r)
      PROVE  VariableTypes' /\ CallShape' /\ RowShape'
  BY <1>8, GrantType DEF Claim, TypeOK
<1>9. ASSUME NEW c \in Callers, NEW r \in LeaseRequests, ClaimNext(c, r)
      PROVE  VariableTypes' /\ CallShape' /\ RowShape'
  BY <1>9, GrantType DEF ClaimNext, Unclaimed, TypeOK
<1>10. ASSUME NEW c \in Callers, NEW t \in Tasks, NEW r \in LeaseRequests,
              RenewLease(c, t, r)
       PROVE  VariableTypes' /\ CallShape' /\ RowShape'
  <2> USE <1>10 DEF RenewLease
  <2>1. now + Clamp(r) \in Nat /\ now + Clamp(r) <= now + MaxLease
    BY ClampRange, LeaseAssumption DEF VariableTypes
  <2>2. Call("reply", t, {}, "none") \in CallType
    BY DEF Call, CallType, Leases
  <2>3. VariableTypes'
    BY <2>1, <2>2, SetEndType DEF VariableTypes, Leases
  <2>4. CallShape'
    BY DEF VariableTypes, CallShape, Idle, Call
  <2>5. RowShape'
    BY <2>1 DEF VariableTypes, RowShape
  <2> QED
    BY <2>3, <2>4, <2>5
<1>11. ASSUME NEW c \in Callers, NEW t \in Tasks, ReleaseTask(c, t)
       PROVE  VariableTypes' /\ CallShape' /\ RowShape'
  <2> USE <1>11 DEF ReleaseTask
  <2>1. Call("log", t, {}, "released") \in CallType
    BY DEF Call, CallType, Events, Leases
  <2>2. VariableTypes'
    BY <2>1, SetEndType DEF VariableTypes, Leases, Statuses
  <2>3. CallShape'
    BY DEF VariableTypes, CallShape, Idle, Call, Events
  <2>4. RowShape'
    BY DEF VariableTypes, RowShape
  <2> QED
    BY <2>2, <2>3, <2>4
<1>12. ASSUME NEW c \in Callers, NEW t \in Tasks, CompleteTask(c, t)
       PROVE  VariableTypes' /\ CallShape' /\ RowShape'
  <2> USE <1>12 DEF CompleteTask
  <2>1. Call("log", t, {}, "completed") \in CallType
    BY DEF Call, CallType, Events, Leases
  <2>2. VariableTypes'
    BY <2>1, SetEndType DEF VariableTypes, Leases, Statuses
  <2>3. CallShape'
    BY DEF VariableTypes, CallShape, Idle, Call, Events
  <2>4. RowShape'
    BY DEF VariableTypes, RowShape
  <2> QED
    BY <2>2, <2>3, <2>4
<1>13. ASSUME NEW c \in Callers, Abort(c)
       PROVE  VariableTypes' /\ CallShape' /\ RowShape'
  <2> USE <1>13 DEF Abort
  <2>1. VariableTypes'
    BY DEF VariableTypes, CallType, IdleCall, Leases
  <2>2. CallShape'
    BY DEF VariableTypes, CallShape, Idle, IdleCall
  <2> QED
    BY <2>1, <2>2 DEF RowShape
<1>14. ASSUME Tick
       PROVE  VariableTypes' /\ CallShape' /\ RowShape'
  <2> USE <1>14 DEF Tick
  <2>1. told' \in [Callers -> [Tasks -> Replies]] /\ cut' \in [Callers -> SUBSET Tasks]
    BY DEF VariableTypes, Replies, NoReply, Leases
  <2>2. VariableTypes'
    BY <2>1 DEF VariableTypes
  <2>3. RowShape'
    BY LeaseAssumption DEF VariableTypes, RowShape
  <2> QED
    BY <2>2, <2>3 DEF CallShape, Idle
<1>15. ASSUME UNCHANGED vars
       PROVE  VariableTypes' /\ CallShape' /\ RowShape'
  BY <1>15 DEF VariableTypes, CallShape, RowShape, vars, Idle
<1> QED
  BY <1>1, <1>2, <1>3, <1>4, <1>5, <1>6, <1>7, <1>8, <1>9, <1>10, <1>11, <1>12,
     <1>13, <1>14, <1>15 DEF Next

(* The board is well typed and its rows well formed in every reachable      *)
(* state, whatever calls overlap or break off.                              *)
THEOREM TypeCorrect == Spec => []TypeOK
BY TypeInit, TypeStep, PTL DEF Spec

-----------------------------------------------------------------------------
(* Why OneWorker holds.  c is entitled to t while a claim of its own that   *)
(* has not run out waits for its reply, or while a reply that nothing       *)
(* excuses says so.  Then the row is kept for it: claimed by c at least     *)
(* until that end, or done, and nobody else is entitled to t.               *)
Claiming(c, t) == calls[c].task = t /\ calls[c].until >= now
Counts(c, t) == Works(c, t) /\ ~Excused(c, t)
Entitled(c, t) == Claiming(c, t) \/ Counts(c, t)

Keeps(c, t, end) == status[t] = "done" \/ (Mine(c, t) /\ lease[t] >= end)

(* A reply `claimed: true` that is not late and not next to the caller's    *)
(* own row is next to a finished one.                                       *)
Fit(c, t) ==
  /\ told[c][t].says = "claimed" => status[t] = "done"
  /\ told[c][t].says = "mine" => told[c][t].until # NoLease

Upheld(c, t) ==
  /\ Fit(c, t)
  /\ Claiming(c, t) => Keeps(c, t, calls[c].until)
  /\ Counts(c, t) => Keeps(c, t, told[c][t].until)

RowsUpheld == \A c \in Callers, t \in Tasks : Upheld(c, t)
Sole == \A t \in Tasks : \A c, d \in Callers : Entitled(c, t) /\ Entitled(d, t) => c = d
Entitlement == RowsUpheld /\ Sole

(* A session may become entitled in a step, but only to a row that is its   *)
(* own after that step.                                                     *)
Gains(c, t) == Entitled(c, t)' => (Entitled(c, t) \/ Mine(c, t)')

LEMMA EntitlementInit == Init => Entitlement
BY DEF Init, Entitlement, RowsUpheld, Sole, Upheld, Fit, Entitled, Claiming, Counts,
  Works, IdleCall, NoReply, NoLease

LEMMA EntitlementFrom ==
  ASSUME Sole, NEW t \in Tasks, \A d \in Callers : Upheld(d, t)' /\ Gains(d, t)
  PROVE  \A c, d \in Callers : Entitled(c, t)' /\ Entitled(d, t)' => c = d
<1> SUFFICES ASSUME NEW c \in Callers, NEW d \in Callers, Entitled(c, t)',
                    Entitled(d, t)'
             PROVE  c = d
  OBVIOUS
<1>1. \A e \in Callers : Entitled(e, t)' => (status'[t] = "done" \/ Mine(e, t)')
  BY DEF Upheld, Keeps, Entitled
<1>2. CASE Entitled(c, t) /\ Entitled(d, t)
  BY <1>2 DEF Sole
<1>3. CASE Mine(c, t)' \/ Mine(d, t)'
  BY <1>1, <1>3 DEF Mine, HeldBy
<1> QED
  BY <1>2, <1>3 DEF Gains

(* A step that leaves the clock, the claimed and the finished rows and the  *)
(* replies alone, and starts no claim.                                      *)
LEMMA QuietKeeps ==
  ASSUME TypeOK, Entitlement, UNCHANGED <<now, told, cut>>,
         NEW d \in Callers, NEW u \in Tasks,
         status[u] \in {"claimed", "done"} =>
           status'[u] = status[u] /\ holder'[u] = holder[u] /\ lease'[u] = lease[u],
         \/ calls'[d].until = NoLease
         \/ calls'[d].until = calls[d].until /\ calls'[d].task = calls[d].task
  PROVE  Upheld(d, u)' /\ Gains(d, u)
<1>1. Upheld(d, u)
  BY DEF Entitlement, RowsUpheld
<1>2. Claiming(d, u)' => Claiming(d, u) /\ calls'[d].until = calls[d].until
  BY DEF Claiming, TypeOK, VariableTypes, NoLease
<1>3. Counts(d, u)' <=> Counts(d, u)
  BY DEF Counts, Works, Excused
<1>4. \A end : Keeps(d, u, end) => Keeps(d, u, end)'
  BY DEF Keeps, Mine, HeldBy
<1>5. Fit(d, u)'
  BY <1>1 DEF Upheld, Fit
<1>6. Upheld(d, u)'
  BY <1>1, <1>2, <1>3, <1>4, <1>5 DEF Upheld
<1>7. Gains(d, u)
  BY <1>2, <1>3 DEF Gains, Entitled
<1> QED
  BY <1>6, <1>7

(* A reply about t, or a look at it.                                        *)
LEMMA TellKeeps ==
  ASSUME TypeOK, Entitlement, UNCHANGED <<now, taskRow>>,
         NEW c \in Callers, NEW t \in Tasks, Tell(c, t),
         calls[c].until # NoLease => calls[c].task = t,
         \/ UNCHANGED calls
         \/ Goto(c, IdleCall),
         NEW d \in Callers, NEW u \in Tasks
  PROVE  Upheld(d, u)' /\ Gains(d, u)
<1> USE DEF TypeOK, VariableTypes
<1>1. Upheld(d, u)
  BY DEF Entitlement, RowsUpheld
<1>2. Claiming(d, u)' => Claiming(d, u) /\ calls'[d].until = calls[d].until
  <2>1. calls'[d] = calls[d] \/ calls'[d].until = NoLease
    BY DEF Goto, IdleCall
  <2> QED
    BY <2>1 DEF Claiming, NoLease
<1>3. \A end : Keeps(d, u, end)' <=> Keeps(d, u, end)
  BY DEF Keeps, Mine, HeldBy, taskRow
<1>4. CASE d # c \/ u # t
  <2>1. told'[d][u] = told[d][u] /\ (u \in cut'[d] <=> u \in cut[d])
    BY <1>4 DEF Tell
  <2>2. Counts(d, u)' <=> Counts(d, u)
    BY <2>1 DEF Counts, Works, Excused
  <2>3. Fit(d, u)'
    BY <1>1, <2>1 DEF Upheld, Fit, taskRow
  <2>4. Upheld(d, u)'
    BY <1>1, <1>2, <1>3, <2>1, <2>2, <2>3 DEF Upheld
  <2> QED
    BY <1>2, <2>2, <2>4 DEF Gains, Entitled
<1>5. CASE d = c /\ u = t
  <2>1. told'[c][t] = IF Says(c, t) = "nothing" THEN NoReply
                      ELSE [says |-> Says(c, t), until |-> lease[t]]
    BY DEF Tell
  <2>2. Says(c, t) = "mine" => Mine(c, t) /\ lease[t] # NoLease
    BY DEF Says, Mine, RowShape, NoLease
  <2>3. Says(c, t) = "claimed" => Claiming(c, t) /\ status[t] = "done"
    <3>1. Says(c, t) = "claimed" =>
            ~Mine(c, t) /\ calls[c].until # NoLease /\ calls[c].until >= now
      BY DEF Says
    <3>2. Says(c, t) = "claimed" => Claiming(c, t)
      BY <3>1 DEF Claiming
    <3> QED
      BY <1>1, <1>5, <3>1, <3>2 DEF Upheld, Keeps
  <2>4. told'[c][t].says = Says(c, t)
        /\ (Says(c, t) # "nothing" => told'[c][t].until = lease[t])
    BY <2>1 DEF NoReply
  <2>5. Counts(c, t)' => Says(c, t) \in {"mine", "claimed"}
    BY <2>4 DEF Counts, Works, Excused, Says
  <2>6. Fit(c, t)'
    BY <2>2, <2>3, <2>4 DEF Fit, taskRow
  <2>7. Counts(c, t)' => Keeps(c, t, told'[c][t].until)
    BY <2>2, <2>3, <2>4, <2>5 DEF Keeps, Leases
  <2>8. Upheld(c, t)'
    BY <1>1, <1>2, <1>3, <1>5, <2>6, <2>7 DEF Upheld, Keeps, taskRow
  <2>9. Gains(c, t)
    BY <1>2, <1>5, <2>2, <2>3, <2>5 DEF Gains, Entitled, Mine, HeldBy, taskRow
  <2> QED
    BY <1>5, <2>8, <2>9
<1> QED
  BY <1>4, <1>5

(* A statement of c's own about t that gives t the end `end`.               *)
LEMMA SetEndCounts ==
  ASSUME TypeOK, Entitlement, now' = now, NEW c \in Callers, NEW t \in Tasks,
         NEW end \in Leases, SetEnd(c, t, end), NEW d \in Callers, NEW u \in Tasks
  PROVE  /\ UNCHANGED told
         /\ (d # c \/ u # t) => (Counts(d, u)' <=> Counts(d, u))
         /\ Counts(c, t)' => \/ told[c][t].says = "mine" /\ told[c][t].until <= end
                             \/ told[c][t].says = "claimed"
<1> USE DEF TypeOK, VariableTypes
<1>1. UNCHANGED told
  BY DEF SetEnd
<1>2. (d # c \/ u # t) => (u \in cut'[d] <=> u \in cut[d])
  BY DEF SetEnd
<1>3. told[c][t].says = "mine" /\ end < told[c][t].until => t \in cut'[c]
  BY DEF SetEnd
<1>4. told[c][t].says \in {"nothing", "mine", "claimed", "late"}
      /\ told[c][t].until \in Leases
  BY DEF Replies
<1> QED
  BY <1>1, <1>2, <1>3, <1>4 DEF Counts, Works, Excused, Leases, NoLease

(* Nobody else is entitled to a row that c may claim, renew or release.     *)
LEMMA FreeForTheTaking ==
  ASSUME TypeOK, Entitlement, NEW c \in Callers, NEW t \in Tasks,
         \/ status[t] = "open"
         \/ status[t] = "claimed" /\ (HeldBy(c, t) \/ Expired(t)),
         NEW d \in Callers, d # c
  PROVE  ~Entitled(d, t)
<1> SUFFICES ASSUME Entitled(d, t) PROVE FALSE
  OBVIOUS
<1> USE DEF TypeOK, VariableTypes
<1>1. Upheld(d, t)
  BY DEF Entitlement, RowsUpheld
<1>2. CASE Claiming(d, t)
  <2>1. Mine(d, t) /\ lease[t] >= calls[d].until
    BY <1>1, <1>2 DEF Upheld, Keeps
  <2>2. calls[d].until \in Leases /\ calls[d].until >= now
    BY <1>2 DEF CallType, Claiming
  <2> QED
    BY <2>1, <2>2 DEF Mine, HeldBy, Expired, Leases, NoLease
<1>3. CASE Counts(d, t)
  <2>1. Mine(d, t) /\ lease[t] >= told[d][t].until
    BY <1>1, <1>3 DEF Upheld, Keeps
  <2>2. told[d][t].says = "mine"
    BY <1>1, <1>3 DEF Upheld, Fit, Counts, Works, Excused, Replies
  <2>3. told[d][t].until \in Leases /\ told[d][t].until >= now
    BY <1>1, <1>3, <2>2 DEF Upheld, Fit, Counts, Works, Replies
  <2> QED
    BY <2>1, <2>3 DEF Mine, HeldBy, Expired, Leases, NoLease
<1> QED
  BY <1>2, <1>3 DEF Entitled

(* A claim or a renewal: t is c's for end - now from now on.                *)
LEMMA ExtendKeeps ==
  ASSUME TypeOK, Entitlement, now' = now, NEW c \in Callers, NEW t \in Tasks,
         \/ status[t] = "open"
         \/ status[t] = "claimed" /\ (HeldBy(c, t) \/ Expired(t)),
         NEW end \in Nat, SetEnd(c, t, end),
         \A u \in Tasks : u # t =>
           status'[u] = status[u] /\ holder'[u] = holder[u] /\ lease'[u] = lease[u],
         status'[t] = "claimed", holder'[t] = c, lease'[t] = end,
         \A d \in Callers : d # c => calls'[d] = calls[d],
         calls'[c].until # NoLease => calls'[c].until = end /\ calls'[c].task = t,
         NEW d \in Callers, NEW u \in Tasks
  PROVE  Upheld(d, u)' /\ Gains(d, u)
<1>1. Upheld(d, u)
  BY DEF Entitlement, RowsUpheld
<1>2. /\ UNCHANGED told
      /\ (d # c \/ u # t) => (Counts(d, u)' <=> Counts(d, u))
      /\ Counts(c, t)' => \/ told[c][t].says = "mine" /\ told[c][t].until <= end
                          \/ told[c][t].says = "claimed"
  BY SetEndCounts DEF Leases
<1>3. Fit(d, u)'
  BY <1>1, <1>2 DEF Upheld, Fit
<1>4. CASE u # t
  <2>1. Claiming(d, u)' => Claiming(d, u) /\ calls'[d].until = calls[d].until
    BY <1>4 DEF Claiming, TypeOK, VariableTypes, NoLease
  <2>2. \A e : Keeps(d, u, e)' <=> Keeps(d, u, e)
    BY <1>4 DEF Keeps, Mine, HeldBy
  <2>3. Upheld(d, u)'
    BY <1>1, <1>2, <1>3, <1>4, <2>1, <2>2 DEF Upheld
  <2> QED
    BY <1>2, <1>4, <2>1, <2>3 DEF Gains, Entitled
<1>5. CASE u = t /\ d # c
  <2>1. ~Entitled(d, t)
    BY <1>5, FreeForTheTaking
  <2>2. ~Entitled(d, t)'
    BY <1>2, <1>5, <2>1 DEF Entitled, Claiming
  <2> QED
    BY <1>3, <1>5, <2>2 DEF Upheld, Gains, Entitled
<1>6. CASE u = t /\ d = c
  <2>1. Mine(c, t)'
    BY DEF Mine, HeldBy
  <2>2. Claiming(c, t)' => calls'[c].until = end
    BY DEF Claiming, TypeOK, VariableTypes, NoLease
  <2>3. told[c][t].says # "claimed"
    BY <1>1, <1>6 DEF Upheld, Fit
  <2>4. Upheld(c, t)'
    BY <1>2, <1>3, <1>6, <2>1, <2>2, <2>3 DEF Upheld, Keeps
  <2> QED
    BY <1>6, <2>1, <2>4 DEF Gains
<1> QED
  BY <1>4, <1>5, <1>6

(* A release or a completion: the lease is gone, and with it c's own claim. *)
LEMMA EndKeeps ==
  ASSUME TypeOK, Entitlement, now' = now, NEW c \in Callers, NEW t \in Tasks,
         SetEnd(c, t, NoLease), status[t] # "done",
         \A u \in Tasks : u # t =>
           status'[u] = status[u] /\ holder'[u] = holder[u] /\ lease'[u] = lease[u],
         status'[t] = "done" \/ (status[t] = "claimed" /\ HeldBy(c, t)),
         \A d \in Callers : d # c => calls'[d] = calls[d],
         calls'[c].until = NoLease,
         NEW d \in Callers, NEW u \in Tasks
  PROVE  Upheld(d, u)' /\ Gains(d, u)
<1>1. Upheld(d, u)
  BY DEF Entitlement, RowsUpheld
<1>2. /\ UNCHANGED told
      /\ (d # c \/ u # t) => (Counts(d, u)' <=> Counts(d, u))
      /\ Counts(c, t)' => \/ told[c][t].says = "mine" /\ told[c][t].until <= NoLease
                          \/ told[c][t].says = "claimed"
  BY SetEndCounts DEF Leases
<1>3. Fit(d, u)'
  BY <1>1, <1>2 DEF Upheld, Fit
<1>4. Claiming(d, u)' => d # c /\ Claiming(d, u) /\ calls'[d].until = calls[d].until
  BY DEF Claiming, TypeOK, VariableTypes, NoLease
<1>5. CASE u # t
  <2>1. \A e : Keeps(d, u, e)' <=> Keeps(d, u, e)
    BY <1>5 DEF Keeps, Mine, HeldBy
  <2>2. Upheld(d, u)'
    BY <1>1, <1>2, <1>3, <1>4, <1>5, <2>1 DEF Upheld
  <2> QED
    BY <1>2, <1>4, <1>5, <2>2 DEF Gains, Entitled
<1>6. CASE u = t /\ d # c
  <2>1. Gains(d, t)
    BY <1>2, <1>4, <1>6 DEF Gains, Entitled
  <2>2. CASE status'[t] = "done"
    BY <1>3, <1>6, <2>1, <2>2 DEF Upheld, Keeps
  <2>3. CASE status[t] = "claimed" /\ HeldBy(c, t)
    <3>1. ~Entitled(d, t)
      BY <1>6, <2>3, FreeForTheTaking
    <3> QED
      BY <1>2, <1>3, <1>4, <1>6, <2>1, <3>1 DEF Upheld, Entitled
  <2> QED
    BY <2>2, <2>3
<1>7. CASE u = t /\ d = c
  <2>1. told[c][t].says # "claimed"
    BY <1>1, <1>7 DEF Upheld, Fit
  <2>2. told[c][t].says = "mine" => told[c][t].until \in Nat
    BY <1>1, <1>7 DEF Upheld, Fit, TypeOK, VariableTypes, Replies, Leases
  <2>3. ~Counts(c, t)'
    BY <1>2, <2>1, <2>2 DEF NoLease
  <2> QED
    BY <1>3, <1>4, <1>7, <2>3 DEF Upheld, Gains, Entitled
<1> QED
  BY <1>5, <1>6, <1>7

LEMMA TickKeeps ==
  ASSUME TypeOK, Entitlement, Tick, NEW d \in Callers, NEW u \in Tasks
  PROVE  Upheld(d, u)' /\ Gains(d, u)
<1> USE DEF TypeOK, VariableTypes
<1>1. Upheld(d, u) /\ now' = now + 1 /\ calls' = calls /\ UNCHANGED taskRow
  BY DEF Entitlement, RowsUpheld, Tick
<1>2. told'[d][u] = (IF RunsOut(told[d][u]) THEN NoReply ELSE told[d][u])
      /\ (u \in cut'[d] <=> u \in cut[d] /\ ~RunsOut(told[d][u]))
  BY DEF Tick
<1>3. Claiming(d, u)' => Claiming(d, u)
  <2>1. calls[d].until \in Leases
    BY DEF CallType
  <2> QED
    BY <1>1, <2>1 DEF Claiming, Leases, NoLease
<1>4. Counts(d, u)' => told'[d][u] = told[d][u] /\ Counts(d, u)
  BY <1>1, <1>2 DEF Counts, Works, Excused, NoReply, RunsOut, Replies, Leases
<1>5. \A e : Keeps(d, u, e)' <=> Keeps(d, u, e)
  BY <1>1 DEF Keeps, Mine, HeldBy, taskRow
<1>6. Fit(d, u)'
  BY <1>1, <1>2 DEF Upheld, Fit, taskRow, NoReply
<1>7. Upheld(d, u)'
  BY <1>1, <1>3, <1>4, <1>5, <1>6 DEF Upheld
<1> QED
  BY <1>3, <1>4, <1>7 DEF Gains, Entitled

LEMMA EntitlementStep == TypeOK /\ Entitlement /\ [Next]_vars => Entitlement'
<1> SUFFICES ASSUME TypeOK, Entitlement, [Next]_vars,
                    NEW d \in Callers, NEW u \in Tasks
             PROVE  Upheld(d, u)' /\ Gains(d, u)
  BY EntitlementFrom DEF Entitlement, RowsUpheld, Sole
<1> DEFINE Done == Upheld(d, u)' /\ Gains(d, u)
<1> USE DEF replies, Goto
<1>1. ASSUME NEW c \in Callers, NEW t \in Tasks, NEW D \in SUBSET Tasks,
             CreateResolve(c, t, D)
      PROVE  Done
  <2>1. calls'[d] = calls[d] \/ calls'[d].until = NoLease
    BY <1>1 DEF CreateResolve, Call, TypeOK, VariableTypes
  <2> QED
    BY <1>1, <2>1, QuietKeeps DEF CreateResolve, taskRow
<1>2. ASSUME NEW c \in Callers, CreateInsert(c) PROVE Done
  <2>1. calls'[d].until = calls[d].until /\ calls'[d].task = calls[d].task
    BY <1>2 DEF CreateInsert, TypeOK, VariableTypes, CallType
  <2> QED
    BY <1>2, <2>1, QuietKeeps DEF CreateInsert, TypeOK, VariableTypes
<1>3. ASSUME NEW c \in Callers, CreateCollides(c) \/ Abort(c) PROVE Done
  <2>1. calls'[d] = calls[d] \/ calls'[d].until = NoLease
    BY <1>3 DEF CreateCollides, Abort, IdleCall, TypeOK, VariableTypes
  <2>2. UNCHANGED <<now, taskRow, told, cut>>
    BY <1>3 DEF CreateCollides, Abort
  <2> QED
    BY <2>1, <2>2, QuietKeeps DEF taskRow
<1>4. ASSUME NEW c \in Callers, CreateDep(c) \/ LogEvent(c) PROVE Done
  <2> DEFINE Same == calls'[d].until = calls[d].until /\ calls'[d].task = calls[d].task
  <2>1. CASE CreateDep(c)
    <3>1. Same
      BY <2>1 DEF CreateDep, TypeOK, VariableTypes, CallType
    <3>2. UNCHANGED <<now, taskRow, told, cut>>
      BY <2>1 DEF CreateDep
    <3> QED
      BY <3>1, <3>2, QuietKeeps DEF taskRow
  <2>2. CASE LogEvent(c)
    <3>1. Same
      BY <2>2 DEF LogEvent, TypeOK, VariableTypes, CallType
    <3>2. UNCHANGED <<now, taskRow, told, cut>>
      BY <2>2 DEF LogEvent
    <3> QED
      BY <3>1, <3>2, QuietKeeps DEF taskRow
  <2> QED
    BY <1>4, <2>1, <2>2
<1>5. ASSUME NEW c \in Callers, Reply(c) PROVE Done
  <2>1. calls[c].task \in Tasks
    BY <1>5 DEF Reply, TypeOK, CallShape, Idle
  <2> QED
    BY <1>5, <2>1, TellKeeps DEF Reply
<1>6. ASSUME NEW c \in Callers, NEW t \in Tasks, GetTask(c, t) PROVE Done
  <2>1. calls[c].until = NoLease
    BY <1>6 DEF GetTask, TypeOK, CallShape, IdleCall
  <2> QED
    BY <1>6, <2>1, TellKeeps DEF GetTask
<1>7. ASSUME NEW c \in Callers, NEW t \in Tasks, NEW r \in LeaseRequests,
             Grant(c, t, r),
             \/ status[t] = "open"
             \/ status[t] = "claimed" /\ (HeldBy(c, t) \/ Expired(t))
      PROVE  Done
  <2> DEFINE end == now + Clamp(r)
  <2>1. end \in Nat
    BY ClampRange DEF TypeOK, VariableTypes
  <2>2. calls'[c].until = end /\ calls'[c].task = t
        /\ \A e \in Callers : e # c => calls'[e] = calls[e]
    BY <1>7 DEF Grant, ClaimCall, TypeOK, VariableTypes
  <2>3. /\ \A v \in Tasks : v # t =>
             status'[v] = status[v] /\ holder'[v] = holder[v] /\ lease'[v] = lease[v]
        /\ status'[t] = "claimed" /\ holder'[t] = c /\ lease'[t] = end
        /\ SetEnd(c, t, end) /\ now' = now
    BY <1>7 DEF Grant, TypeOK, VariableTypes
  <2> HIDE DEF end
  <2> QED
    BY <1>7, <2>1, <2>2, <2>3, ExtendKeeps
<1>8. ASSUME NEW c \in Callers, NEW t \in Tasks, NEW r \in LeaseRequests,
             Claim(c, t, r)
      PROVE  Done
  <2>1. status[t] = "claimed" => lease[t] # NoLease
    BY DEF TypeOK, RowShape, NoLease
  <2> QED
    BY <1>7, <1>8, <2>1 DEF Claim, Claimable
<1>9. ASSUME NEW c \in Callers, NEW r \in LeaseRequests, ClaimNext(c, r) PROVE Done
  BY <1>7, <1>9 DEF ClaimNext, Unclaimed
<1>10. ASSUME NEW c \in Callers, NEW t \in Tasks, NEW r \in LeaseRequests,
              RenewLease(c, t, r)
       PROVE  Done
  <2> DEFINE end == now + Clamp(r)
  <2>1. end \in Nat
    BY ClampRange DEF TypeOK, VariableTypes
  <2>2. calls'[c].until = NoLease
        /\ \A e \in Callers : e # c => calls'[e] = calls[e]
    BY <1>10 DEF RenewLease, Call, TypeOK, VariableTypes
  <2>3. /\ \A v \in Tasks : v # t =>
             status'[v] = status[v] /\ holder'[v] = holder[v] /\ lease'[v] = lease[v]
        /\ status'[t] = "claimed" /\ holder'[t] = c /\ lease'[t] = end
        /\ SetEnd(c, t, end) /\ now' = now
        /\ status[t] = "claimed" /\ HeldBy(c, t)
    BY <1>10 DEF RenewLease, HeldBy, TypeOK, VariableTypes
  <2> HIDE DEF end
  <2> QED
    BY <2>1, <2>2, <2>3, ExtendKeeps
<1>11. ASSUME NEW c \in Callers, NEW t \in Tasks, ReleaseTask(c, t) PROVE Done
  BY <1>11, EndKeeps DEF ReleaseTask, Call, TypeOK, VariableTypes
<1>12. ASSUME NEW c \in Callers, NEW t \in Tasks, CompleteTask(c, t) PROVE Done
  BY <1>12, EndKeeps DEF CompleteTask, Call, TypeOK, VariableTypes
<1>13. ASSUME Tick PROVE Done
  BY <1>13, TickKeeps
<1>14. ASSUME UNCHANGED vars PROVE Done
  BY <1>14, QuietKeeps DEF vars
<1> HIDE DEF Done
<1>15. Done
  BY <1>1, <1>2, <1>3, <1>4, <1>5, <1>6, <1>8, <1>9, <1>10, <1>11, <1>12, <1>13,
     <1>14 DEF Next
<1> QED
  BY <1>15 DEF Done

(* But for a lost reply to one's own shortening and a claim's reply that    *)
(* comes after its lease has run out, no two sessions were ever both told   *)
(* that one task is theirs, for a time that has not passed.                 *)
THEOREM AtMostOneWorker == Spec => []OneWorker
<1>1. Init => TypeOK /\ Entitlement
  BY TypeInit, EntitlementInit
<1>2. TypeOK /\ Entitlement /\ [Next]_vars => (TypeOK /\ Entitlement)'
  BY TypeStep, EntitlementStep
<1>3. Entitlement => OneWorker
  BY DEF Entitlement, Sole, Entitled, Counts, OneWorker
<1> QED
  BY <1>1, <1>2, <1>3, PTL DEF Spec

-----------------------------------------------------------------------------
(* A finished task keeps its status, holder and result.                     *)
LEMMA DoneStep ==
  ASSUME TypeOK, [Next]_vars, NEW t \in Tasks, status[t] = "done"
  PROVE  /\ status'[t] = "done"
         /\ holder'[t] = holder[t]
         /\ result'[t] = result[t]
<1> USE DEF TypeOK, VariableTypes, taskRow
<1>1. ASSUME NEW c \in Callers, NEW u \in Tasks, NEW r \in LeaseRequests,
             Grant(c, u, r), u # t
      PROVE  /\ status'[t] = "done"
             /\ holder'[t] = holder[t]
             /\ result'[t] = result[t]
  BY <1>1 DEF Grant
<1>2. ASSUME NEW c \in Callers, NEW u \in Tasks, NEW r \in LeaseRequests,
             Claim(c, u, r)
      PROVE  u # t
  BY <1>2 DEF Claim, Claimable
<1>3. ASSUME NEW c \in Callers, NEW r \in LeaseRequests, ClaimNext(c, r)
      PROVE  \E u \in Tasks : u # t /\ Grant(c, u, r)
  BY <1>3 DEF ClaimNext, Unclaimed
<1> DEFINE Settled == status'[t] = "done" /\ holder'[t] = holder[t] /\ result'[t] = result[t]
<1>4. ASSUME NEW c \in Callers, CreateInsert(c) PROVE Settled
  BY <1>4 DEF CreateInsert
<1>5. ASSUME NEW c \in Callers, NEW u \in Tasks, NEW r \in LeaseRequests,
             RenewLease(c, u, r)
      PROVE  Settled
  BY <1>5 DEF RenewLease
<1>6. ASSUME NEW c \in Callers, NEW u \in Tasks, ReleaseTask(c, u) PROVE Settled
  BY <1>6 DEF ReleaseTask
<1>7. ASSUME NEW c \in Callers, NEW u \in Tasks, CompleteTask(c, u) PROVE Settled
  BY <1>7 DEF CompleteTask
<1>8. ASSUME NEW c \in Callers, NEW u \in Tasks, NEW r \in LeaseRequests,
             Claim(c, u, r)
      PROVE  Settled
  BY <1>8, <1>1, <1>2 DEF Claim
<1>9. ASSUME NEW c \in Callers, NEW r \in LeaseRequests, ClaimNext(c, r)
      PROVE  Settled
  BY <1>9, <1>1, <1>3
<1>10. ASSUME UNCHANGED taskRow PROVE Settled
  BY <1>10
<1>11. ASSUME NEW c \in Callers,
              \/ \E u \in Tasks, D \in SUBSET Tasks : CreateResolve(c, u, D)
              \/ CreateCollides(c)
              \/ CreateDep(c)
              \/ LogEvent(c)
              \/ Reply(c)
              \/ \E u \in Tasks : GetTask(c, u)
              \/ Abort(c)
       PROVE  UNCHANGED taskRow
  BY <1>11 DEF CreateResolve, CreateCollides, CreateDep, LogEvent, Reply, GetTask,
     Abort
<1>12. ASSUME Tick PROVE UNCHANGED taskRow
  BY <1>12 DEF Tick
<1>13. ASSUME UNCHANGED vars PROVE UNCHANGED taskRow
  BY <1>13 DEF vars
<1> HIDE DEF Settled
<1>14. Settled
  BY <1>4, <1>5, <1>6, <1>7, <1>8, <1>9, <1>10, <1>11, <1>12, <1>13 DEF Next
<1> QED
  BY <1>14 DEF Settled

(* Finished means finished: no claim, release, renewal or second completion *)
(* in flight changes a finished task.                                       *)
THEOREM FinishedForGood == Spec => DoneIsFinal
<1>1. TypeOK /\ [Next]_vars =>
        [\A t \in Tasks : status[t] = "done" =>
           /\ status'[t] = "done"
           /\ holder'[t] = holder[t]
           /\ result'[t] = result[t]]_vars
  BY DoneStep
<1> QED
  BY <1>1, TypeInit, TypeStep, PTL DEF Spec, DoneIsFinal

-----------------------------------------------------------------------------
(* Why HistoryMatchesResult holds: a completion that is yet to be logged is *)
(* of a task that is done with that caller's result.                        *)
CompletionsInFlight ==
  \A c \in Callers : calls[c].pc = "log" /\ calls[c].event = "completed" =>
    status[calls[c].task] = "done" /\ result[calls[c].task] = c

LEMMA HistoryInit == Init => CompletionsInFlight /\ HistoryMatchesResult
BY DEF Init, CompletionsInFlight, HistoryMatchesResult, IdleCall

(* Finished rows are final, so what was logged stays true. *)
LEMMA HistoryKeeps ==
  ASSUME TypeOK, [Next]_vars, HistoryMatchesResult, history' = history
  PROVE  HistoryMatchesResult'
BY DoneStep DEF HistoryMatchesResult

(* A step that moves one call, and not to the logging of a completion.      *)
LEMMA OtherCallsKeep ==
  ASSUME TypeOK, [Next]_vars, CompletionsInFlight, NEW c \in Callers, NEW call,
         Goto(c, call),
         ~(call.pc = "log" /\ call.event = "completed")
  PROVE  CompletionsInFlight'
<1> SUFFICES ASSUME NEW d \in Callers, calls'[d].pc = "log",
                    calls'[d].event = "completed"
             PROVE  status'[calls'[d].task] = "done" /\ result'[calls'[d].task] = d
  BY DEF CompletionsInFlight
<1>1. d # c /\ calls'[d] = calls[d]
  BY DEF Goto, TypeOK, VariableTypes
<1>2. calls[d].task \in Tasks
  BY <1>1 DEF TypeOK, CallShape, Idle
<1> QED
  BY <1>1, <1>2, DoneStep DEF CompletionsInFlight

LEMMA HistoryStep ==
  TypeOK /\ CompletionsInFlight /\ HistoryMatchesResult /\ [Next]_vars
    => CompletionsInFlight' /\ HistoryMatchesResult'
<1> SUFFICES ASSUME TypeOK, CompletionsInFlight, HistoryMatchesResult, [Next]_vars
             PROVE  CompletionsInFlight' /\ HistoryMatchesResult'
  OBVIOUS
<1>1. ASSUME NEW c \in Callers, NEW t \in Tasks, NEW D \in SUBSET Tasks,
             CreateResolve(c, t, D)
      PROVE  CompletionsInFlight' /\ HistoryMatchesResult'
  BY <1>1, HistoryKeeps, OtherCallsKeep DEF CreateResolve, Call
<1>2. ASSUME NEW c \in Callers, CreateInsert(c)
      PROVE  CompletionsInFlight' /\ HistoryMatchesResult'
  <2>1. status[calls[c].task] = "absent"
    BY <1>2 DEF CreateInsert
  <2>2. calls[c].task \in Tasks
    BY <1>2 DEF CreateInsert, TypeOK, CallShape, Idle
  <2>3. CompletionsInFlight'
    <3> SUFFICES ASSUME NEW d \in Callers, calls'[d].pc = "log",
                        calls'[d].event = "completed"
                 PROVE  status'[calls'[d].task] = "done" /\ result'[calls'[d].task] = d
      BY DEF CompletionsInFlight
    <3>1. CASE d = c
      <4>1. calls[c].event = "completed" /\ calls[c].pc = "insert"
        BY <1>2, <3>1 DEF CreateInsert, Goto, TypeOK, VariableTypes, CallType
      <4> QED
        BY <4>1 DEF TypeOK, CallShape
    <3>2. CASE d # c
      <4>1. calls'[d] = calls[d]
        BY <1>2, <3>2 DEF CreateInsert, Goto, TypeOK, VariableTypes
      <4>2. calls[d].task \in Tasks
        BY <4>1 DEF TypeOK, CallShape, Idle
      <4> QED
        BY <4>1, <4>2, DoneStep DEF CompletionsInFlight
    <3> QED
      BY <3>1, <3>2
  <2> QED
    BY <1>2, <2>3, HistoryKeeps DEF CreateInsert
<1>3. ASSUME NEW c \in Callers, CreateCollides(c)
      PROVE  CompletionsInFlight' /\ HistoryMatchesResult'
  BY <1>3, HistoryKeeps, OtherCallsKeep DEF CreateCollides, IdleCall
<1>4. ASSUME NEW c \in Callers, CreateDep(c)
      PROVE  CompletionsInFlight' /\ HistoryMatchesResult'
  <2>1. CompletionsInFlight'
    <3> SUFFICES ASSUME NEW d \in Callers, calls'[d].pc = "log",
                        calls'[d].event = "completed"
                 PROVE  status'[calls'[d].task] = "done" /\ result'[calls'[d].task] = d
      BY DEF CompletionsInFlight
    <3>1. /\ calls[d].pc = "log"
          /\ calls[d].event = "completed"
          /\ calls'[d].task = calls[d].task
      BY <1>4 DEF CreateDep, Goto, TypeOK, VariableTypes, CallType
    <3>2. calls[d].task \in Tasks
      BY <3>1 DEF TypeOK, CallShape, Idle
    <3> QED
      BY <3>1, <3>2, DoneStep DEF CompletionsInFlight
  <2> QED
    BY <1>4, <2>1, HistoryKeeps DEF CreateDep
<1>5. ASSUME NEW c \in Callers, LogEvent(c)
      PROVE  CompletionsInFlight' /\ HistoryMatchesResult'
  <2>1. CompletionsInFlight'
    <3>1. [calls[c] EXCEPT !.pc = "reply", !.event = "none"].pc # "log"
      BY DEF TypeOK, VariableTypes, CallType
    <3> QED
      BY <1>5, <3>1, OtherCallsKeep DEF LogEvent
  <2>2. calls[c].event = "completed" =>
          status[calls[c].task] = "done" /\ result[calls[c].task] = c
    BY <1>5 DEF LogEvent, CompletionsInFlight
  <2>3. UNCHANGED taskRow
        /\ history' \subseteq history \union {<<calls[c].task, calls[c].event, AgentOf(c)>>}
    BY <1>5 DEF LogEvent
  <2>4. HistoryMatchesResult'
    BY <2>2, <2>3 DEF HistoryMatchesResult, taskRow
  <2> QED
    BY <2>1, <2>4
<1>6. ASSUME NEW c \in Callers, Reply(c)
      PROVE  CompletionsInFlight' /\ HistoryMatchesResult'
  BY <1>6, HistoryKeeps, OtherCallsKeep DEF Reply, IdleCall
<1>7. ASSUME NEW c \in Callers, NEW t \in Tasks, GetTask(c, t)
      PROVE  CompletionsInFlight' /\ HistoryMatchesResult'
  BY <1>7 DEF GetTask, taskRow, CompletionsInFlight, HistoryMatchesResult
<1>8. ASSUME NEW c \in Callers, NEW t \in Tasks, NEW r \in LeaseRequests,
             Grant(c, t, r)
      PROVE  CompletionsInFlight' /\ HistoryMatchesResult'
  BY <1>8, HistoryKeeps, OtherCallsKeep DEF Grant, ClaimCall
<1>9. ASSUME NEW c \in Callers, NEW t \in Tasks, NEW r \in LeaseRequests,
             RenewLease(c, t, r)
      PROVE  CompletionsInFlight' /\ HistoryMatchesResult'
  BY <1>9, HistoryKeeps, OtherCallsKeep DEF RenewLease, Call
<1>10. ASSUME NEW c \in Callers, NEW t \in Tasks, ReleaseTask(c, t)
       PROVE  CompletionsInFlight' /\ HistoryMatchesResult'
  BY <1>10, HistoryKeeps, OtherCallsKeep DEF ReleaseTask, Call
<1>11. ASSUME NEW c \in Callers, NEW t \in Tasks, CompleteTask(c, t)
       PROVE  CompletionsInFlight' /\ HistoryMatchesResult'
  <2>1. CompletionsInFlight'
    <3> SUFFICES ASSUME NEW d \in Callers, calls'[d].pc = "log",
                        calls'[d].event = "completed"
                 PROVE  status'[calls'[d].task] = "done" /\ result'[calls'[d].task] = d
      BY DEF CompletionsInFlight
    <3>1. CASE d = c
      BY <1>11, <3>1 DEF CompleteTask, Goto, Call, TypeOK, VariableTypes
    <3>2. CASE d # c
      <4>1. calls'[d] = calls[d]
        BY <1>11, <3>2 DEF CompleteTask, Goto, TypeOK, VariableTypes
      <4>2. calls[d].task \in Tasks
        BY <4>1 DEF TypeOK, CallShape, Idle
      <4> QED
        BY <4>1, <4>2, DoneStep DEF CompletionsInFlight
    <3> QED
      BY <3>1, <3>2
  <2> QED
    BY <1>11, <2>1, HistoryKeeps DEF CompleteTask
<1>12. ASSUME NEW c \in Callers, Abort(c)
       PROVE  CompletionsInFlight' /\ HistoryMatchesResult'
  BY <1>12, HistoryKeeps, OtherCallsKeep DEF Abort, IdleCall
<1>13. ASSUME Tick
       PROVE  CompletionsInFlight' /\ HistoryMatchesResult'
  BY <1>13 DEF Tick, taskRow, CompletionsInFlight, HistoryMatchesResult
<1>14. ASSUME UNCHANGED vars
       PROVE  CompletionsInFlight' /\ HistoryMatchesResult'
  BY <1>14 DEF vars, CompletionsInFlight, HistoryMatchesResult
<1>15. ASSUME NEW c \in Callers, NEW t \in Tasks, NEW r \in LeaseRequests,
              Claim(c, t, r)
       PROVE  Grant(c, t, r)
  BY <1>15 DEF Claim
<1>16. ASSUME NEW c \in Callers, NEW r \in LeaseRequests, ClaimNext(c, r)
       PROVE  \E t \in Tasks : Grant(c, t, r)
  BY <1>16 DEF ClaimNext, Unclaimed
<1> QED
  BY <1>1, <1>2, <1>3, <1>4, <1>5, <1>6, <1>7, <1>8, <1>9, <1>10, <1>11, <1>12,
     <1>13, <1>14, <1>15, <1>16 DEF Next

(* The history never shows a second completer: whoever is logged as having  *)
(* completed a task is the agent whose result it stores.                    *)
THEOREM HistoryIsSound == Spec => []HistoryMatchesResult
<1>1. Init => TypeOK /\ CompletionsInFlight /\ HistoryMatchesResult
  BY TypeInit, HistoryInit
<1>2. TypeOK /\ CompletionsInFlight /\ HistoryMatchesResult /\ [Next]_vars
        => (TypeOK /\ CompletionsInFlight /\ HistoryMatchesResult)'
  BY TypeStep, HistoryStep
<1> QED
  BY <1>1, <1>2, PTL DEF Spec

-----------------------------------------------------------------------------
(* Why WorkRemains holds: a dependency, recorded or still to be inserted,   *)
(* is older than the task that has it.                                      *)
DepsOlder ==
  /\ \A t \in Existing : created[t] <= births
  /\ \A t \in Tasks : \A d \in deps[t] :
       t \in Existing /\ d \in Existing /\ created[d] < created[t]
  /\ \A c \in Callers : calls[c].todo \subseteq Existing
  /\ \A c \in Callers : calls[c].pc = "log" =>
       /\ calls[c].task \in Existing
       /\ \A d \in calls[c].todo : created[d] < created[calls[c].task]

LEMMA DepsInit == Init => DepsOlder
BY DEF Init, DepsOlder, Existing, IdleCall

(* No row is ever deleted. *)
LEMMA RowsStay == TypeOK /\ [Next]_vars => Existing \subseteq Existing'
<1> SUFFICES ASSUME TypeOK, [Next]_vars, NEW t \in Tasks, status[t] # "absent"
             PROVE  status'[t] # "absent"
  BY DEF Existing
<1> USE DEF TypeOK, VariableTypes, taskRow
<1>1. ASSUME NEW c \in Callers, NEW u \in Tasks, NEW r \in LeaseRequests,
             Claim(c, u, r) \/ Grant(c, u, r) \/ RenewLease(c, u, r)
      PROVE  status'[t] # "absent"
  BY <1>1 DEF Claim, Grant, RenewLease
<1>2. ASSUME NEW c \in Callers, NEW r \in LeaseRequests, ClaimNext(c, r)
      PROVE  status'[t] # "absent"
  BY <1>1, <1>2 DEF ClaimNext, Unclaimed
<1>3. ASSUME NEW c \in Callers, NEW u \in Tasks,
             ReleaseTask(c, u) \/ CompleteTask(c, u) \/ GetTask(c, u)
      PROVE  status'[t] # "absent"
  BY <1>3 DEF ReleaseTask, CompleteTask, GetTask
<1>4. ASSUME NEW c \in Callers,
             \/ \E u \in Tasks, D \in SUBSET Tasks : CreateResolve(c, u, D)
             \/ CreateInsert(c)
             \/ CreateCollides(c)
             \/ CreateDep(c)
             \/ LogEvent(c)
             \/ Reply(c)
             \/ Abort(c)
      PROVE  status'[t] # "absent"
  BY <1>4 DEF CreateResolve, CreateInsert, CreateCollides, CreateDep, LogEvent,
     Reply, Abort
<1>5. CASE Tick
  BY <1>5 DEF Tick
<1>6. CASE UNCHANGED vars
  BY <1>6 DEF vars
<1> QED
  BY <1>1, <1>2, <1>3, <1>4, <1>5, <1>6 DEF Next

(* A statement that inserts neither a task nor a dependency, and leaves one *)
(* call about a task that exists with no dependency to insert.              *)
LEMMA DepsKeep ==
  ASSUME TypeOK, DepsOlder, [Next]_vars, UNCHANGED <<created, births, deps>>,
         Existing' = Existing, NEW c \in Callers, NEW call, Goto(c, call),
         call.todo = {}, call.pc = "log" => call.task \in Existing
  PROVE  DepsOlder'
<1>1. \A d \in Callers : calls'[d] = IF d = c THEN call ELSE calls[d]
  BY DEF Goto, TypeOK, VariableTypes
<1> QED
  BY <1>1 DEF DepsOlder

LEMMA DepsStep == TypeOK /\ DepsOlder /\ [Next]_vars => DepsOlder'
<1> SUFFICES ASSUME TypeOK, DepsOlder, [Next]_vars PROVE DepsOlder'
  OBVIOUS
<1>1. ASSUME NEW c \in Callers, NEW t \in Tasks, NEW D \in SUBSET Tasks,
             CreateResolve(c, t, D)
      PROVE  DepsOlder'
  <2>1. Existing' = Existing /\ UNCHANGED <<created, births, deps>>
    BY <1>1 DEF CreateResolve, taskRow, Existing
  <2>2. \A d \in Callers :
          calls'[d] = IF d = c THEN Call("insert", t, D, "created") ELSE calls[d]
    BY <1>1 DEF CreateResolve, Goto, TypeOK, VariableTypes
  <2>3. D \subseteq Existing
    BY <1>1 DEF CreateResolve
  <2> QED
    BY <2>1, <2>2, <2>3 DEF DepsOlder, Call
<1>2. ASSUME NEW c \in Callers, CreateInsert(c) PROVE DepsOlder'
  <2> DEFINE t == calls[c].task
  <2>1. t \in Tasks /\ t \notin Existing
    BY <1>2 DEF CreateInsert, TypeOK, CallShape, Idle, Existing
  <2>2. Existing' = Existing \union {t}
    BY <1>2, <2>1 DEF CreateInsert, Existing, TypeOK, VariableTypes
  <2>3. /\ births \in Nat /\ births' = births + 1
        /\ \A u \in Tasks : created[u] \in Nat
        /\ created'[t] = births + 1
        /\ \A u \in Existing : created'[u] = created[u]
        /\ deps' = deps
    BY <1>2, <2>1 DEF CreateInsert, TypeOK, VariableTypes, Existing
  <2>4. \A d \in Callers : /\ calls'[d].task = calls[d].task
                           /\ calls'[d].todo = calls[d].todo
                           /\ d # c => calls'[d] = calls[d]
    BY <1>2 DEF CreateInsert, Goto, TypeOK, VariableTypes, CallType
  <2> HIDE DEF t
  <2>5. \A u \in Existing' : created'[u] <= births'
    BY <2>1, <2>2, <2>3 DEF DepsOlder, Existing
  <2>6. \A u \in Tasks : \A d \in deps'[u] :
          u \in Existing' /\ d \in Existing' /\ created'[d] < created'[u]
    BY <2>2, <2>3 DEF DepsOlder
  <2>7. \A d \in Callers : calls'[d].todo \subseteq Existing'
    BY <2>2, <2>4 DEF DepsOlder
  <2>8. \A d \in Callers : calls'[d].pc = "log" =>
          /\ calls'[d].task \in Existing'
          /\ \A e \in calls'[d].todo : created'[e] < created'[calls'[d].task]
    <3>1. SUFFICES ASSUME NEW d \in Callers, calls'[d].pc = "log"
                   PROVE  /\ calls'[d].task \in Existing'
                          /\ \A e \in calls'[d].todo :
                               created'[e] < created'[calls'[d].task]
      OBVIOUS
    <3>2. CASE d = c
      <4>1. \A e \in Existing : created'[e] < created'[t]
        BY <2>3 DEF DepsOlder, Existing
      <4>2. calls'[d].task = t /\ calls'[d].todo \subseteq Existing
        BY <2>4, <3>2 DEF DepsOlder, t
      <4> QED
        BY <4>1, <4>2, <2>2
    <3>3. CASE d # c
      BY <2>2, <2>3, <2>4, <3>1, <3>3 DEF DepsOlder
    <3> QED
      BY <3>2, <3>3
  <2> QED
    BY <2>5, <2>6, <2>7, <2>8 DEF DepsOlder
<1>3. ASSUME NEW c \in Callers, CreateCollides(c) PROVE DepsOlder'
  BY <1>3, DepsKeep DEF CreateCollides, IdleCall, taskRow, Existing
<1>4. ASSUME NEW c \in Callers, CreateDep(c) PROVE DepsOlder'
  <2>1. PICK d \in calls[c].todo :
          /\ deps' = [deps EXCEPT ![calls[c].task] = @ \union {d}]
          /\ Goto(c, [calls[c] EXCEPT !.todo = @ \ {d}])
    BY <1>4 DEF CreateDep
  <2>2. UNCHANGED <<created, births>> /\ Existing' = Existing /\ calls[c].pc = "log"
    BY <1>4 DEF CreateDep, taskRow, Existing
  <2>3. \A e \in Callers : /\ calls'[e].pc = calls[e].pc
                           /\ calls'[e].task = calls[e].task
                           /\ calls'[e].todo \subseteq calls[e].todo
    BY <2>1 DEF Goto, TypeOK, VariableTypes, CallType
  <2>4. calls[c].task \in Existing /\ d \in Existing /\ created[d] < created[calls[c].task]
    BY <2>2 DEF DepsOlder
  <2>5. \A u \in Tasks : \A e \in deps'[u] :
          u \in Existing /\ e \in Existing /\ created[e] < created[u]
    BY <2>1, <2>4 DEF DepsOlder, TypeOK, VariableTypes
  <2> QED
    BY <2>2, <2>3, <2>5 DEF DepsOlder
<1>5. ASSUME NEW c \in Callers, LogEvent(c) PROVE DepsOlder'
  <2>1. [calls[c] EXCEPT !.pc = "reply", !.event = "none"].todo = {}
        /\ [calls[c] EXCEPT !.pc = "reply", !.event = "none"].pc # "log"
    BY <1>5 DEF LogEvent, TypeOK, VariableTypes, CallType
  <2> QED
    BY <1>5, <2>1, DepsKeep DEF LogEvent, taskRow, Existing
<1>6. ASSUME NEW c \in Callers, Reply(c) PROVE DepsOlder'
  BY <1>6, DepsKeep DEF Reply, IdleCall, taskRow, Existing
<1>7. ASSUME NEW c \in Callers, NEW t \in Tasks, GetTask(c, t) PROVE DepsOlder'
  BY <1>7 DEF GetTask, taskRow, DepsOlder, Existing
<1>8. ASSUME NEW c \in Callers, NEW t \in Tasks, NEW r \in LeaseRequests,
             Grant(c, t, r), t \in Existing
      PROVE  DepsOlder'
  <2>1. Existing' = Existing
    BY <1>8 DEF Grant, Existing, TypeOK, VariableTypes
  <2> QED
    BY <1>8, <2>1, DepsKeep DEF Grant, ClaimCall
<1>9. ASSUME NEW c \in Callers, NEW t \in Tasks, NEW r \in LeaseRequests,
             Claim(c, t, r)
      PROVE  DepsOlder'
  BY <1>9, <1>8 DEF Claim, Claimable, Existing
<1>10. ASSUME NEW c \in Callers, NEW r \in LeaseRequests, ClaimNext(c, r)
       PROVE  DepsOlder'
  BY <1>10, <1>8 DEF ClaimNext, Unclaimed, Existing
<1>11. ASSUME NEW c \in Callers, NEW t \in Tasks, NEW r \in LeaseRequests,
              RenewLease(c, t, r)
       PROVE  DepsOlder'
  BY <1>11, DepsKeep DEF RenewLease, Call, Existing
<1>12. ASSUME NEW c \in Callers, NEW t \in Tasks, ReleaseTask(c, t) PROVE DepsOlder'
  <2>1. Existing' = Existing /\ t \in Existing
    BY <1>12 DEF ReleaseTask, Existing, TypeOK, VariableTypes
  <2> QED
    BY <1>12, <2>1, DepsKeep DEF ReleaseTask, Call
<1>13. ASSUME NEW c \in Callers, NEW t \in Tasks, CompleteTask(c, t) PROVE DepsOlder'
  <2>1. Existing' = Existing /\ t \in Existing
    BY <1>13 DEF CompleteTask, Existing, TypeOK, VariableTypes
  <2> QED
    BY <1>13, <2>1, DepsKeep DEF CompleteTask, Call
<1>14. ASSUME NEW c \in Callers, Abort(c) PROVE DepsOlder'
  BY <1>14, DepsKeep DEF Abort, IdleCall, taskRow, Existing
<1>15. ASSUME Tick PROVE DepsOlder'
  BY <1>15 DEF Tick, taskRow, DepsOlder, Existing
<1>16. ASSUME UNCHANGED vars PROVE DepsOlder'
  BY <1>16 DEF vars, DepsOlder, Existing
<1> QED
  BY <1>1, <1>2, <1>3, <1>4, <1>5, <1>6, <1>7, <1>9, <1>10, <1>11, <1>12,
     <1>13, <1>14, <1>15, <1>16 DEF Next

(* Every nonempty set of natural numbers has a least element: among the     *)
(* intervals 0..n, which are finite, one has none of the others inside it.  *)
LEMMA LeastNat ==
  ASSUME NEW S \in SUBSET Nat, NEW s \in S
  PROVE  \E m \in S : \A n \in S : m <= n
<1> DEFINE T == {0..n : n \in S}
<1>1. T \subseteq FiniteSubsetsOf(Nat)
  <2> SUFFICES ASSUME NEW n \in S PROVE 0..n \in FiniteSubsetsOf(Nat)
    OBVIOUS
  <2>1. IsFiniteSet(0..n)
    BY FS_Interval
  <2>2. 0..n \subseteq Nat
    OBVIOUS
  <2> QED
    BY <2>1, <2>2 DEF FiniteSubsetsOf
<1>2. 0..s \in T
  OBVIOUS
<1>3. PICK x \in T : \A y \in T : ~(<<y, x>> \in StrictSubsetOrdering(Nat))
  <2> HIDE DEF T
  <2> QED
    BY <1>1, <1>2, FS_StrictSubsetOrderingWellFounded, WFMin
<1>4. PICK m \in S : x = 0..m
  BY <1>3
<1>5. ASSUME NEW n \in S, n < m PROVE FALSE
  <2>1. 0..n \in SUBSET Nat /\ 0..m \in SUBSET Nat /\ 0..n \subseteq 0..m
    BY <1>5
  <2>2. 0..n # 0..m
    <3>1. m \in 0..m /\ m \notin 0..n
      BY <1>5
    <3> QED
      BY <3>1
  <2>3. <<0..n, 0..m>> \in StrictSubsetOrdering(Nat)
    BY <2>1, <2>2 DEF StrictSubsetOrdering
  <2>4. 0..n \in T
    OBVIOUS
  <2> QED
    BY <1>3, <1>4, <2>3, <2>4
<1> QED
  BY <1>5

LEMMA OldestIsReady == TypeOK /\ DepsOlder => WorkRemains
<1> SUFFICES ASSUME TypeOK, DepsOlder, NEW o \in Tasks, status[o] = "open",
                    \A u \in Tasks : status[u] # "claimed"
             PROVE  \E u \in Tasks : status[u] = "open" /\ ~Blocked(u)
  BY DEF WorkRemains
<1> DEFINE Open == {t \in Tasks : status[t] = "open"}
           Ages == {created[t] : t \in Open}
<1>1. Ages \in SUBSET Nat /\ created[o] \in Ages
  BY DEF TypeOK, VariableTypes
<1>2. PICK m \in Ages : \A n \in Ages : m <= n
  BY <1>1, LeastNat
<1>3. PICK t \in Open : created[t] = m
  BY <1>2
<1>4. \A u \in Open : created[t] <= created[u]
  BY <1>2, <1>3
<1>5. \A d \in deps[t] : d \in Tasks /\ status[d] # "absent" /\ created[d] < created[t]
  BY DEF DepsOlder, Existing, TypeOK, VariableTypes
<1>6. \A d \in deps[t] : d \notin Open
  BY <1>4, <1>5 DEF TypeOK, VariableTypes
<1>7. \A d \in deps[t] : status[d] \in Finished
  BY <1>5, <1>6 DEF TypeOK, VariableTypes, Statuses, Finished
<1> QED
  BY <1>7 DEF Blocked

(* As long as a task is open there is one to work on: the dependencies that *)
(* create_task inserts one by one never close a circle.                     *)
THEOREM NoDependencyDeadlock == Spec => []WorkRemains
<1>1. Init => TypeOK /\ DepsOlder
  BY TypeInit, DepsInit
<1>2. TypeOK /\ DepsOlder /\ [Next]_vars => (TypeOK /\ DepsOlder)'
  BY TypeStep, DepsStep
<1> QED
  BY <1>1, <1>2, OldestIsReady, PTL DEF Spec

-----------------------------------------------------------------------------
(* The board implements Lease.                                              *)
LEMMA LeaseInit == Init => L!Init
BY DEF Init, L!Init, Owner, Retired

LEMMA LeaseStep == TypeOK /\ [Next]_vars => [L!Next]_(L!leaseVars)
<1> SUFFICES ASSUME TypeOK, [Next]_vars PROVE L!Next \/ UNCHANGED L!leaseVars
  OBVIOUS
<1> USE DEF TypeOK, VariableTypes, taskRow
<1>1. ASSUME UNCHANGED <<now, taskRow>> PROVE UNCHANGED L!leaseVars
  BY <1>1 DEF L!leaseVars, Owner, Retired
<1>2. ASSUME NEW c \in Callers,
             \/ \E t \in Tasks, D \in SUBSET Tasks : CreateResolve(c, t, D)
             \/ CreateCollides(c)
             \/ CreateDep(c)
             \/ LogEvent(c)
             \/ Reply(c)
             \/ \E t \in Tasks : GetTask(c, t)
             \/ Abort(c)
      PROVE  UNCHANGED <<now, taskRow>>
  BY <1>2 DEF CreateResolve, CreateCollides, CreateDep, LogEvent, Reply, GetTask,
     Abort
<1>3. ASSUME NEW c \in Callers, CreateInsert(c) PROVE UNCHANGED L!leaseVars
  BY <1>3 DEF CreateInsert, L!leaseVars, Owner, Retired
<1>4. ASSUME NEW c \in Callers, NEW t \in Tasks, NEW r \in LeaseRequests,
             Grant(c, t, r), status[t] # "done",
             status[t] = "open" \/ HeldBy(c, t) \/ Expired(t)
      PROVE  L!Take(t, c)
  <2>1. lease'[t] > now /\ lease' = [lease EXCEPT ![t] = lease'[t]]
    BY <1>4, ClampRange, LeaseAssumption DEF Grant
  <2>2. Owner' = [Owner EXCEPT ![t] = c]
    BY <1>4 DEF Grant, Owner
  <2>3. UNCHANGED <<now, Retired>> /\ t \notin Retired
    BY <1>4 DEF Grant, Retired
  <2>4. Owner[t] \in {Nobody, c} \/ lease[t] < now
    BY <1>4 DEF Owner, HeldBy, Expired
  <2> QED
    BY <2>1, <2>2, <2>3, <2>4 DEF L!Take, L!Available
<1>5. ASSUME NEW c \in Callers, NEW t \in Tasks, NEW r \in LeaseRequests,
             Claim(c, t, r)
      PROVE  L!Take(t, c)
  <2>1. status[t] = "claimed" => lease[t] # NoLease
    BY DEF RowShape, NoLease
  <2> QED
    BY <1>5, <2>1, <1>4 DEF Claim, Claimable
<1>6. ASSUME NEW c \in Callers, NEW r \in LeaseRequests, ClaimNext(c, r)
      PROVE  \E t \in Tasks : L!Take(t, c)
  BY <1>6, <1>4 DEF ClaimNext, Unclaimed
<1>7. ASSUME NEW c \in Callers, NEW t \in Tasks, NEW r \in LeaseRequests,
             RenewLease(c, t, r)
      PROVE  L!Take(t, c)
  <2>1. lease'[t] > now /\ lease' = [lease EXCEPT ![t] = lease'[t]]
    BY <1>7, ClampRange, LeaseAssumption DEF RenewLease
  <2>2. Owner' = [Owner EXCEPT ![t] = c] /\ Owner[t] = c
    BY <1>7 DEF RenewLease, Owner, HeldBy
  <2>3. UNCHANGED <<now, Retired>> /\ t \notin Retired
    BY <1>7 DEF RenewLease, Retired
  <2> QED
    BY <2>1, <2>2, <2>3 DEF L!Take, L!Available
<1>8. ASSUME NEW c \in Callers, NEW t \in Tasks, ReleaseTask(c, t) PROVE L!Leave(t)
  BY <1>8 DEF ReleaseTask, L!Leave, L!Free, Owner, Retired
<1>9. ASSUME NEW c \in Callers, NEW t \in Tasks, CompleteTask(c, t) PROVE L!Retire(t)
  BY <1>9 DEF CompleteTask, L!Retire, L!Free, Owner, Retired
<1>10. ASSUME Tick PROVE L!Advance
  BY <1>10 DEF Tick, L!Advance, Owner, Retired
<1>11. ASSUME UNCHANGED vars PROVE UNCHANGED <<now, taskRow>>
  BY <1>11 DEF vars
<1> QED
  BY <1>1, <1>2, <1>3, <1>5, <1>6, <1>7, <1>8, <1>9, <1>10, <1>11
  DEF Next, L!Next

(* The task board is a lease service: overlapping, broken-off and racing    *)
(* calls included, a claim changes hands only as Lease allows.              *)
THEOREM BoardImplementsLease == Spec => ImplementsLease
<1>1. Init => L!Init
  BY LeaseInit
<1>2. TypeOK /\ [Next]_vars => [L!Next]_(L!leaseVars)
  BY LeaseStep
<1> QED
  BY <1>1, <1>2, TypeCorrect, PTL DEF Spec, ImplementsLease, L!Spec
=============================================================================
