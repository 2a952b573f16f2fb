--------------------------- MODULE Webhooks_proofs ---------------------------
(***************************************************************************)
(* What the outbox promises for any number of replicas, hooks and events.  *)
(* Everything but the types rests on one assumption about time: a replica  *)
(* takes less over a batch than its rows are held back.                    *)
(***************************************************************************)
EXTENDS Webhooks, TLAPS

(* A flight is of a row that is pending, held back for at least as long as  *)
(* its replica may still take, and has not been claimed since; or of one    *)
(* that was deleted with its hook.                                          *)
Held ==
  \A r \in Replicas, d \in Deliveries : InFlight(r, d) =>
    /\ age[r] <= MaxFlight
    /\ status[d] \in {"pending", "gone"}
    /\ status[d] = "pending" => /\ left[d] + age[r] >= Hold
                                /\ carried[r][d] = attempts[d]

(* A pending row nobody is sending has an attempt to spare, counting the    *)
(* lost ones.                                                               *)
Spare ==
  \A d \in Deliveries :
    status[d] = "pending" /\ (\A r \in Replicas : ~InFlight(r, d)) =>
      attempts[d] < MaxAttempts + faults

(* The inductive invariant of the outbox. *)
IInv == TypeOK /\ Held /\ OneSender /\ Spare /\ TriesAreBounded

-----------------------------------------------------------------------------
(* The components of a delivery. *)
LEMMA Pairs == \A d \in Deliveries : d[1] \in Events /\ d[2] \in Hooks
BY DEF Deliveries

(* The backoff is a number of seconds. *)
LEMMA BackoffIsNat == \A n \in Nat : Backoff[Step(n)] \in Nat
BY OutboxAssumption DEF Step

LEMMA TypeInit == Init => TypeOK
BY DEF Init, TypeOK, VariableTypes, OutboxShape, Rows, Stages, InFlight

(* Marking a row keeps the types and the shape, whether it exists or not. *)
LEMMA MarkType ==
  ASSUME TypeOK, NEW r \in Replicas, NEW d \in Deliveries, NEW s \in Rows, NEW n \in Nat,
         Mark(d, s, n), Land(r, d), UNCHANGED <<hook, raised, faults>>
  PROVE  TypeOK'
<1>1. VariableTypes'
  BY DEF TypeOK, VariableTypes, Mark, Land, Rows, Stages
<1>2. OutboxShape'
  BY Pairs DEF TypeOK, VariableTypes, OutboxShape, Mark, Land, Rows, InFlight
<1> QED
  BY <1>1, <1>2 DEF TypeOK

LEMMA TypeStep == TypeOK /\ [Next]_vars => TypeOK'
<1> SUFFICES ASSUME TypeOK, [Next]_vars PROVE TypeOK'
  OBVIOUS
<1> USE DEF TypeOK
<1>1. ASSUME NEW h \in Hooks, AddHook(h) PROVE TypeOK'
  <2>1. VariableTypes'
    BY <1>1 DEF AddHook, VariableTypes, rows, batches
  <2>2. OutboxShape'
    BY <1>1, Pairs DEF AddHook, VariableTypes, OutboxShape, rows, batches, InFlight
  <2> QED
    BY <2>1, <2>2
<1>2. ASSUME NEW h \in Hooks, RemoveHook(h) PROVE TypeOK'
  <2>1. VariableTypes'
    BY <1>2 DEF RemoveHook, VariableTypes, batches
  <2>2. OutboxShape'
    BY <1>2, Pairs DEF RemoveHook, VariableTypes, OutboxShape, batches, InFlight, Rows
  <2> QED
    BY <2>1, <2>2
<1>3. ASSUME NEW e \in Events, Enqueue(e) PROVE TypeOK'
  <2>1. VariableTypes'
    BY <1>3 DEF Enqueue, VariableTypes, batches, Rows
  <2>2. OutboxShape'
    BY <1>3, Pairs DEF Enqueue, VariableTypes, OutboxShape, batches, InFlight, Rows
  <2> QED
    BY <2>1, <2>2
<1>4. ASSUME NEW r \in Replicas, Claim(r) PROVE TypeOK'
  <2>1. PICK S \in SUBSET {d \in Deliveries : Due(d)} :
          /\ attempts' = [d \in Deliveries |-> attempts[d] + IF d \in S THEN 1 ELSE 0]
          /\ left' = [d \in Deliveries |-> IF d \in S THEN Hold ELSE left[d]]
          /\ flight' = [flight EXCEPT ![r] =
                          [d \in Deliveries |-> IF d \in S THEN "queued" ELSE "none"]]
          /\ carried' = [carried EXCEPT ![r] =
                          [d \in Deliveries |-> IF d \in S THEN attempts[d] + 1 ELSE 0]]
          /\ age' = [age EXCEPT ![r] = 0]
    BY <1>4 DEF Claim
  <2>2. VariableTypes'
    BY <1>4, <2>1, OutboxAssumption DEF Claim, VariableTypes, Stages
  <2>3. OutboxShape'
    BY <1>4, <2>1, Pairs DEF Claim, VariableTypes, OutboxShape, InFlight, Rows, Due
  <2> QED
    BY <2>2, <2>3
<1>5. ASSUME NEW r \in Replicas, NEW d \in Deliveries, Post(r, d) PROVE TypeOK'
  <2>1. VariableTypes'
    BY <1>5 DEF Post, VariableTypes, rows, Stages
  <2>2. OutboxShape'
    BY <1>5, Pairs DEF Post, VariableTypes, OutboxShape, rows, InFlight
  <2> QED
    BY <2>1, <2>2
<1>6. ASSUME NEW r \in Replicas, NEW d \in Deliveries, NEW a \in Answers, Answer(r, d, a)
      PROVE  TypeOK'
  <2>1. VariableTypes'
    BY <1>6 DEF Answer, VariableTypes, rows, Stages
  <2>2. OutboxShape'
    BY <1>6, Pairs DEF Answer, VariableTypes, OutboxShape, rows, InFlight
  <2> QED
    BY <2>1, <2>2
<1>7. ASSUME NEW r \in Replicas, NEW d \in Deliveries, MarkSent(r, d) PROVE TypeOK'
  BY <1>7, MarkType, OutboxAssumption DEF MarkSent, Rows
<1>8. ASSUME NEW r \in Replicas, NEW d \in Deliveries, MarkFailed(r, d) PROVE TypeOK'
  <2> DEFINE tries == IF flight[r][d] = "permanent" THEN MaxAttempts ELSE carried[r][d]
  <2>1. tries \in Nat
    BY OutboxAssumption DEF VariableTypes
  <2>2. CASE Terminal(tries)
    BY <1>8, <2>2, MarkType, OutboxAssumption DEF MarkFailed, Rows
  <2>3. CASE ~Terminal(tries)
    BY <1>8, <2>1, <2>3, MarkType, BackoffIsNat DEF MarkFailed, Rows
  <2> QED
    BY <2>2, <2>3
<1>9. ASSUME NEW r \in Replicas, NEW d \in Deliveries, MarkLost(r, d) PROVE TypeOK'
  <2>1. VariableTypes'
    BY <1>9 DEF MarkLost, Land, VariableTypes, rows, Stages
  <2>2. OutboxShape'
    BY <1>9, Pairs DEF MarkLost, Land, VariableTypes, OutboxShape, rows, InFlight
  <2> QED
    BY <2>1, <2>2
<1>10. ASSUME NEW r \in Replicas, Crash(r) PROVE TypeOK'
  <2>1. VariableTypes'
    BY <1>10 DEF Crash, VariableTypes, rows, Stages
  <2>2. OutboxShape'
    BY <1>10, Pairs DEF Crash, VariableTypes, OutboxShape, rows, InFlight
  <2> QED
    BY <2>1, <2>2
<1>11. ASSUME NEW r \in Replicas, Prune(r) PROVE TypeOK'
  <2>1. VariableTypes'
    BY <1>11 DEF Prune, VariableTypes, batches
  <2>2. OutboxShape'
    BY <1>11, Pairs DEF Prune, VariableTypes, OutboxShape, batches, InFlight, Rows, Settled
  <2> QED
    BY <2>1, <2>2
<1>12. ASSUME Tick PROVE TypeOK'
  <2>1. VariableTypes'
    BY <1>12 DEF Tick, VariableTypes
  <2>2. OutboxShape'
    BY <1>12, Pairs DEF Tick, VariableTypes, OutboxShape, InFlight
  <2> QED
    BY <2>1, <2>2
<1>13. CASE UNCHANGED vars
  BY <1>13 DEF vars, rows, batches, VariableTypes, OutboxShape, InFlight
<1> QED
  BY <1>1, <1>2, <1>3, <1>4, <1>5, <1>6, <1>7, <1>8, <1>9, <1>10, <1>11, <1>12, <1>13
  DEF Next, Send

(* Rows and flights have their types and shape in every behaviour: nothing  *)
(* is ever enqueued for a direct message, and a hook's rows end with it     *)
(* (the triggers of migration 0005, whatever the dispatchers do).           *)
THEOREM TypeCorrect == Spec => []TypeOK
<1> QED
  BY TypeInit, TypeStep, PTL DEF Spec

-----------------------------------------------------------------------------
LEMMA SafeInit == Init => Held /\ OneSender /\ Spare /\ TriesAreBounded
BY OutboxAssumption DEF Init, Held, OneSender, Spare, TriesAreBounded, InFlight

(* A due row is in nobody's hands: what a claim rests on. *)
LEMMA DueIsFree ==
  ASSUME IInv, MaxFlight < Hold, NEW d \in Deliveries, Due(d)
  PROVE  \A r \in Replicas : ~InFlight(r, d)
BY OutboxAssumption DEF IInv, TypeOK, VariableTypes, Held, Due

(* Actions that start, end or lose no flight and claim nothing: hooks and   *)
(* events come and go, old rows are dropped, POSTs go out and come back.    *)
LEMMA QuietKeeps ==
  ASSUME IInv, UNCHANGED <<attempts, carried, age, faults>>,
         \A r \in Replicas, d \in Deliveries : InFlight(r, d)' <=> InFlight(r, d),
         \A d \in Deliveries :
            \/ status'[d] = status[d] /\ (status[d] = "pending" => left'[d] = left[d])
            \/ status'[d] = "gone"
            \/ status[d] = "absent" /\ status'[d] = "pending"
  PROVE  (Held /\ OneSender /\ Spare /\ TriesAreBounded)'
<1>1. Held'
  BY DEF IInv, Held
<1>2. OneSender'
  BY DEF IInv, OneSender
<1>3. Spare'
  <2> SUFFICES ASSUME NEW d \in Deliveries, status'[d] = "pending",
                      \A r \in Replicas : ~InFlight(r, d)'
               PROVE  attempts'[d] < MaxAttempts + faults'
    BY DEF Spare
  <2>1. CASE status[d] = "pending"
    BY <2>1 DEF IInv, Spare
  <2>2. CASE status[d] = "absent"
    BY <2>2, OutboxAssumption DEF IInv, TypeOK, VariableTypes, OutboxShape
  <2> QED
    BY <2>1, <2>2
<1>4. TriesAreBounded'
  BY DEF IInv, TriesAreBounded
<1> QED
  BY <1>1, <1>2, <1>3, <1>4

(* Hooks, events, POSTs and prune do that. *)
LEMMA QuietStep ==
  ASSUME IInv,
         \/ \E h \in Hooks : AddHook(h) \/ RemoveHook(h)
         \/ \E e \in Events : Enqueue(e)
         \/ \E r \in Replicas : Prune(r)
         \/ \E r \in Replicas, d \in Deliveries :
              Post(r, d) \/ \E a \in Answers : Answer(r, d, a)
         \/ UNCHANGED vars
  PROVE  (Held /\ OneSender /\ Spare /\ TriesAreBounded)'
<1> USE DEF IInv, TypeOK, VariableTypes
<1>1. ASSUME NEW h \in Hooks, AddHook(h)
      PROVE  (Held /\ OneSender /\ Spare /\ TriesAreBounded)'
  BY <1>1, QuietKeeps DEF AddHook, rows, batches, InFlight
<1>2. ASSUME NEW h \in Hooks, RemoveHook(h)
      PROVE  (Held /\ OneSender /\ Spare /\ TriesAreBounded)'
  <2>1. \A d \in Deliveries :
          \/ status'[d] = status[d] /\ (status[d] = "pending" => left'[d] = left[d])
          \/ status'[d] = "gone"
    BY <1>2 DEF RemoveHook, Rows
  <2> QED
    BY <1>2, <2>1, QuietKeeps DEF RemoveHook, batches, InFlight
<1>3. ASSUME NEW e \in Events, Enqueue(e)
      PROVE  (Held /\ OneSender /\ Spare /\ TriesAreBounded)'
  BY <1>3, QuietKeeps, Pairs DEF Enqueue, batches, InFlight, OutboxShape, Rows
<1>4. ASSUME NEW r \in Replicas, Prune(r)
      PROVE  (Held /\ OneSender /\ Spare /\ TriesAreBounded)'
  BY <1>4, QuietKeeps DEF Prune, batches, InFlight
<1>5. ASSUME NEW r \in Replicas, NEW d \in Deliveries,
             Post(r, d) \/ \E a \in Answers : Answer(r, d, a)
      PROVE  (Held /\ OneSender /\ Spare /\ TriesAreBounded)'
  <2>1. PICK a \in Answers \union {"posting"} : /\ flight' = [flight EXCEPT ![r][d] = a]
                                             /\ InFlight(r, d)
    BY <1>5 DEF Post, Answer, InFlight
  <2>2. \A q \in Replicas, f \in Deliveries : InFlight(q, f)' <=> InFlight(q, f)
    BY <2>1 DEF InFlight, Answers
  <2> QED
    BY <1>5, <2>2, QuietKeeps DEF Post, Answer, rows
<1>6. CASE UNCHANGED vars
  BY <1>6, QuietKeeps DEF vars, rows, batches, InFlight
<1> QED
  BY <1>1, <1>2, <1>3, <1>4, <1>5, <1>6

(* The flight of d, which r alone has, ends: the row is marked, or its      *)
(* deletion or a fault leaves it as it is.                                  *)
LEMMA LandKeeps ==
  ASSUME IInv, NEW r \in Replicas, NEW d \in Deliveries, InFlight(r, d), Land(r, d),
         faults' \in Nat, faults <= faults', UNCHANGED attempts,
         \A f \in Deliveries \ {d} : status'[f] = status[f] /\ left'[f] = left[f],
         status'[d] = "pending" =>
           status[d] = "pending" /\ attempts[d] < MaxAttempts + faults'
  PROVE  (Held /\ OneSender /\ Spare /\ TriesAreBounded)'
<1> USE DEF IInv, TypeOK, VariableTypes
<1>1. ~InFlight(r, d)'
  BY DEF Land, InFlight
<1>2. \A q \in Replicas, f \in Deliveries : q # r \/ f # d =>
        (InFlight(q, f)' <=> InFlight(q, f)) /\ carried'[q][f] = carried[q][f]
  BY DEF Land, InFlight
<1>3. \A q \in Replicas : ~InFlight(q, d)'
  BY <1>1, <1>2 DEF OneSender
<1>4. Held'
  <2> SUFFICES ASSUME NEW q \in Replicas, NEW f \in Deliveries, InFlight(q, f)'
               PROVE  /\ age'[q] <= MaxFlight
                      /\ status'[f] \in {"pending", "gone"}
                      /\ status'[f] = "pending" => /\ left'[f] + age'[q] >= Hold
                                                   /\ carried'[q][f] = attempts'[f]
    BY DEF Held
  <2>1. f # d
    BY <1>3
  <2> QED
    BY <1>2, <2>1 DEF Held, Land
<1>5. OneSender'
  BY <1>2, <1>3 DEF OneSender
<1>6. Spare'
  <2> SUFFICES ASSUME NEW f \in Deliveries, status'[f] = "pending",
                      \A q \in Replicas : ~InFlight(q, f)'
               PROVE  attempts'[f] < MaxAttempts + faults'
    BY DEF Spare
  <2>1. CASE f = d
    BY <2>1
  <2>2. CASE f # d
    <3>1. attempts[f] < MaxAttempts + faults
      BY <1>2, <2>2 DEF Spare
    <3> QED
      BY <3>1, OutboxAssumption
  <2> QED
    BY <2>1, <2>2
<1>7. TriesAreBounded'
  BY OutboxAssumption DEF TriesAreBounded
<1> QED
  BY <1>4, <1>5, <1>6, <1>7

(* An answer is recorded, or that is lost. *)
LEMMA MarkStep ==
  ASSUME IInv, NEW r \in Replicas, NEW d \in Deliveries,
         MarkSent(r, d) \/ MarkFailed(r, d) \/ MarkLost(r, d)
  PROVE  (Held /\ OneSender /\ Spare /\ TriesAreBounded)'
<1> USE DEF IInv, TypeOK, VariableTypes
<1>1. InFlight(r, d) /\ Land(r, d)
  BY DEF MarkSent, MarkFailed, MarkLost, InFlight, Answers
<1>2. status[d] \in {"pending", "gone"}
      /\ (status[d] = "pending" => carried[r][d] = attempts[d])
  BY <1>1 DEF Held
<1>3. CASE MarkSent(r, d)
  BY <1>1, <1>2, <1>3, LandKeeps DEF MarkSent, Mark, Rows
<1>4. CASE MarkFailed(r, d)
  <2> DEFINE tries == IF flight[r][d] = "permanent" THEN MaxAttempts ELSE carried[r][d]
  <2>1. CASE Terminal(tries)
    BY <1>1, <1>2, <1>4, <2>1, LandKeeps DEF MarkFailed, Mark, Rows
  <2>2. CASE ~Terminal(tries)
    <3>1. tries = carried[r][d] /\ carried[r][d] < MaxAttempts
      BY <2>2, OutboxAssumption DEF Terminal
    <3>2. Mark(d, "pending", Backoff[Step(tries)]) /\ faults' = faults
      BY <1>4, <2>2 DEF MarkFailed
    <3>3. status'[d] = "pending" => status[d] = "pending"
      BY <1>2, <3>2 DEF Mark, Rows
    <3>4. status[d] = "pending" => attempts[d] < MaxAttempts + faults'
      BY <1>2, <3>1, <3>2, OutboxAssumption
    <3> QED
      BY <1>1, <3>2, <3>3, <3>4, LandKeeps DEF Mark
  <2> QED
    BY <2>1, <2>2
<1>5. CASE MarkLost(r, d)
  <2>1. attempts[d] < MaxAttempts + faults'
    BY <1>5, OutboxAssumption DEF MarkLost, TriesAreBounded
  <2> QED
    BY <1>1, <1>5, <2>1, LandKeeps DEF MarkLost, rows
<1> QED
  BY <1>3, <1>4, <1>5

(* A batch is claimed: its rows were in nobody's hands. *)
LEMMA ClaimStep ==
  ASSUME IInv, MaxFlight < Hold, NEW r \in Replicas, Claim(r)
  PROVE  (Held /\ OneSender /\ Spare /\ TriesAreBounded)'
<1> USE DEF IInv, TypeOK, VariableTypes
<1>1. PICK S \in SUBSET {d \in Deliveries : Due(d)} :
        /\ attempts' = [d \in Deliveries |-> attempts[d] + IF d \in S THEN 1 ELSE 0]
        /\ left' = [d \in Deliveries |-> IF d \in S THEN Hold ELSE left[d]]
        /\ flight' = [flight EXCEPT ![r] =
                        [d \in Deliveries |-> IF d \in S THEN "queued" ELSE "none"]]
        /\ carried' = [carried EXCEPT ![r] =
                        [d \in Deliveries |-> IF d \in S THEN attempts[d] + 1 ELSE 0]]
        /\ age' = [age EXCEPT ![r] = 0]
  BY DEF Claim
<1>2. status' = status /\ faults' = faults
  BY DEF Claim
<1>3. \A d \in S : status[d] = "pending" /\ \A q \in Replicas : ~InFlight(q, d)
  BY DueIsFree DEF Due
<1>4. \A d \in Deliveries : InFlight(r, d)' <=> d \in S
  BY <1>1 DEF InFlight
<1>5. \A q \in Replicas \ {r}, d \in Deliveries : InFlight(q, d)' <=> InFlight(q, d)
  BY <1>1 DEF InFlight
<1>6. Held'
  <2> SUFFICES ASSUME NEW q \in Replicas, NEW d \in Deliveries, InFlight(q, d)'
               PROVE  /\ age'[q] <= MaxFlight
                      /\ status'[d] \in {"pending", "gone"}
                      /\ status'[d] = "pending" => /\ left'[d] + age'[q] >= Hold
                                                   /\ carried'[q][d] = attempts'[d]
    BY DEF Held
  <2>1. CASE q = r
    BY <1>1, <1>2, <1>3, <1>4, <2>1, OutboxAssumption
  <2>2. CASE q # r
    <3>1. InFlight(q, d) /\ d \notin S
      BY <1>3, <1>5, <2>2
    <3> QED
      BY <1>1, <1>2, <2>2, <3>1 DEF Held
  <2> QED
    BY <2>1, <2>2
<1>7. OneSender'
  BY <1>3, <1>4, <1>5 DEF OneSender
<1>8. Spare'
  <2> SUFFICES ASSUME NEW d \in Deliveries, status'[d] = "pending",
                      \A q \in Replicas : ~InFlight(q, d)'
               PROVE  attempts'[d] < MaxAttempts + faults'
    BY DEF Spare
  <2>1. d \notin S
    BY <1>4
  <2>2. \A q \in Replicas : ~InFlight(q, d)
    BY <1>5 DEF Claim, IdleReplica
  <2> QED
    BY <1>1, <1>2, <2>1, <2>2 DEF Spare
<1>9. TriesAreBounded'
  <2> SUFFICES ASSUME NEW d \in Deliveries PROVE attempts'[d] <= MaxAttempts + faults'
    BY DEF TriesAreBounded
  <2>1. CASE d \in S
    <3>1. attempts[d] < MaxAttempts + faults
      BY <1>3, <2>1 DEF Spare
    <3>2. attempts'[d] = attempts[d] + 1
      BY <1>1, <2>1
    <3> QED
      BY <1>2, <3>1, <3>2, OutboxAssumption
  <2>2. CASE d \notin S
    BY <1>1, <1>2, <2>2 DEF TriesAreBounded
  <2> QED
    BY <2>1, <2>2
<1> QED
  BY <1>6, <1>7, <1>8, <1>9

(* A replica dies: its flights are lost, at the price of a fault. *)
LEMMA CrashStep ==
  ASSUME IInv, NEW r \in Replicas, Crash(r)
  PROVE  (Held /\ OneSender /\ Spare /\ TriesAreBounded)'
<1> USE DEF IInv, TypeOK, VariableTypes
<1>1. \A q \in Replicas, d \in Deliveries :
        /\ InFlight(q, d)' => InFlight(q, d) /\ carried'[q][d] = carried[q][d]
        /\ q # r => (InFlight(q, d)' <=> InFlight(q, d))
  BY DEF Crash, InFlight
<1>2. /\ UNCHANGED <<status, attempts, left, age>>
      /\ faults' = faults + 1
  BY DEF Crash, rows
<1>3. Held'
  BY <1>1, <1>2 DEF Held
<1>4. OneSender'
  BY <1>1 DEF OneSender
<1>5. \A d \in Deliveries : attempts'[d] < MaxAttempts + faults'
  BY <1>2, OutboxAssumption DEF TriesAreBounded
<1>6. Spare'
  BY <1>5 DEF Spare
<1>7. TriesAreBounded'
  BY <1>2, <1>5, OutboxAssumption DEF TriesAreBounded
<1> QED
  BY <1>3, <1>4, <1>6, <1>7

(* Time takes as much from a batch as from the hold on its rows. *)
LEMMA TickStep ==
  ASSUME IInv, Tick
  PROVE  (Held /\ OneSender /\ Spare /\ TriesAreBounded)'
<1> USE DEF IInv, TypeOK, VariableTypes
<1>1. UNCHANGED <<status, attempts, flight, carried, faults>>
  BY DEF Tick
<1>2. \A q \in Replicas, d \in Deliveries : InFlight(q, d)' <=> InFlight(q, d)
  BY <1>1 DEF InFlight
<1>3. Held'
  <2> SUFFICES ASSUME NEW q \in Replicas, NEW d \in Deliveries, InFlight(q, d)
               PROVE  /\ age'[q] <= MaxFlight
                      /\ status[d] \in {"pending", "gone"}
                      /\ status[d] = "pending" => /\ left'[d] + age'[q] >= Hold
                                                  /\ carried[q][d] = attempts[d]
    BY <1>1, <1>2 DEF Held
  <2>1. age[q] < MaxFlight /\ age'[q] = age[q] + 1
    BY DEF Tick, IdleReplica
  <2>2. left'[d] + 1 >= left[d] /\ left'[d] \in Nat
    BY DEF Tick
  <2> QED
    BY <2>1, <2>2, OutboxAssumption DEF Held
<1>4. OneSender'
  BY <1>2 DEF OneSender
<1>5. Spare'
  BY <1>1, <1>2 DEF Spare
<1>6. TriesAreBounded'
  BY <1>1 DEF TriesAreBounded
<1> QED
  BY <1>3, <1>4, <1>5, <1>6

LEMMA InvStep == MaxFlight < Hold /\ IInv /\ [Next]_vars => IInv'
<1> SUFFICES ASSUME MaxFlight < Hold, IInv, [Next]_vars PROVE IInv'
  OBVIOUS
<1>1. TypeOK'
  BY TypeStep DEF IInv
<1>2. (Held /\ OneSender /\ Spare /\ TriesAreBounded)'
  <2>1. CASE \/ \E h \in Hooks : AddHook(h) \/ RemoveHook(h)
             \/ \E e \in Events : Enqueue(e)
             \/ \E r \in Replicas : Prune(r)
             \/ \E r \in Replicas, d \in Deliveries :
                  Post(r, d) \/ \E a \in Answers : Answer(r, d, a)
             \/ UNCHANGED vars
    BY <2>1, QuietStep
  <2>2. CASE \E r \in Replicas, d \in Deliveries :
               MarkSent(r, d) \/ MarkFailed(r, d) \/ MarkLost(r, d)
    BY <2>2, MarkStep
  <2>3. CASE \E r \in Replicas : Claim(r)
    BY <2>3, ClaimStep
  <2>4. CASE \E r \in Replicas : Crash(r)
    BY <2>4, CrashStep
  <2>5. CASE Tick
    BY <2>5, TickStep
  <2> QED
    BY <2>1, <2>2, <2>3, <2>4, <2>5 DEF Next, Send
<1> QED
  BY <1>1, <1>2 DEF IInv

LEMMA InvInit == Init => IInv
BY TypeInit, SafeInit DEF IInv

-----------------------------------------------------------------------------
(* No delivery is ever in the hands of two replicas, however they die and   *)
(* answers are lost, when no batch outlasts the hold on its rows.           *)
THEOREM SendersExclude == ASSUME MaxFlight < Hold PROVE Spec => []OneSender
<1>1. Init => IInv
  BY InvInit
<1>2. IInv /\ [Next]_vars => IInv'
  BY InvStep
<1>3. IInv => OneSender
  BY DEF IInv
<1> QED
  BY <1>1, <1>2, <1>3, PTL DEF Spec

(* Under the same assumption a delivery is tried MAX_ATTEMPTS times and     *)
(* once more for each try whose outcome was lost.                           *)
THEOREM RetriesAreBounded == ASSUME MaxFlight < Hold PROVE Spec => []TriesAreBounded
<1>1. Init => IInv
  BY InvInit
<1>2. IInv /\ [Next]_vars => IInv'
  BY InvStep
<1>3. IInv => TriesAreBounded
  BY DEF IInv
<1> QED
  BY <1>1, <1>2, <1>3, PTL DEF Spec

(* Nobody has a settled row in hand, and it is not due. *)
LEMMA SettledStep ==
  ASSUME IInv, [Next]_vars, NEW d \in Deliveries, status[d] \in Settled
  PROVE  status'[d] \in {status[d], "gone"} /\ attempts'[d] = attempts[d]
<1> USE DEF IInv, TypeOK, VariableTypes
<1>1. \A r \in Replicas : ~InFlight(r, d)
  BY DEF Held, Settled
<1>2. CASE \E r \in Replicas, f \in Deliveries : MarkSent(r, f) \/ MarkFailed(r, f)
  <2>1. PICK r \in Replicas, f \in Deliveries : MarkSent(r, f) \/ MarkFailed(r, f)
    BY <1>2
  <2>2. f # d
    BY <1>1, <2>1 DEF MarkSent, MarkFailed, InFlight
  <2> QED
    BY <2>1, <2>2 DEF MarkSent, MarkFailed, Mark
<1>3. CASE \E r \in Replicas : Claim(r)
  <2>1. PICK S \in SUBSET {f \in Deliveries : Due(f)} :
          attempts' = [f \in Deliveries |-> attempts[f] + IF f \in S THEN 1 ELSE 0]
    BY <1>3 DEF Claim
  <2>2. d \notin S
    BY DEF Due, Settled
  <2>3. status' = status
    BY <1>3 DEF Claim
  <2> QED
    BY <2>1, <2>2, <2>3
<1>4. CASE \E e \in Events : Enqueue(e)
  <2>1. PICK e \in Events : Enqueue(e)
    BY <1>4
  <2>2. d[1] # e
    BY <2>1, Pairs DEF Enqueue, OutboxShape, Settled
  <2> QED
    BY <2>1, <2>2 DEF Enqueue
<1>5. CASE \E h \in Hooks : AddHook(h) \/ RemoveHook(h)
  BY <1>5 DEF AddHook, RemoveHook, rows
<1>6. CASE \E r \in Replicas : Crash(r) \/ Prune(r)
  BY <1>6 DEF Crash, Prune, rows
<1>7. CASE \E r \in Replicas, f \in Deliveries :
             MarkLost(r, f) \/ Post(r, f) \/ \E a \in Answers : Answer(r, f, a)
  BY <1>7 DEF MarkLost, Post, Answer, rows
<1>8. CASE Tick \/ UNCHANGED vars
  BY <1>8 DEF Tick, vars, rows
<1> QED
  BY <1>2, <1>3, <1>4, <1>5, <1>6, <1>7, <1>8 DEF Next, Send

(* A verdict is final under the same assumption: no answer comes after it,  *)
(* although mark_sent and mark_failed do not look at the status.            *)
THEOREM VerdictsAreFinal == ASSUME MaxFlight < Hold PROVE Spec => SettledStays
<1> DEFINE Final == \A d \in Deliveries : status[d] \in Settled =>
                      status'[d] \in {status[d], "gone"} /\ attempts'[d] = attempts[d]
<1>1. Init => IInv
  BY InvInit
<1>2. IInv /\ [Next]_vars => IInv'
  BY InvStep
<1>3. IInv /\ [Next]_vars => [Final]_vars
  BY SettledStep
<1> QED
  BY <1>1, <1>2, <1>3, PTL DEF Spec, SettledStays
-----------------------------------------------------------------------------
(* The answer r has in hand settles d: it is accepted, or parked because    *)
(* the receiver refused it for good or its attempts are used up.            *)
Settles(r, d, s) ==
  \/ s = "sent" /\ flight[r][d] = "ok"
  \/ s = "failed" /\ flight[r][d] = "permanent"
  \/ s = "failed" /\ flight[r][d] = "retry" /\ attempts[d] >= MaxAttempts

(* What a pending row can become. *)
LeavesAnswered ==
  \A d \in Deliveries : status[d] = "pending" /\ status'[d] # "pending" =>
    \/ status'[d] = "gone" /\ hook'[d[2]] = "removed"
    \/ \E r \in Replicas : Settles(r, d, status'[d])

LEMMA LeavesStep == TypeOK /\ [Next]_vars => LeavesAnswered
<1> SUFFICES ASSUME TypeOK, [Next]_vars, NEW d \in Deliveries,
                    status[d] = "pending", status'[d] # "pending"
             PROVE  \/ status'[d] = "gone" /\ hook'[d[2]] = "removed"
                    \/ \E r \in Replicas : Settles(r, d, status'[d])
  BY DEF LeavesAnswered
<1> USE DEF TypeOK, VariableTypes
<1>1. ASSUME NEW r \in Replicas, NEW f \in Deliveries, MarkSent(r, f)
      PROVE  Settles(r, d, status'[d])
  <2>1. f = d
    BY <1>1 DEF MarkSent, Mark
  <2> QED
    BY <1>1, <2>1 DEF MarkSent, Mark, Settles, Rows
<1>2. ASSUME NEW r \in Replicas, NEW f \in Deliveries, MarkFailed(r, f)
      PROVE  Settles(r, d, status'[d])
  <2>1. f = d
    BY <1>2 DEF MarkFailed, Mark
  <2>2. flight[r][d] \in {"retry", "permanent"} /\ carried[r][d] \in 1..attempts[d]
    BY <1>2, <2>1 DEF MarkFailed, OutboxShape, InFlight
  <2>3. status'[d] = "failed"
        /\ (flight[r][d] = "permanent" \/ Terminal(carried[r][d]))
    BY <1>2, <2>1 DEF MarkFailed, Mark, Rows
  <2>4. attempts[d] \in Nat /\ MaxAttempts \in Nat
    BY OutboxAssumption
  <2> QED
    BY <2>2, <2>3, <2>4 DEF Settles, Terminal
<1>3. ASSUME NEW h \in Hooks, RemoveHook(h)
      PROVE  status'[d] = "gone" /\ hook'[d[2]] = "removed"
  BY <1>3 DEF RemoveHook
<1>4. CASE \E h \in Hooks : AddHook(h)
  BY <1>4 DEF AddHook, rows
<1>5. CASE \E x \in Events : Enqueue(x)
  BY <1>5 DEF Enqueue
<1>6. CASE \E r \in Replicas : Claim(r) \/ Crash(r) \/ Prune(r)
  BY <1>6 DEF Claim, Crash, Prune, rows, Settled
<1>7. CASE \E r \in Replicas, f \in Deliveries :
             MarkLost(r, f) \/ Post(r, f) \/ \E a \in Answers : Answer(r, f, a)
  BY <1>7 DEF MarkLost, Post, Answer, rows
<1>8. CASE Tick \/ UNCHANGED vars
  BY <1>8 DEF Tick, vars, rows
<1> QED
  BY <1>1, <1>2, <1>3, <1>4, <1>5, <1>6, <1>7, <1>8 DEF Next, Send

(* A delivery leaves the outbox only by an answer to it, or with its hook:  *)
(* it is sent when a receiver accepted it, and parked when one refused it   *)
(* for good or MAX_ATTEMPTS tries were made, whatever replicas die and      *)
(* however their batches overlap.                                           *)
THEOREM NothingIsLost == Spec => [][LeavesAnswered]_vars
BY TypeCorrect, LeavesStep, PTL DEF Spec
=============================================================================
