------------------------------ MODULE Webhooks ------------------------------
(***************************************************************************)
(* The webhook outbox of one team: the triggers of migration 0005 that     *)
(* enqueue deliveries and the dispatchers of src/webhooks.rs, one in every *)
(* replica, that claim, send and mark them.                                *)
(*                                                                         *)
(* A replica claims a batch with one statement, which also holds its rows  *)
(* back from everybody for a while, posts its deliveries a few at a time,  *)
(* and records each answer by a later statement that matches the row by id *)
(* alone.  Times are counted down: left[d] is how long until a pending row *)
(* is due, and how long a settled one is kept.                             *)
(***************************************************************************)
EXTENDS Integers, FiniteSets

CONSTANTS Replicas,
          Events,         \* changes of the team: messages, tasks, locks, notes
          Direct,         \* the events that are direct messages
          Hooks,
          Subscriptions,  \* <<e, h>>: kind, channel and team of h match e
          MaxAttempts,    \* MAX_ATTEMPTS
          Batch,          \* BATCH
          Concurrency,    \* CONCURRENCY
          Hold,           \* the 60 seconds a claimed row is held back
          BackoffSteps,   \* 8: the exponent of the backoff stops growing there
          Backoff,        \* Backoff[k]: 2^k seconds
          KeepSent,       \* KEEP_SENT
          KeepFailed,     \* KEEP_FAILED
          MaxFlight,      \* bound on how long a replica takes over a batch
          MaxFaults       \* bound on replicas dying and answers lost

ASSUME OutboxAssumption ==
  /\ Direct \subseteq Events
  /\ Subscriptions \subseteq Events \X Hooks
  /\ MaxAttempts \in Nat \ {0}
  /\ Hold \in Nat \ {0}
  /\ BackoffSteps \in Nat \ {0}
  /\ Backoff \in [1..BackoffSteps -> Nat \ {0}]
  /\ KeepSent \in Nat
  /\ KeepFailed \in Nat
  /\ MaxFlight \in Nat

VARIABLES hook,      \* webhooks: whether the row is there
          raised,    \* the events that have happened
          status,    \* webhook_deliveries.status; "absent", or "gone" once deleted
          attempts,  \* webhook_deliveries.attempts
          left,      \* until next_attempt_at, or until prune may drop the row
          flight,    \* flight[r][d]: how far r has come with d
          carried,   \* carried[r][d]: the attempts r's claim returned for d
          age,       \* age[r]: how long ago r claimed its batch
          faults     \* how many replicas died or failed to record an answer

rows == <<status, attempts, left>>
batches == <<flight, carried, age>>
vars == <<hook, raised, rows, batches, faults>>

-----------------------------------------------------------------------------
Deliveries == Events \X Hooks
Rows == {"pending", "sent", "failed"}
Settled == {"sent", "failed"}
Answers == {"ok", "retry", "permanent"}
Stages == {"none", "queued", "posting"} \union Answers

InFlight(r, d) == flight[r][d] # "none"
IdleReplica(r) == \A d \in Deliveries : ~InFlight(r, d)

(* The tasks of send_batch's JoinSet: they post a delivery and mark it. *)
Running(r) == {d \in Deliveries : flight[r][d] \in {"posting"} \union Answers}

(* Variant: the status is left out of the WHERE clause. *)
DueWhatever(d) == status[d] \in Rows /\ left[d] = 0

(* Variant: a row that has used its attempts is never claimed. *)
DueAndUntried(d) == status[d] = "pending" /\ left[d] = 0 /\ attempts[d] < MaxAttempts

(* status = 'pending' AND next_attempt_at <= now() *)
Due(d) == status[d] = "pending" /\ left[d] = 0

(* attempts.clamp(1, 8) *)
Step(n) == IF n < 1 THEN 1 ELSE IF n > BackoffSteps THEN BackoffSteps ELSE n

(* Variant: a delivery gets one attempt more than it should. *)
TerminalLate(n) == n > MaxAttempts

Terminal(n) == n >= MaxAttempts

(* A flight is over, whatever became of it. *)
Land(r, d) ==
  /\ flight' = [flight EXCEPT ![r][d] = "none"]
  /\ carried' = [carried EXCEPT ![r][d] = 0]
  /\ UNCHANGED age

(* Variant: an upsert, which brings a deleted row back. *)
MarkAnyway(d, s, wait) ==
  /\ status' = [status EXCEPT ![d] = s]
  /\ left' = [left EXCEPT ![d] = wait]
  /\ UNCHANGED attempts

(* UPDATE webhook_deliveries ... WHERE id = d: nothing, if it was deleted. *)
Mark(d, s, wait) ==
  /\ status' = [status EXCEPT ![d] = IF @ \in Rows THEN s ELSE @]
  /\ left' = [left EXCEPT ![d] = IF status[d] \in Rows THEN wait ELSE @]
  /\ UNCHANGED attempts

-----------------------------------------------------------------------------
Init ==
  /\ hook = [h \in Hooks |-> "absent"]
  /\ raised = {}
  /\ status = [d \in Deliveries |-> "absent"]
  /\ attempts = [d \in Deliveries |-> 0]
  /\ left = [d \in Deliveries |-> 0]
  /\ flight = [r \in Replicas |-> [d \in Deliveries |-> "none"]]
  /\ carried = [r \in Replicas |-> [d \in Deliveries |-> 0]]
  /\ age = [r \in Replicas |-> 0]
  /\ faults = 0

(* `webhook add` *)
AddHook(h) ==
  /\ hook[h] = "absent"
  /\ hook' = [hook EXCEPT ![h] = "enabled"]
  /\ UNCHANGED <<raised, rows, batches, faults>>

(* `webhook remove`: ON DELETE CASCADE takes its deliveries with it. *)
RemoveHook(h) ==
  /\ hook[h] = "enabled"
  /\ hook' = [hook EXCEPT ![h] = "removed"]
  /\ status' = [d \in Deliveries |->
                  IF d[2] = h /\ status[d] \in Rows THEN "gone" ELSE status[d]]
  /\ left' = [d \in Deliveries |-> IF d[2] = h THEN 0 ELSE left[d]]
  /\ UNCHANGED <<raised, attempts, batches, faults>>

(* The triggers: one row per hook that wants the event, in the transaction  *)
(* of the change.  A direct message has none.                               *)
Enqueue(e) ==
  /\ e \notin raised
  /\ raised' = raised \union {e}
  /\ status' = [d \in Deliveries |->
                  IF /\ d[1] = e /\ e \notin Direct
                     /\ hook[d[2]] = "enabled" /\ d \in Subscriptions
                  THEN "pending" ELSE status[d]]
  /\ UNCHANGED <<hook, attempts, left, batches, faults>>

(* Variant: the rows are not held back while they are sent. *)
ClaimWithoutHold(r) ==
  /\ IdleReplica(r)
  /\ \E S \in SUBSET {d \in Deliveries : Due(d)} :
       /\ S # {}
       /\ Cardinality(S) <= Batch
       /\ attempts' = [d \in Deliveries |-> attempts[d] + IF d \in S THEN 1 ELSE 0]
       /\ flight' = [flight EXCEPT ![r] =
                       [d \in Deliveries |-> IF d \in S THEN "queued" ELSE "none"]]
       /\ carried' = [carried EXCEPT ![r] =
                       [d \in Deliveries |-> IF d \in S THEN attempts[d] + 1 ELSE 0]]
       /\ age' = [age EXCEPT ![r] = 0]
  /\ UNCHANGED <<hook, raised, status, left, faults>>

(* claim: some due rows, no more than a batch, for a replica that is done   *)
(* with its last one.  Which of them come first (next_attempt_at, then id)  *)
(* is left open: how long a row has been due is not kept, and SKIP LOCKED   *)
(* passes over those another statement is writing.                          *)
Claim(r) ==
  /\ IdleReplica(r)
  /\ \E S \in SUBSET {d \in Deliveries : Due(d)} :
       /\ S # {}
       /\ Cardinality(S) <= Batch
       /\ attempts' = [d \in Deliveries |-> attempts[d] + IF d \in S THEN 1 ELSE 0]
       /\ left' = [d \in Deliveries |-> IF d \in S THEN Hold ELSE left[d]]
       /\ flight' = [flight EXCEPT ![r] =
                       [d \in Deliveries |-> IF d \in S THEN "queued" ELSE "none"]]
       /\ carried' = [carried EXCEPT ![r] =
                       [d \in Deliveries |-> IF d \in S THEN attempts[d] + 1 ELSE 0]]
       /\ age' = [age EXCEPT ![r] = 0]
  /\ UNCHANGED <<hook, raised, status, faults>>

(* send_batch starts another POST. *)
Post(r, d) ==
  /\ flight[r][d] = "queued"
  /\ Cardinality(Running(r)) < Concurrency
  /\ flight' = [flight EXCEPT ![r][d] = "posting"]
  /\ UNCHANGED <<hook, raised, rows, carried, age, faults>>

(* The receiver accepts it; refuses it for good (a 4xx but 408 and 429); or *)
(* answers otherwise, or not within the client's timeout.                   *)
Answer(r, d, a) ==
  /\ flight[r][d] = "posting"
  /\ flight' = [flight EXCEPT ![r][d] = a]
  /\ UNCHANGED <<hook, raised, rows, carried, age, faults>>

MarkSent(r, d) ==
  /\ flight[r][d] = "ok"
  /\ Mark(d, "sent", KeepSent)
  /\ Land(r, d)
  /\ UNCHANGED <<hook, raised, faults>>

(* The attempts are those of the claim, or all of them if trying again      *)
(* would not help.                                                          *)
MarkFailed(r, d) ==
  LET tries == IF flight[r][d] = "permanent" THEN MaxAttempts ELSE carried[r][d] IN
  /\ flight[r][d] \in {"retry", "permanent"}
  /\ IF Terminal(tries) THEN Mark(d, "failed", KeepFailed)
                        ELSE Mark(d, "pending", Backoff[Step(tries)])
  /\ Land(r, d)
  /\ UNCHANGED <<hook, raised, faults>>

(* The UPDATE of mark_sent or mark_failed fails, or its task panics. *)
MarkLost(r, d) ==
  /\ faults < MaxFaults
  /\ flight[r][d] \in Answers
  /\ faults' = faults + 1
  /\ Land(r, d)
  /\ UNCHANGED <<hook, raised, rows>>

(* The replica dies, or is stopped, with its batch; another one starts.     *)
(* Also a claim whose rows never reached the replica.                       *)
Crash(r) ==
  /\ faults < MaxFaults
  /\ ~IdleReplica(r)
  /\ faults' = faults + 1
  /\ flight' = [flight EXCEPT ![r] = [d \in Deliveries |-> "none"]]
  /\ carried' = [carried EXCEPT ![r] = [d \in Deliveries |-> 0]]
  /\ UNCHANGED <<hook, raised, rows, age>>

(* prune, between two batches of some replica. *)
Prune(r) ==
  /\ IdleReplica(r)
  /\ status' = [d \in Deliveries |->
                  IF status[d] \in Settled /\ left[d] = 0 THEN "gone" ELSE status[d]]
  /\ UNCHANGED <<hook, raised, attempts, left, batches, faults>>

(* A tick of the database's clock. *)
Tick ==
  /\ \A r \in Replicas : IdleReplica(r) \/ age[r] < MaxFlight
  /\ left' = [d \in Deliveries |-> IF left[d] > 0 THEN left[d] - 1 ELSE 0]
  /\ age' = [r \in Replicas |-> IF IdleReplica(r) THEN age[r] ELSE age[r] + 1]
  /\ UNCHANGED <<hook, raised, status, attempts, flight, carried, faults>>

Send(r, d) ==
  \/ Post(r, d)
  \/ \E a \in Answers : Answer(r, d, a)
  \/ MarkSent(r, d)
  \/ MarkFailed(r, d)

Next ==
  \/ \E h \in Hooks : AddHook(h) \/ RemoveHook(h)
  \/ \E e \in Events : Enqueue(e)
  \/ \E r \in Replicas :
       \/ Claim(r)
       \/ \E d \in Deliveries : Send(r, d) \/ MarkLost(r, d)
       \/ Crash(r)
       \/ Prune(r)
  \/ Tick

(* A replica polls for due rows every few seconds, its POSTs have a         *)
(* timeout, and time passes.  Nothing has to fail, to happen or to be       *)
(* pruned.                                                                  *)
Fairness ==
  /\ \A r \in Replicas : WF_vars(Claim(r))
  /\ \A r \in Replicas, d \in Deliveries : WF_vars(Send(r, d))
  /\ WF_vars(Tick)

Spec == Init /\ [][Next]_vars /\ Fairness

-----------------------------------------------------------------------------
VariableTypes ==
  /\ hook \in [Hooks -> {"absent", "enabled", "removed"}]
  /\ raised \subseteq Events
  /\ status \in [Deliveries -> Rows \union {"absent", "gone"}]
  /\ attempts \in [Deliveries -> Nat]
  /\ left \in [Deliveries -> Nat]
  /\ flight \in [Replicas -> [Deliveries -> Stages]]
  /\ carried \in [Replicas -> [Deliveries -> Nat]]
  /\ age \in [Replicas -> Nat]
  /\ faults \in Nat

(* A row is an event that happened and a hook that was not removed since; a *)
(* flight is of a row that exists or existed, and carries one of its        *)
(* attempts.                                                                *)
OutboxShape ==
  /\ \A d \in Deliveries :
       /\ status[d] # "absent" => d[1] \in raised \ Direct /\ d \in Subscriptions
       /\ status[d] \in Rows => hook[d[2]] = "enabled"
       /\ status[d] = "absent" => attempts[d] = 0
  /\ \A r \in Replicas, d \in Deliveries :
       InFlight(r, d) => status[d] # "absent" /\ carried[r][d] \in 1..attempts[d]

(* The type of every variable and the shape of rows and flights: nothing is *)
(* ever enqueued or sent for a direct message, and the rows of a hook end   *)
(* with it.                                                                 *)
TypeOK == VariableTypes /\ OutboxShape

(* No delivery is in the hands of two replicas at once ("one of them takes  *)
(* it and the other moves on, rather than both sending it"), which takes    *)
(* that no batch outlasts the hold on its rows: a batch is a few rounds of  *)
(* POSTs with a timeout of five seconds.                                    *)
OneSender ==
  \A d \in Deliveries : \A r, q \in Replicas :
    InFlight(r, d) /\ InFlight(q, d) => r = q

(* A delivery that was recorded as sent or parked as failed is never tried  *)
(* again and never changes its verdict: mark_sent and mark_failed match the *)
(* id alone, so a late one of another replica would put it back.            *)
SettledStays ==
  [][\A d \in Deliveries : status[d] \in Settled =>
       status'[d] \in {status[d], "gone"} /\ attempts'[d] = attempts[d]]_vars

(* A delivery is tried MAX_ATTEMPTS times, and again only for those tries   *)
(* whose outcome was lost with a replica or an UPDATE.                      *)
TriesAreBounded == \A d \in Deliveries : attempts[d] <= MaxAttempts + faults

(* A delivery is never stuck nor retried for ever: it is sent or parked, or *)
(* its hook is removed, although replicas die with it in their hands, even  *)
(* on its last attempt.                                                     *)
EverythingSettles ==
  \A d \in Deliveries : status[d] = "pending" ~> status[d] \in Settled \union {"gone"}
=============================================================================
