------------------------------- MODULE Tasks -------------------------------
(***************************************************************************)
(* The task board of one team: src/store/tasks.rs over the tables tasks,   *)
(* task_deps and task_events.                                              *)
(*                                                                         *)
(* Every tool call runs its SQL on the connection pool, so each statement  *)
(* commits by itself and other calls run between two statements of one     *)
(* call.  An action here is one statement; a call that has more than one   *)
(* keeps the place it has reached in calls[c].  A call that is refused (no *)
(* row matches its WHERE) changes no row; what it answers is GetTask.      *)
(* A call can end between any two statements: a database error, the        *)
(* client's disconnection, or the death of the server process (Abort).     *)
(***************************************************************************)
EXTENDS Integers, FiniteSets

CONSTANTS Tasks,          \* task keys
          Agents,         \* agents.id
          Sessions,       \* the X-Session value, the shared session included
          Callers,        \* the identities that call: pairs <<agent, session>>
          Nobody,         \* claimed_by IS NULL
          NoTask,         \* the task of a call that has none
          MinLease,       \* 30 seconds in the code
          MaxLease,       \* MAX_LEASE_SECS
          LeaseRequests,  \* the lease_seconds callers ask for
          Kept,           \* the events whose task_events rows the model keeps
          MaxCalls,       \* bound on the calls in flight at once
          MaxTime         \* bound on the clock

ASSUME CallersAssumption ==
  /\ Callers \subseteq Agents \X Sessions
  /\ Nobody \notin Callers
  /\ NoTask \notin Tasks

ASSUME LeaseAssumption ==
  /\ MinLease \in Nat \ {0}
  /\ MaxLease \in Nat
  /\ MinLease <= MaxLease
  /\ LeaseRequests \subseteq Int
  /\ MaxTime \in Nat

VARIABLES now,      \* the database's now()
          status,   \* tasks.status, "absent" before the row exists
          holder,   \* tasks.claimed_by with claimed_session
          lease,    \* tasks.lease_expires_at
          result,   \* whose result is stored: the caller that completed it
          created,  \* tasks.created_at, as the rank of the insertion
          births,   \* how many rows were inserted
          deps,     \* the rows of task_deps: deps[t] = what t waits for
          history,  \* the rows of task_events: <<task, event, agent>>
          calls,    \* the call each identity has in flight
          told,     \* told[c][t]: what the last reply said to c about t
          cut       \* cut[c]: the tasks whose end c has moved up since that reply

taskRow == <<status, holder, lease, result>>
replies == <<told, cut>>
vars == <<now, status, holder, lease, result, created, births, deps, history,
          calls, told, cut>>

-----------------------------------------------------------------------------
Statuses == {"absent", "open", "claimed", "done", "cancelled"}
Finished == {"done", "cancelled"}
Events == {"created", "claimed", "released", "completed"}
NoLease == -1
Leases == Nat \union {NoLease}
AgentOf(c) == c[1]

IdleCall == [pc |-> "idle", task |-> NoTask, todo |-> {}, event |-> "none",
             until |-> NoLease]

(* A call at statement pc, with the dependencies it has yet to insert and   *)
(* the event it has yet to log; a claim also has the end of its lease.      *)
Call(pc, t, todo, event) ==
  [pc |-> pc, task |-> t, todo |-> todo, event |-> event, until |-> NoLease]
ClaimCall(t, end) ==
  [pc |-> "log", task |-> t, todo |-> {}, event |-> "claimed", until |-> end]

CallType == [pc : {"idle", "insert", "log", "reply"}, task : Tasks \union {NoTask},
             todo : SUBSET Tasks, event : Events \union {"none"}, until : Leases]

(* What a reply says to a caller about a task: that it is not the caller's  *)
(* ("nothing"), that the row shows the caller's claim ("mine"), or          *)
(* `claimed: true` next to a row that is not the caller's, read while the   *)
(* lease of that claim still ran ("claimed") or after it had run out        *)
(* ("late").  until is the lease_expires_at shown with it, if any.          *)
Replies == [says : {"nothing", "mine", "claimed", "late"}, until : Leases]
NoReply == [says |-> "nothing", until |-> NoLease]

Existing == {t \in Tasks : status[t] # "absent"}

(* Variant: the status of the dependency is left out of the subquery. *)
BlockedByAny(t) == deps[t] # {}

(* `blocked`: some recorded dependency is neither done nor cancelled. *)
Blocked(t) == \E d \in deps[t] : status[d] \notin Finished

(* Variant: a lease counts as expired at its last moment. *)
ExpiredAtDeadline(t) == lease[t] # NoLease /\ lease[t] <= now

(* lease_expires_at < now(); SQL's comparison with NULL is never true. *)
Expired(t) == lease[t] # NoLease /\ lease[t] < now

(* Variant: the comparison before sessions existed, by agent alone.         *)
HeldByAgent(c, t) == holder[t] # Nobody /\ AgentOf(holder[t]) = AgentOf(c)

(* claimed_by = $agent AND COALESCE(claimed_session, '') = $session. *)
HeldBy(c, t) == holder[t] = c

(* lease_seconds.clamp(30, MAX_LEASE_SECS) *)
Clamp(r) == IF r < MinLease THEN MinLease ELSE IF r > MaxLease THEN MaxLease ELSE r

(* The rows other calls in flight may hold a lock on: the task they write,  *)
(* and, through the foreign keys of task_deps, the tasks they refer to.     *)
(* (That of an attachment locks its task as well; Attachments is a module   *)
(* of its own, and no property depends on which rows are skipped.)          *)
Busy(c) == UNION {({calls[d].task} \intersect Tasks) \union calls[d].todo :
                  d \in Callers \ {c}}

Idle(c) == calls[c].pc = "idle"
Start(c) == Idle(c) /\ Cardinality({d \in Callers : ~Idle(d)}) < MaxCalls
Goto(c, call) == calls' = [calls EXCEPT ![c] = call]

(* c's own statement gives t this end, or none.  The reply c has is not     *)
(* touched by that: until the next reply it may promise more than the row.  *)
SetEnd(c, t, end) ==
  /\ cut' = [cut EXCEPT ![c] =
               IF told[c][t].says = "mine" /\ end < told[c][t].until
                 THEN @ \union {t} ELSE @ \ {t}]
  /\ UNCHANGED told

-----------------------------------------------------------------------------
Init ==
  /\ now = 0
  /\ status = [t \in Tasks |-> "absent"]
  /\ holder = [t \in Tasks |-> Nobody]
  /\ lease = [t \in Tasks |-> NoLease]
  /\ result = [t \in Tasks |-> Nobody]
  /\ created = [t \in Tasks |-> 0]
  /\ births = 0
  /\ deps = [t \in Tasks |-> {}]
  /\ history = {}
  /\ calls = [c \in Callers |-> IdleCall]
  /\ told = [c \in Callers |-> [t \in Tasks |-> NoReply]]
  /\ cut = [c \in Callers |-> {}]

(* create_task, up to the INSERT: the key is new, every dependency exists   *)
(* and none of them is the task itself.                                     *)
CreateResolve(c, t, D) ==
  /\ Start(c)
  /\ status[t] = "absent"
  /\ t \notin D
  /\ D \subseteq Existing
  /\ Goto(c, Call("insert", t, D, "created"))
  /\ UNCHANGED <<now, taskRow, created, births, deps, history, replies>>

(* INSERT INTO tasks. *)
CreateInsert(c) ==
  LET t == calls[c].task IN
  /\ calls[c].pc = "insert"
  /\ status[t] = "absent"
  /\ status' = [status EXCEPT ![t] = "open"]
  /\ births' = births + 1
  /\ created' = [created EXCEPT ![t] = births + 1]
  /\ Goto(c, [calls[c] EXCEPT !.pc = "log"])
  /\ UNCHANGED <<now, holder, lease, result, deps, history, replies>>

(* Another creator of the key was faster: UNIQUE (team_id, key) fails the   *)
(* INSERT and the call ends with a database error.                          *)
CreateCollides(c) ==
  /\ calls[c].pc = "insert"
  /\ status[calls[c].task] # "absent"
  /\ Goto(c, IdleCall)
  /\ UNCHANGED <<now, taskRow, created, births, deps, history, replies>>

(* One INSERT INTO task_deps. *)
CreateDep(c) ==
  /\ calls[c].pc = "log"
  /\ \E d \in calls[c].todo :
       /\ deps' = [deps EXCEPT ![calls[c].task] = @ \union {d}]
       /\ Goto(c, [calls[c] EXCEPT !.todo = @ \ {d}])
  /\ UNCHANGED <<now, taskRow, created, births, history, replies>>

(* log_event: INSERT INTO task_events. *)
LogEvent(c) ==
  /\ calls[c].pc = "log"
  /\ calls[c].todo = {}
  /\ history' = IF calls[c].event \in Kept
                  THEN history \union {<<calls[c].task, calls[c].event, AgentOf(c)>>}
                  ELSE history
  /\ Goto(c, [calls[c] EXCEPT !.pc = "reply", !.event = "none"])
  /\ UNCHANGED <<now, taskRow, created, births, deps, replies>>

Mine(c, t) == status[t] = "claimed" /\ HeldBy(c, t)

(* What a reply made of the row as it is now says: that of a claim, the one *)
(* call with an until, has `claimed: true` whatever that row is.            *)
Says(c, t) ==
  IF Mine(c, t) THEN "mine"
  ELSE IF calls[c].until = NoLease THEN "nothing"
  ELSE IF calls[c].until >= now THEN "claimed" ELSE "late"

Tell(c, t) ==
  /\ told' = [told EXCEPT ![c][t] =
                IF Says(c, t) = "nothing" THEN NoReply
                ELSE [says |-> Says(c, t), until |-> lease[t]]]
  /\ cut' = [cut EXCEPT ![c] = @ \ {t}]

(* fetch_task, the last statement of every call that changed something: the *)
(* caller learns the row as it is now, not as its own statement left it.    *)
Reply(c) ==
  /\ calls[c].pc = "reply"
  /\ Tell(c, calls[c].task)
  /\ Goto(c, IdleCall)
  /\ UNCHANGED <<now, taskRow, created, births, deps, history>>

(* get_task: what whoami and list_tasks show of one's own claims, too, and  *)
(* what a refused claim, renewal, release or completion answers with.       *)
GetTask(c, t) ==
  /\ Idle(c)
  /\ status[t] # "absent"
  /\ Tell(c, t)
  /\ UNCHANGED <<now, taskRow, created, births, deps, history, calls>>

(* The SET clause claim_task and claim_next_task share. *)
Grant(c, t, r) ==
  /\ status' = [status EXCEPT ![t] = "claimed"]
  /\ holder' = [holder EXCEPT ![t] = c]
  /\ lease' = [lease EXCEPT ![t] = now + Clamp(r)]
  /\ SetEnd(c, t, now + Clamp(r))
  /\ Goto(c, ClaimCall(t, now + Clamp(r)))
  /\ UNCHANGED <<now, result, created, births, deps, history>>

(* The WHERE clause of claim_task. *)
Claimable(c, t) ==
  /\ status[t] \in {"open", "claimed"}
  /\ \/ status[t] = "open"
     \/ HeldBy(c, t)
     \/ lease[t] = NoLease
     \/ Expired(t)
  /\ ~Blocked(t)

Claim(c, t, r) == Start(c) /\ Claimable(c, t) /\ Grant(c, t, r)

(* The rows claim_next_task chooses from. *)
Unclaimed == {t \in Tasks : /\ \/ status[t] = "open"
                               \/ status[t] = "claimed" /\ Expired(t)
                            /\ ~Blocked(t)}

(* FOR UPDATE SKIP LOCKED leaves out whichever rows other calls are holding *)
(* at that moment, so it takes the oldest of the others.                    *)
ClaimNext(c, r) ==
  /\ Start(c)
  /\ \E skipped \in SUBSET (Busy(c) \intersect Unclaimed) :
       \E t \in Unclaimed \ skipped :
         /\ \A u \in Unclaimed \ skipped : created[t] <= created[u]
         /\ Grant(c, t, r)

RenewLease(c, t, r) ==
  /\ Start(c)
  /\ status[t] = "claimed"
  /\ HeldBy(c, t)
  /\ lease' = [lease EXCEPT ![t] = now + Clamp(r)]
  /\ SetEnd(c, t, now + Clamp(r))
  /\ Goto(c, Call("reply", t, {}, "none"))
  /\ UNCHANGED <<now, status, holder, result, created, births, deps, history>>

(* Variant: the row is opened and its holder left behind. *)
ReleaseKeepsHolder(c, t) ==
  /\ Start(c)
  /\ status[t] = "claimed"
  /\ HeldBy(c, t)
  /\ status' = [status EXCEPT ![t] = "open"]
  /\ SetEnd(c, t, NoLease)
  /\ Goto(c, Call("log", t, {}, "released"))
  /\ UNCHANGED <<now, holder, lease, result, created, births, deps, history>>

ReleaseTask(c, t) ==
  /\ Start(c)
  /\ status[t] = "claimed"
  /\ HeldBy(c, t)
  /\ status' = [status EXCEPT ![t] = "open"]
  /\ holder' = [holder EXCEPT ![t] = Nobody]
  /\ lease' = [lease EXCEPT ![t] = NoLease]
  /\ SetEnd(c, t, NoLease)
  /\ Goto(c, Call("log", t, {}, "released"))
  /\ UNCHANGED <<now, result, created, births, deps, history>>

(* Variant: completing a finished task overwrites its result. *)
CompleteAgain(c, t) ==
  /\ Start(c)
  /\ status[t] # "absent"
  /\ status' = [status EXCEPT ![t] = "done"]
  /\ result' = [result EXCEPT ![t] = c]
  /\ lease' = [lease EXCEPT ![t] = NoLease]
  /\ SetEnd(c, t, NoLease)
  /\ Goto(c, Call("log", t, {}, "completed"))
  /\ UNCHANGED <<now, holder, created, births, deps, history>>

(* Variant: the event is logged whether or not the UPDATE matched a row. *)
CompleteLogsAnyway(c, t) ==
  /\ Start(c)
  /\ status[t] # "absent"
  /\ status' = [status EXCEPT ![t] = "done"]
  /\ result' = [result EXCEPT ![t] = IF status[t] = "done" THEN @ ELSE c]
  /\ lease' = [lease EXCEPT ![t] = NoLease]
  /\ SetEnd(c, t, NoLease)
  /\ Goto(c, Call("log", t, {}, "completed"))
  /\ UNCHANGED <<now, holder, created, births, deps, history>>

(* complete_task: open or claimed, by whoever calls.  claimed_by and        *)
(* claimed_session stay as they are.                                        *)
CompleteTask(c, t) ==
  /\ Start(c)
  /\ status[t] \in {"open", "claimed"}
  /\ status' = [status EXCEPT ![t] = "done"]
  /\ result' = [result EXCEPT ![t] = c]
  /\ lease' = [lease EXCEPT ![t] = NoLease]
  /\ SetEnd(c, t, NoLease)
  /\ Goto(c, Call("log", t, {}, "completed"))
  /\ UNCHANGED <<now, holder, created, births, deps, history>>

(* The call ends between two statements; what it wrote stays. *)
Abort(c) ==
  /\ ~Idle(c)
  /\ Goto(c, IdleCall)
  /\ UNCHANGED <<now, taskRow, created, births, deps, history, replies>>

RunsOut(reply) == reply.until # NoLease /\ reply.until <= now

(* A session that was shown when the lease ends stops when it has ended.    *)
Tick ==
  /\ now < MaxTime
  /\ now' = now + 1
  /\ told' = [c \in Callers |-> [t \in Tasks |->
               IF RunsOut(told[c][t]) THEN NoReply ELSE told[c][t]]]
  /\ cut' = [c \in Callers |-> {t \in cut[c] : ~RunsOut(told[c][t])}]
  /\ UNCHANGED <<taskRow, created, births, deps, history, calls>>

Next ==
  \/ \E c \in Callers :
       \/ \E t \in Tasks, D \in SUBSET Tasks : CreateResolve(c, t, D)
       \/ CreateInsert(c)
       \/ CreateCollides(c)
       \/ CreateDep(c)
       \/ LogEvent(c)
       \/ Reply(c)
       \/ \E t \in Tasks : GetTask(c, t)
       \/ \E t \in Tasks, r \in LeaseRequests : Claim(c, t, r)
       \/ \E r \in LeaseRequests : ClaimNext(c, r)
       \/ \E t \in Tasks, r \in LeaseRequests : RenewLease(c, t, r)
       \/ \E t \in Tasks : ReleaseTask(c, t)
       \/ \E t \in Tasks : CompleteTask(c, t)
       \/ Abort(c)
  \/ Tick

Spec == Init /\ [][Next]_vars

-----------------------------------------------------------------------------
VariableTypes ==
  /\ now \in Nat
  /\ status \in [Tasks -> Statuses]
  /\ holder \in [Tasks -> Callers \union {Nobody}]
  /\ lease \in [Tasks -> Leases]
  /\ result \in [Tasks -> Callers \union {Nobody}]
  /\ created \in [Tasks -> Nat]
  /\ births \in Nat
  /\ deps \in [Tasks -> SUBSET Tasks]
  /\ history \subseteq Tasks \X Events \X Agents
  /\ calls \in [Callers -> CallType]
  /\ told \in [Callers -> [Tasks -> Replies]]
  /\ cut \in [Callers -> SUBSET Tasks]

(* A call past its first statement is about a task, and has a name for what *)
(* it will log.                                                             *)
CallShape ==
  \A c \in Callers :
    /\ IF Idle(c) THEN calls[c] = IdleCall ELSE calls[c].task \in Tasks
    /\ calls[c].pc = "insert" => calls[c].event = "created"
    /\ calls[c].pc = "log" => calls[c].event \in Events

(* A claimed task has a holder and a lease no longer than MAX_LEASE_SECS,   *)
(* an open one has no holder, and only a claimed one has a lease.           *)
RowShape ==
  \A t \in Tasks :
    /\ status[t] = "claimed" =>
         holder[t] # Nobody /\ lease[t] \in Nat /\ lease[t] <= now + MaxLease
    /\ status[t] \in {"absent", "open"} => holder[t] = Nobody
    /\ status[t] # "claimed" => lease[t] = NoLease

(* The type of every variable and the shape of calls and rows; release_task *)
(* must not leave "an active holder that does not exist" behind.            *)
TypeOK == VariableTypes /\ CallShape /\ RowShape

(* c works on t: the last reply it got says that t is its own and shows no  *)
(* lease end that has passed.  Nobody tells it when somebody else completes *)
(* the task, and nothing but a reply tells it what its own calls did.       *)
Works(c, t) ==
  /\ told[c][t].says # "nothing"
  /\ told[c][t].until = NoLease \/ told[c][t].until >= now

(* The two ways to work on a task that is someone else's by then: c gave t  *)
(* up, finished it or moved its end up, and the reply that says so is lost  *)
(* or on its way; or the reply to c's claim was made after that claim had   *)
(* run out, and said `claimed: true` next to the row of whoever took t.     *)
Excused(c, t) == t \in cut[c] \/ told[c][t].says = "late"

(* But for those, no two sessions, not even two of one person, work on one  *)
(* task at once: what claim_task's guard on claimed_session is for ("both   *)
(* claimed, both were told they had it, and both did the work").  The reply *)
(* is read by a statement after the claim, says `claimed: true` whatever it *)
(* reads, and other calls are lost, late or broken off meanwhile.           *)
OneWorker ==
  \A t \in Tasks : \A c, d \in Callers :
    Works(c, t) /\ Works(d, t) /\ ~Excused(c, t) /\ ~Excused(d, t) => c = d

(* A finished task keeps its status, holder and result, whatever calls were *)
(* in flight when it was finished (complete_task races renew, release and   *)
(* another complete_task).                                                  *)
DoneIsFinal ==
  [][\A t \in Tasks : status[t] = "done" =>
       /\ status'[t] = "done"
       /\ holder'[t] = holder[t]
       /\ result'[t] = result[t]]_vars

(* The history shows at most one completion of a task, and it is by the     *)
(* agent whose result the task stores, although log_event is a statement    *)
(* after the UPDATE and several agents may complete the task at once.       *)
HistoryMatchesResult ==
  \A t \in Tasks, a \in Agents : <<t, "completed", a>> \in history =>
    status[t] = "done" /\ AgentOf(result[t]) = a

(* Dependencies never tie the board up: while a task is open, some task is  *)
(* either in somebody's hands or open and not blocked.  create_task claims  *)
(* it ("no cycle is possible by construction") although it resolves the     *)
(* dependencies, inserts the row and inserts each dependency separately.    *)
WorkRemains ==
  (\E t \in Tasks : status[t] = "open") =>
    \E u \in Tasks : status[u] = "claimed" \/ (status[u] = "open" /\ ~Blocked(u))

(* The board implements the abstract lease: a claim passes from one session *)
(* to another only when it was given up, finished, or has run out, and a    *)
(* finished task is never claimed again.                                    *)
Owner == [t \in Tasks |-> IF status[t] = "claimed" THEN holder[t] ELSE Nobody]
Retired == {t \in Tasks : status[t] = "done"}

L == INSTANCE Lease WITH Resources <- Tasks, Holders <- Callers,
                         owner <- Owner, until <- lease, retired <- Retired

ImplementsLease == L!Spec
=============================================================================
