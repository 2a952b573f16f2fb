# A formal model of ai-crew-sync

`ai-crew-sync` is a coordination bus for the coding agents of a team: an MCP
server over one PostgreSQL database, run as any number of stateless replicas.
Agents exchange messages, share a task board, take advisory locks, keep notes,
attach files and are told of each other's events; operators manage teams and
quotas from the command line. This directory holds TLA+ modules that model the
parts of it where order matters, TLC configurations that check them on small
instances, and TLAPS proofs of what they promise for every instance.

Paths are relative to the repository, `src/...` being its root.

## 1. The system

### Components, their state and their operations

| Component | Source | State | Operations |
|---|---|---|---|
| Task board | `store/tasks.rs`, `tools/tasks.rs`, migrations 0001, 0002, 0008 | `tasks` (status, holder and session, lease), `task_deps`, `task_events` | create, list, get, claim, claim next, renew, release, complete |
| Advisory locks | `store/locks.rs`, `tools/locks.rs`, migrations 0002, 0008 | `locks` (holder and session, purpose, acquired, expires) | acquire (extend, take over), release, list |
| Attachments and quotas | `store/attachments.rs`, `store/quota.rs`, `store/messaging.rs`, `admin.rs`, migrations 0003, 0007 | `attachments`, `teams.attachment_bytes_limit` | attach to a message, to a task, post with files, get; set and show quota; prune |
| Messages and cursors | `store/messaging.rs`, `tools/messaging.rs`, migrations 0001, 0006, 0008, 0010 | `messages`, `channels`, `read_cursors` per agent and session | post, read by scope, search, channels, announce |
| `ask_agent` | `tools/messaging.rs`, `store/messaging.rs` | none of its own: a wait over messages | ask, wait, answer, resume |
| Event hub | `events.rs`, `tools/events.rs`, migrations 0002, 0009, 0010 | one LISTEN connection, a broadcast ring of 256 events, one receiver per waiter | publish (triggers), subscribe, wait_for_updates |
| Webhook outbox | `webhooks.rs`, migration 0005 | `webhooks`, `webhook_deliveries`; the batch a replica is sending | enqueue (triggers), claim, post, mark sent, mark failed, prune, add, list, remove |
| Retention | `store/quota.rs`, `admin.rs` | messages, attachments, events and their age | prune, usage |
| Rate limiter | `ratelimit.rs` | buckets per token, in memory, per replica | check, evict |
| Notes | `store/notes.rs`, `tools/notes.rs` | `notes`, `note_revisions` (the last writer wins; no expected revision) | set, get, list, search, delete, history |
| Presence | `store/presence.rs`, `tools/presence.rs`, migration 0008 | `agent_presence`, a row per agent and session | heartbeat, list, whoami |
| Digest | `store/digest.rs` | none | catch_up (reads only) |
| Authentication | `auth.rs`, `admin.rs` | `api_tokens` (revoked), `agents` (disabled) | authenticate a request; add, disable an agent; issue, revoke a token |
| Dashboard | `dashboard/` | a signed grant cookie, in the browser | login, pages (reads only) |
| Client | `client/` | none | command line to tool call |
| Server | `main.rs`, `serve.rs`, `lib.rs`, `error.rs`, `model.rs`, `tools/mod.rs` | the pool, the hub | start, route, shut down |
| Plugin hooks | `plugin/scripts/` | a file of questions already raised, per window | session start, heartbeat, stop-drain |
| Packaging | `Docker/`, `packaging/`, `Makefile` | none | build, deploy |

### How they interact

Everything is shared through the database. A tool call runs its SQL on the
connection pool, mostly without a transaction, so **each statement commits by
itself** and any other call, of any replica, may run between two statements of
one call. The exceptions are `post_message`, whose message and files are one
transaction, and `attach_to_task`. Triggers on `messages`, `tasks`, `locks` and
`notes` raise the notification the event hub of each replica listens for and
enqueue webhook deliveries. The identity of a call is an agent (from its token)
and a session (from `X-Crew-Session`): two windows of one person are two sessions of
one agent and can contend with each other.

### What is hard

Interleavings of statements of different calls; leases that run out between the
statement that grants one and the statement that shows it; calls that die
between two statements; locks on one row that several transactions wait for;
replicas that die in the middle of a batch; notifications that are lost; cursors
that pass what was never shown; a token revoked while a call runs under it; a
clock that is read before a mutex is taken; a hook that is killed while it writes
its file. PROJECT.json lists each at its line ("hazards").

### What makes each component correct

* **Task board**: at most one session works on a task by the last reply it got,
  but for two causes that can be named; a finished task is final; the history agrees with the result; a task waits for
  its dependencies; dependencies never tie the whole board up; a claim passes on
  only when it was given up or has run out.
* **Locks**: what a session was told of its lock holds until the expiry it was
  shown, so no two sessions act under one lock, but for the same two causes.
* **Attachments**: nothing is stored past the quota, nor past the cap per target;
  uploads that wait for each other all end, and not all of them by failing.
* **Webhooks**: an event is delivered at least once or parked, never lost,
  however replicas die; it is tried a bounded number of times; what is settled
  stays settled.
* **Messages**: every message reaches each of its readers once; a cursor never
  passes an unread message.
* **ask_agent / event hub**: an answer or an event that arrived is found before
  the deadline; a waiter is never left asleep over one.
* **Notes**: a bad overwrite can be undone: the trail of a note that exists keeps
  every value written to it.
* **Retention**: only what is old enough goes, whatever the numbers given and
  however prunes and writers interleave, and what is reported is what went.
* **Rate limiter**: forgetting an idle bucket gives nobody more, or less, than they
  would have; whoever waits as long as a refusal said is not refused again.
* **Access**: no call starts on a token that was not in force since the call
  arrived; what goes on after a revocation (calls in progress, a dashboard grant)
  comes to an end.
* **Stop hook**: a question to the agent is raised in each of its windows, once,
  and not when it was already answered.

## 2. Modules

| Module | Models | Runs |
|---|---|---|
| `Lease` | the abstract promise of anything held for a while | (a PROPERTY of the next two) |
| `Tasks`, `MCTasks` | the task board | `tasks` |
| `Tasks_proofs` | theorems about it | |
| `Locks`, `MCLocks` | the advisory locks | `locks` |
| `Locks_proofs` | theorems about them | |
| `Attachments`, `MCAttachments` | the attachment quota and the row of the team it locks | `attachments`, `over_quota` |
| `Attachments_proofs` | theorems about it | |
| `Webhooks`, `MCWebhooks` | the outbox and the replicas that send from it | `webhooks` |
| `Webhooks_proofs` | theorems about it | |
| `Messages`, `MCMessages` | posting, and reading by cursors | `messages` |
| `Messages_proofs` | theorems about them | |
| `Updates`, `MCUpdates` | event hub, `wait_for_updates`, `ask_agent` | `updates`, `grace_window` |
| `Updates_proofs` | theorems about them | |
| `RateLimiter`, `MCRateLimiter` | the token buckets of a server process | `limiter` |
| `Notes` | set_note and delete_note, and the trail of revisions | (by the next) |
| `Retention`, `MCRetention` | `team prune`, composed with `Notes` | `retention` |
| `Retention_proofs` | theorems about both | |
| `Access`, `MCAccess` | authentication, the dashboard's grant, the operator's commands | `access` |
| `StopDrain`, `MCStopDrain` | the plugin's Stop hook | `stop_drain` |
| `Edge_proofs` | theorems about `RateLimiter`, `Access` and `StopDrain` | |

PROJECT.json "map" gives the lines each definition translates. Operators whose
comment begins with "Variant:" are plausible bugs of the code, used to show that
each property can be broken; no specification uses them.

### Lease

The clock, and for each resource an owner, an expiry and whether it is retired.
A resource is taken when it is free, one's own, or its lease ran out, and always
until a moment still to come. `Tasks` and `Locks` implement it by the refinement
mappings at their ends: the owner of a task is its holder while it is claimed,
the owner of a lock is the holder of its row.

### Tasks

One action per SQL statement. `status`, `holder`, `lease`, `result`, `created`
and `deps` are the columns; `history` is the rows of `task_events` (of the kinds
in `Kept`); `calls[c]` is the place a session's call has reached. `create_task` is
`CreateResolve`, `CreateInsert` (or `CreateCollides`), `CreateDep` for each
dependency and `LogEvent`. A refused call changes no row; what it answers with is
`GetTask`. `Abort` ends a call between any two statements.

`told[c][t]` is what the last reply said to session `c` about task `t`, and only a
reply (`Reply`, `GetTask`) or the passing of the end it showed (`Tick`) changes
it: a statement of the session's own does not, since a session knows nothing of
it before it is answered. A reply is made of the row that a later statement
finds (`fetch_task`), so it need not agree with what the call itself wrote.
`Says` has its four kinds: the row is not the session's ("nothing"); the row
shows the session's claim ("mine"); or `claimed: true`, which the answer to a
successful claim says whatever the row shows, next to a row that is no longer the
session's, made before the claim's own end ("claimed") or after it ("late").
`Works` is a session acting on such a reply until the end shown with it.

`OneWorker` excuses two causes (`Excused`), both real in the code and listed in
section 5: a reply that came "late", and a reply that is lost or on its way after
the session itself gave the task up, finished it or asked for a shorter lease
(`cut`), so that it still has the older, longer end. Everything else is excluded:
in particular a "claimed" next to another session's live claim, and a "mine"
whose lease the row does not have.

`claim_next_task` uses `FOR UPDATE SKIP LOCKED`: which rows are locked at that
moment depends on statements that other calls have in progress, so `ClaimNext`
may skip any of the rows they write or refer to. `attach_to_task`, whose foreign
key locks its task too, is left out of these (`Busy`); no property depends on it.

### Locks

`AcquireLock` is the upsert, `AcquireReply` the SELECT its answer is made of;
`ReleaseLock` is the DELETE and `ReleaseReply` its answer, which can be lost like
any other (`Abort`). `Refused` is an acquisition or a release that matched no row.
`told`, `cut` and `Says` are as in `Tasks`: `acquired: true` is said whatever row
the SELECT finds ("mine", "acquired" or, after the expiry the upsert wrote,
"late"), and nothing but a reply changes what a session was told. `ToldIsTrue` says
that the row is the session's and lasts as long as it was shown, but for the two
causes of `Excused`; `OneHolder`, which follows, that no two sessions act at once.
`purpose[n]` names who stated the purpose of the row: a takeover that states
none is shown with the previous holder's (`COALESCE`), which no document forbids
and no property here judges. A row with an expired lease stays
until somebody takes it over or its holder releases it.

### Attachments

One team's row, on which uploads meet. `share` and `updater` are the holders of
the two row locks that matter, `FOR KEY SHARE` (taken by the foreign key check of
every INSERT) and `FOR UPDATE` (taken by the quota check); a transaction keeps
them until it ends. A post takes the first before it asks for the second, so
posts with files can deadlock, and `DeadlockVictim` is the database breaking
such a deadlock. `attach_to_message` has no transaction: its `LockTeam` gives
the lock back at once and its insert, `InsertAlone`, commits by itself.

### Webhooks

`status`, `attempts` and `left[d]` (the time left until `next_attempt_at`, or
until a settled row is old enough for `prune`) are the rows of
`webhook_deliveries`; `flight[r][d]` is how far replica `r` has come with a
delivery of its batch, `carried[r][d]` the attempts its claim returned, and
`age[r]` the time since the batch was claimed. `Claim`
is the one statement that takes the due rows; what the receiver answered is
recorded later by `MarkSent` or `MarkFailed`, which match the row by its id
alone, or is lost (`MarkLost`). `Crash` is the death of a replica with all its
flights. Times are counted down instead of up, so the model needs no bound on
the clock; intervals shrink to a few ticks with their order kept.

### Messages

`InsertMessage` draws the id (`drawn` is the BIGSERIAL) and `CommitMessage`
commits, so ids may become visible out of order; `late` are the messages that
committed below one already visible. A read is `ReadCursor`, `SelectRows`,
`AdvanceCursor` and `Reply`, four steps of a client, and `Abort` ends it between
any two: the statements commit each for itself, and the answer may not arrive.
`Windows` are the combinations of agent, scope, session and view a client can
read through, `Key` the text under which `read_cursors` keeps the cursor of one.
`fate[w][p]` is what the reads of window `w` did with message `p`: shown it, left
it out for the limit, or lost it with a reply.

### Updates

`wire` is the listener's connection to the database, `lost` the events whose
notification never got through it, `queue[c]` and `lagged[c]` the receiver of
caller `c` on the broadcast channel, `call[c].at` where its tool call is.
`Commit` is the trigger's NOTIFY at commit; `Publish` is `EventHub::publish`,
which drops the oldest event of a receiver that is full and marks it lagged.
`wait_for_updates` is `StartWait` (up to `hub.subscribe()`), `CheckUnread`,
`Sleep`, `Receive`, `ReceiveMore` (the grace window), `FailToDescribe` and
`EndWait`; `ask_agent` is `StartAsk`, `PostQuestion`, `LookForAnswer`, `Sleep`,
`ReceiveForAsk`, `ExpireAsk`, `LastLook`. Between the query of a look and the
sleep after it there is a step, so an event may come in between. `Backlog` and
`Answers` are the WHERE clauses, `Wakes`, `Batched` and `LooksLikeAnswer` the
filters on events; what the two promise together is the point of the module.
Messages commit in the order of their ids here; `Messages` is where they do not.

### RateLimiter

`buckets` is the map, `sinceSweep` its counter. `RateLimiter::check` reads
`Instant::now()` before it takes the mutex: `Arrive` is the reading, and `Admit`,
`Throttle` or `TurnAway` all that happens under the mutex (the periodic sweep,
the second sweep for an unknown key that finds no room, the refill, the charge).
Tokens are counted in units of which a request costs `Minute`, so a refill is
exact. Beside it runs the limiter that forgets nothing (`ideal`), whose time only
goes forward; `rewound` are the seconds by which requests for a key were charged
behind one with a later instant, and `promise` the earliest instant a refusal
named since the key's last admitted request.

### Notes and Retention

`Upsert`, `KeepRevision` and `AnswerSet` are the three statements of `set_note`;
`SetNoteFails` is the foreign key that refuses a revision of a row deleted
meanwhile, and `SetNoteDies` a call cut after its upsert. The id of a row is the
name of the call that inserted it, so a note deleted and set again is another
row with a trail of its own.

A prune is one transaction: `Begin`, `Measure`, `DropRevisions`, `DropEvents`,
`DropMessages`, then `Commit` or `RollBack`, which may come at any point. What it
has deleted and not committed is in its `revisions`, `events` and `messages`:
still visible to others, but a second prune waits for those rows, and so do
an upload to a doomed message and a `delete_note` over a doomed revision. Each
statement sees the rows committed by then (READ COMMITTED), while `cutoff` is
that of the transaction's beginning. `disturbed` marks a prune whose measurement
another's step has overtaken. `AsI32` is the window as 32 bits hold it, `Accepted`
the check before it.

### Access

A call is `Present`, `Charge` (or `TooMany`, `RefuseSession`), `Authenticate`
(or `Reject`) and `Answer`. `Login` and `IssueGrant` are the two ends of
`dashboard::login`, `ShowByGrant` and `ShowByToken` the two ways into
`dashboard::render`. The operator's commands are other processes and run between
any two of these. `lastUsable` remembers when each token was last in force, which
is what the properties measure by.

### StopDrain

One hook per window: `ReadFeed`, then `GoQuiet` or `Choose`, `Mark` (the file is
empty between the two: the script truncates it before it writes) and
`Raise`. `Fail` is a bus that does not answer, or the client's kill, at any step.
`Visible` is what a caller without a session reads in scope `all`. `raised` is
ghost: what the window was held open for since its file was last cut; a question
marked by a hook killed before it printed is in `swallowed`.

## 3. Runs

Each passing run checks its module's type invariant, its safety properties and,
where there are some, the refinement or the liveness properties, on the whole
state space of the instance. Deadlock is checked unless the configuration says
otherwise: where a system has done all it can (bounded clock, all uploads
ended), stopping is not an error.

| Run | Instance | Distinct states | What it shows |
|---|---|---|---|
| `tasks` | 2 tasks, 2 sessions of one agent and another agent, 2 calls at once, leases of 1 and 2, clock to 2 | 690,958 | one worker per task but for two named causes, history agrees with the result, the board is never tied up, done is final, the lease is implemented |
| `locks` | 2 locks, the same callers, times to live of 1 and 2, clock to 3 | 437,808 | what a session is told is true until the expiry it was told, but for two named causes; the lease is implemented |
| `attachments` | 6 uploads of all three kinds, quotas of 2, 3 or none, one change of quota | 76,181 | no transaction commits past the quota, a deadlock spares one, every upload ends |
| `webhooks` | 2 replicas, 2 events (one direct), 2 hooks, 2 attempts, hold of 2 ticks, 2 faults | 153,962 | no delivery in two hands, tries bounded, verdicts final, everything settles |
| `messages` | 2 posts, 2 clients of one session, 3 windows, limits 0 and 5 clamped to 1 and 3, 2 calls each | 811,165 | what was shown stays read; a cursor skips nothing but by a limit, a lost reply or a late commit |
| `updates` | 1 caller, 5 events, receiver of 2, one fault | 1,943,924 | nothing slips between check and sleep; an ask is answered whatever is lost |
| `limiter` | 2 tokens, 1 place in the map, 2 requests at once, bursts of 6, sweeps every 2, clock to 5 | 238,033 | forgetting buckets is free; Retry-After is enough |
| `retention` | 2 prunes, windows of 0, 1 and 4 days (3 fit), a note and 2 writers, a message, a file, an event, clock to 2 | 2,992,564 | only what is old goes, by a prune that meant it; the trail is kept; reports are true |
| `access` | 2 calls, a browser, an issued token and one that never is, grants of 2, 2 changes to the agent, clock to 3 | 785,128 | no call on a token out of force, pages end with the grant, revoked tokens fall silent |
| `stop_drain` | 1 window, a feed and a file of 2, 4 messages, 2 faults | 47,076 | a question is raised once, not when answered, and surfaces |

The other runs each show a disagreement between the code and what the repository
says of it; TLC finds the shortest behaviour:

* `over_quota`: an upload to a message stores past the quota, because check and
  insert are not one transaction (`store/attachments.rs:198`).
* `grace_window`: within the grace window another session of the caller's own
  agent counts as the caller (`tools/events.rs:325`).

### Why the bounds are enough

Two sessions of one agent and one session of another are the identities the code
tells apart (same session, same agent, someone else). Two tasks suffice for a
dependency, two locks for a caller that holds one while taking another, two calls
for every pair of statements to interleave. Leases of 1 and 2 on a clock of 2 or
3 cover a lease that runs out while another lasts, and renewals both longer and
shorter than what is left. Callers, clients and tasks that nothing tells apart
are permuted (SYMMETRY) in the runs without liveness properties.

Two runs bound what is remembered of replies (`Explored`, a CONSTRAINT). No guard
and no row depends on `told` or `cut`, and an aborted call leaves the rows as an
answered one does, so leaving out states for what they remember leaves out no
state of the rows: all properties but `OneWorker` and `ToldIsTrue` are checked as
without it. Those two speak of one task or lock at a time. `tasks` explores every
reply on boards of one task and none on boards of two; `locks` explores replies
about a lock as long as no other lock has a row. What is left out by that
(replies about one task while another exists) is covered by the proofs of both.

Six uploads are two of each kind, enough for both
sides of each race. Two replicas and two faults let one die on a last attempt
while the other claims. `Capacity` 2 for 256 makes a receiver overflow after
three events. Counted times keep their order, not their proportions.

One place in the limiter's map for two tokens makes the ceiling, both sweeps and
the refusal of an unknown token happen, and two requests at once are charged in
either order; a bucket idle for 3 seconds is just full again, as it is with the
numbers of the source (10 requests of 60 units at 1 per minute against 600
seconds). Two prunes and two writers are every pair that can meet; a window below
the floor, one within and one that the 32 bits would wrap are all the code
distinguishes, and rows of age 0 to 2 lie on both sides of a window of 1. In
`access`, a clock to 3 outlasts a grant of 2, and two changes disable an agent
and add it again. One window suffices for the Stop hook, since windows share
nothing but the log; with four messages a question is pushed out of a feed of
two, answered in sight or out of sight, or forgotten by a file of two.

### Fairness

* `Attachments`: an upload that can take its next step takes it, and the database
  breaks a deadlock when there is one (`deadlock_timeout`).
* `Webhooks`: a replica polls (`tokio::time::interval`), a POST ends (it has a
  timeout) and is marked, and time passes. No replica has to die; faults are
  bounded, since a replica that dies on every attempt delivers nothing.
* `Updates`: an ask that has been posted takes its next step (its queries return,
  its sleep has a deadline). Nothing is assumed of the listener, of what others
  post, or of how long the caller stays.
* `Access`: a handler that runs ends (its queries return, its waits have
  deadlines). Nothing is assumed of the operator.
* `StopDrain`: a window goes on coming to the ends of turns, and a hook that is
  not killed runs to its end. Kills are bounded, since a hook killed each time
  raises nothing; how they come about is open.

`Webhooks` assumes `MaxFlight < Hold`: a batch of 32 in groups of 8, each POST
with a timeout of 5 seconds, takes at most 20 of the 60 seconds its rows are
held. A process that stalls for longer is outside of what is checked and proved.

## 4. Proofs

Every theorem holds for any values of the constants that satisfy the named
assumptions of its module, which state no more than the types of the constants
and what the code guarantees of them (a minimum not above a maximum, say). The
theorems about sending name one more, `MaxFlight < Hold`, in their statements.

* **Tasks.** The invariant adds to the types that what a session may count on is
  backed by the row (`Entitlement`: `RowsUpheld`, the row of a pending claim and of a
  reply that nothing excuses is the session's for as long, or finished; and `Sole`, at
  most one session is so entitled to a task, finished ones included), that
  completions still to be logged agree
  with the result (`CompletionsInFlight`) and that dependencies are older than
  what depends on them (`DepsOlder`). From it follow `OneWorker`,
  `HistoryMatchesResult`, `WorkRemains`, `DoneIsFinal`, and, with a step lemma per
  action, that the board implements `Lease`.
* **Locks.** `RowsUpheld`: while an acquisition whose expiry has not passed waits
  for its SELECT, the row is the caller's with that expiry (`Pending`), which is
  why no reply says "acquired"; and a reply that nothing excuses has the row behind
  it (`Counts`). A lock can be taken only when neither holds for anybody else
  (`FreeForTheTaking`). `ToldIsTrue` and `OneHolder` follow.
* **Attachments.** `Reserved` says that what a transaction has read is still true
  while it holds the team row: its limit is the team's, and what is stored, what
  it inserted and the file it is about to insert fit; `CommitsWithinQuota`
  follows for the uploads that are transactions, and only for them.
  `DeadlockSparesOne` needs an invariant of its own, `Survivor`: once an upload has
  lost a deadlock, one with files is alive, since the victim's step leaves the
  one it waited for at its `lock`, and every other step leaves the living alive.
  `NoStandstill` follows from the types and the shape of the locks: whoever holds
  the row FOR UPDATE can go on; if nobody does, everyone waits at the row, and
  either one post holds it alone or two of them are a deadlock.
* **Webhooks.** `Held` says a row being sent is pending, held until the batch has
  ended, and carries the attempt in its flight; `OneSender` is inductive with it,
  `Spare` counts the faults against the attempts. `LeavesAnswered` needs the types
  alone: what a flight carries is at most the attempts of its row.
* **Messages.** `Underway`: the cursor only rose since a read in progress saw it,
  and every message between there and where the read will move it is in the
  read's hands or committed late. `Answered`: what an answer shows is below the
  cursor. The proof needs that `Key` is injective on windows, which is the point
  of `cursor_key_for`.
* **Updates.** `Covered` extends `NothingSlips` and `AnswerWakes` back to the
  moment of the look: from then on, every message the look would now find is on
  the wire, on the receiver, or lost. Two lemmas relate the query to the filter
  (`BacklogWakes`, `AnswersLook`): whatever the query counts, the filter lets
  through, so an event taken and dropped was not one of them. That an answer is
  never missed rests on two facts: an ask that sleeps has posted its question
  (`AsksArePosted`), and from then on what the query returns only grows
  (`AnswersStay`), so the last look finds it.
* **RateLimiter.** The invariant is the types, `LevelIsIdeal` and `PromiseFunded`:
  at the instant a refusal named, the bucket holds a request, unless another was
  admitted. An idle bucket is full because the burst is regained in
  `IdleEviction` (`LimiterAssumption`, with nothing to spare in the source's
  numbers), so dropping it changes no level. The steps of linear arithmetic are
  separated from the products (`RegainGrows`, `RegainAdds`), which the solvers do
  not mix. `PromiseKept` is an action property and follows from `PromiseFunded` at
  the step that refuses.
* **Access.** Everything is measured by `LastUsable`, the instant at which a token
  was last in force, and no step makes it recede (`LossesNoted` for the
  operator's, the clock raises it). So what a lookup established goes on:
  `CallsRestOnTokens` and `GrantsRestOnTokens` compare that instant with the
  arrival of a call and with the moment a login proved its token, and
  `ServedWasUsable` and `PagesEnd` are arithmetic from there. A revoked token
  under which nothing runs stays so, because `Authenticate` is the only way in.
* **StopDrain.** `WindowInv`, per window: what it was held open for is on file, or
  older than `FileSize` ids that are (`Remembered`). A forgotten question has
  therefore as many newer questions above it as the file is long, which the feed,
  being no longer (`StopDrainAssumption`), cannot hold together with it; so it is
  not raised again. A reply is newer than its question, so it is in the feed as
  long as its question is, and what is pending was not answered. Both rest on
  lemmas about the newest `n` of a finite set of ids (`NewestAreFew`,
  `NewestStayAbove`, `OldestIsOne`), whose least and greatest elements come from
  well-founded minimality instead of induction. `MarksAccountedFor` adds that the
  file holds nothing but what was raised, or marked by a hook that was killed;
  with it a window goes quiet only when nothing is owed.
* **Notes and Retention.** `IdsNameInserts` keeps rows of one key apart over a
  delete, without which the trail of a deleted row could be taken for that of its
  successor; `DoomedIsOld` carries the age check from a DELETE to its COMMIT, and
  the window is the days given because what is accepted fits 32 bits
  (`WindowIsKept`); `DoomedApart` says no row is doomed twice, so a commit takes
  nothing out of another prune's hands; `MeasureHolds` carries the measurement to
  the last DELETE: rows that arrive are too young to matter (`NowIsNotOld`), and
  the steps that overtake it mark the prune. `OnlyOldGoes` follows step by step.

The invariants are checked by TLC through their parts (the properties of the
runs) and proved inductive by TLAPS.

Every invariant and every action property of the passing runs is proved. Only
model-checked is liveness, which needs fairness (`EveryUploadEnds`,
`EverythingSettles`, `AnswerArrives`, `RevokedFallsSilent`, `QuestionsSurface`):
the prover does not handle ENABLED, on which WF is built. What each of these adds
to its safety half is that a step that stays possible is taken; the halves are
theorems without a run of their own:

| Liveness, checked by TLC | Safety half, proved |
|---|---|
| `EveryUploadEnds` | `UploadsNeverStandStill`: some upload can go on, or a deadlock can be ended |
| `EverythingSettles` | `NothingIsLost`: a row stays pending until it is answered; `RetriesAreBounded` |
| `AnswerArrives` | `AnAnswerIsNeverMissed`: an ask does not end without an answer it slept on |
| `RevokedFallsSilent` | `RevokedStaysSilent`: silence under a revoked token is for good |
| `QuestionsSurface` | `QuietOwesNothing`: a window is not quiet over a question it owes |

The two runs that find a disagreement have nothing to prove.

### Assumptions and abstractions

* A statement is atomic, as is an UPDATE with its row lock (READ COMMITTED
  re-evaluates the WHERE clause on the row it waited for). Where locks outlast a
  statement (`Attachments`), they are modelled.
* A session has one call in progress in `Tasks` and `Locks`, and a client one read
  in `Messages`; other calls of the same identity are other clients there.
* Agents, channels and tasks are never deleted (no tool does).
* In `Attachments` and `Messages` pruning only lowers what is stored; its selection
  by age is in `Retention`. `Tasks` has no prune, so `HistoryMatchesResult` speaks
  of events that are not yet old.
* The SET NULL of `reply_to` when a message goes is left out.
* The limiter's numbers are exact where the code's are `f64`; in `Access` the
  limiter admits or refuses freely, and `Reject` stands for a lookup that fails too.
* The signature of a grant is not forged.
* In `StopDrain` messages commit in the order of their ids.
* `claim` of the outbox may take any due rows up to the batch, not only the oldest.
* The cap of the backoff at 600 seconds never bites: 2 to the power of the last
  attempt is below it.
* `Updates` is one server process; each replica has its own listener, and a call
  stays with one.

## 5. Known disagreements

Two disagreements between the code and what the repository says of it have a run
of their own (`over_quota`, `grace_window`, section 3). Others the models take as
the code has them, and their properties are worded for it:

* A task can be claimed before `create_task` has inserted its dependencies, each
  by a statement of its own (`store/tasks.rs:245`); `store/tasks.rs:157-158` says
  it cannot be claimed until every dependency is done. What does hold is
  `WorkRemains`.
* The cap of attachments per target is counted before the transaction that adds
  one (`store/attachments.rs:124`), so racing uploads exceed the 8 of
  `README.md:623`.
* A delivery whose sixth attempt ended unmarked is posted a seventh time
  (`webhooks.rs:65` asks nothing of `attempts`); `README.md:540-541` says up to six.
  `TriesAreBounded` counts one more per fault.
* A read of new messages with a limit takes the newest and moves the cursor past
  the older ones (`store/messaging.rs:611`), which are then not new any more.
  `NothingElseSkipped` names the limit as one of the reasons.
* The Stop hook sends no session (`plugin/scripts/bus-call.sh:10`): it does not
  see questions addressed to a named session, and the heartbeats of all windows
  land on the presence row of the shared session. A second window of the same
  person may thus be invisible to the test for another live session
  (`tools/messaging.rs:49`), and an ask to oneself be refused.
* A session whose renewal to an earlier end changed the row and whose reply got
  lost (`store/tasks.rs:588-609`; for a lock, the upsert and the SELECT of
  `store/locks.rs:69-109`) still has the older, longer end. Told of an hour, it asks
  for 30 seconds; another session claims the task after these, and both work, each
  on the last reply it got. The same goes for a release whose reply got lost, and
  for as long as such a reply is on its way. It is the first of the two
  causes `OneWorker` and `ToldIsTrue` excuse; `store/tasks.rs:395-398` tells why both
  must not work.
* A claim is answered with `claimed: true` whatever row `fetch_task` then finds
  (`store/tasks.rs:423-427`, `563-567`), and an acquisition with `acquired: true`
  whatever row its SELECT finds (`store/locks.rs:111-116`). When that runs after the
  lease itself has run out, the row may be another session's, and both were told
  they had it. The tool descriptions (`tools/tasks.rs:136`, `tools/locks.rs:38`) name
  the flag as the way to tell who has it. This is the other cause excused; before the
  lease has run out, the flag is true of a lock, and true of a task or the task is
  finished.
* `team prune` says of a dry run that its counts are "exactly what a real run would
  remove" (`store/quota.rs:110-111`), but the bytes are measured by a statement of
  their own (`store/quota.rs:142`): a file attached to an old message, or another
  prune that commits, between it and the DELETE makes them differ. `ReportIsTrue` is
  about prunes no such step overtook.
* A heartbeat that names a repository and no branch keeps the branch of the
  repository before (`store/presence.rs:90`), as its comment asks for field by
  field.

## 6. Plan

Done: `Lease`, `Tasks`, `Locks`, `Attachments`, `Webhooks`, `Messages`, `Updates`,
`RateLimiter`, `Notes`, `Retention`, `Access` and `StopDrain`, with the proofs of
every invariant and action property their runs check.

Next, in this order:

1. `Presence`: rows per session that expire, and the test for another live
   session on which an ask to oneself depends, composed with `Updates`.
2. The sum of what is stored is what the quota check reads, as a lemma.

### Not modelled

* **Presence**: one upsert per heartbeat; no step of another component waits for
  it but the ask to oneself, a condition on the instances of `Updates` (`AskTo`).
* **Digest**, the **client** and the pages of the **dashboard** change nothing:
  queries, formatting, command lines.
* **Server**: configuration, routing and shutdown; its data types and texts.
* **Packaging** and the hooks that send one heartbeat or print a digest keep no
  state.
