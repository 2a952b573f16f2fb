---------------------------- MODULE Attachments ----------------------------
(***************************************************************************)
(* The attachment quota of one team: src/store/quota.rs, the three ways to *)
(* store files (post_message in src/store/messaging.rs, attach_to_task and *)
(* attach_to_message in src/store/attachments.rs) and the operator's       *)
(* `team quota` in src/admin.rs.                                           *)
(*                                                                         *)
(* An action is one SQL statement.  The row of the team is what uploads    *)
(* meet on: the check takes it FOR UPDATE, and every INSERT with a team_id *)
(* takes it FOR KEY SHARE to check its foreign key.  A transaction keeps   *)
(* what it took until it ends; attach_to_message has none, so each of its  *)
(* statements commits, and gives its lock back, by itself.                 *)
(***************************************************************************)
EXTENDS Integers, Sequences, FiniteSets

CONSTANTS Uploads,          \* calls that store files
          Kind,             \* Kind[u]: which of the three operations u is
          Files,            \* Files[u]: the sizes of its files, in order
          Targets,          \* messages and tasks
          Target,           \* Target[u]: what u attaches its files to
          PerTarget,        \* MAX_ATTACHMENTS_PER_TARGET
          Quotas,           \* the values operators give attachment_bytes_limit
          Unlimited,        \* attachment_bytes_limit IS NULL
          Nobody,           \* no transaction holds the row FOR UPDATE
          MaxQuotaChanges   \* bound on the operator's changes

Kinds == {"post", "task", "message"}

ASSUME UploadsAssumption ==
  /\ Kind \in [Uploads -> Kinds]
  /\ Files \in [Uploads -> Seq(Nat \ {0})]
  /\ Target \in [Uploads -> Targets]
  /\ PerTarget \in Nat \ {0}
  /\ \A u \in Uploads : IF Kind[u] = "post" THEN Len(Files[u]) <= PerTarget
                                            ELSE Len(Files[u]) = 1
  /\ Nobody \notin Uploads

ASSUME QuotasAssumption ==
  /\ Unlimited \notin Nat
  /\ Quotas \subseteq (Nat \ {0}) \union {Unlimited}

VARIABLES quota,    \* teams.attachment_bytes_limit
          stored,   \* sum(size_bytes) over the committed attachments
          count,    \* count[x]: the committed attachments of x
          pc,       \* the statement u is about to run, or how it ended
          file,     \* file[u]: the index of the file u is storing
          seen,     \* seen[u]: the limit u read
          mine,     \* mine[u]: the bytes u's transaction inserted
          share,    \* the transactions holding the team row FOR KEY SHARE
          updater,  \* the transaction holding it FOR UPDATE
          changes   \* how often the operator changed the quota

files == <<stored, count>>
rowLock == <<share, updater>>
limits == <<quota, changes>>
vars == <<limits, files, pc, file, seen, mine, rowLock>>

-----------------------------------------------------------------------------
Ended == {"stored", "refused", "full", "victim", "aborted"}
Statements == {"lock", "sum", "insert", "commit"}

Transactional(u) == Kind[u] # "message"
Running(u) == pc[u] \in Statements
Size(u) == Files[u][file[u]]

(* A post's message does not exist for others before the post commits. *)
TargetExists(u) ==
  \A p \in Uploads : Kind[p] = "post" /\ Target[p] = Target[u] => pc[p] = "stored"

(* FOR UPDATE conflicts with every other lock on the row. *)
UpdateGranted(u) == updater \in {Nobody, u} /\ share \subseteq {u}

(* FOR KEY SHARE conflicts with FOR UPDATE alone. *)
ShareGranted(u) == updater \in {Nobody, u}

(* COMMIT or ROLLBACK gives back what u's transaction holds. *)
Unlock(u) ==
  /\ share' = share \ {u}
  /\ updater' = IF updater = u THEN Nobody ELSE updater

(* Variant: the transaction is left open. *)
LeakTransaction(u, how) ==
  /\ pc' = [pc EXCEPT ![u] = how]
  /\ mine' = [mine EXCEPT ![u] = 0]
  /\ UNCHANGED <<limits, files, file, seen, rowLock>>

(* u ends without storing anything: its transaction, if any, rolls back. *)
RollBack(u, how) ==
  /\ pc' = [pc EXCEPT ![u] = how]
  /\ mine' = [mine EXCEPT ![u] = 0]
  /\ Unlock(u)
  /\ UNCHANGED <<limits, files, file, seen>>

-----------------------------------------------------------------------------
Init ==
  /\ quota \in Quotas
  /\ changes = 0
  /\ stored = 0
  /\ count = [x \in Targets |-> 0]
  /\ pc = [u \in Uploads |-> "idle"]
  /\ file = [u \in Uploads |-> 1]
  /\ seen = [u \in Uploads |-> Unlimited]
  /\ mine = [u \in Uploads |-> 0]
  /\ share = {}
  /\ updater = Nobody

(* post_message: BEGIN and INSERT INTO messages. *)
PostMessage(u) ==
  /\ pc[u] = "idle"
  /\ Kind[u] = "post"
  /\ ShareGranted(u)
  /\ share' = share \union {u}
  /\ pc' = [pc EXCEPT ![u] = IF Files[u] = <<>> THEN "commit" ELSE "lock"]
  /\ UNCHANGED <<limits, files, file, seen, mine, updater>>

(* attach_to_task and attach_to_message: the target is there, and its files *)
(* are counted, before any transaction begins.                              *)
CountFiles(u) ==
  /\ pc[u] = "idle"
  /\ Kind[u] # "post"
  /\ TargetExists(u)
  /\ pc' = [pc EXCEPT ![u] = IF count[Target[u]] >= PerTarget THEN "full" ELSE "lock"]
  /\ UNCHANGED <<limits, files, file, seen, mine, rowLock>>

(* Variant: the limit is read without FOR UPDATE. *)
ReadLimit(u) ==
  /\ pc[u] = "lock"
  /\ seen' = [seen EXCEPT ![u] = quota]
  /\ pc' = [pc EXCEPT ![u] = IF quota = Unlimited THEN "insert" ELSE "sum"]
  /\ UNCHANGED <<limits, files, file, mine, rowLock>>

(* Variant: FOR UPDATE NOWAIT. *)
LockOrFail(u) ==
  /\ pc[u] = "lock"
  /\ IF UpdateGranted(u)
     THEN /\ updater' = IF Transactional(u) THEN u ELSE updater
          /\ seen' = [seen EXCEPT ![u] = quota]
          /\ pc' = [pc EXCEPT ![u] = IF quota = Unlimited THEN "insert" ELSE "sum"]
          /\ UNCHANGED <<limits, files, file, mine, share>>
     ELSE RollBack(u, "victim")

(* check_attachment_quota: SELECT attachment_bytes_limit ... FOR UPDATE. *)
LockTeam(u) ==
  /\ pc[u] = "lock"
  /\ UpdateGranted(u)
  /\ updater' = IF Transactional(u) THEN u ELSE updater
  /\ seen' = [seen EXCEPT ![u] = quota]
  /\ pc' = [pc EXCEPT ![u] = IF quota = Unlimited THEN "insert" ELSE "sum"]
  /\ UNCHANGED <<limits, files, file, mine, share>>

(* Variant: the files the transaction already inserted are not counted. *)
FitsAlone(u) == stored + Size(u) <= seen[u]

(* used + incoming_bytes <= limit, where the sum sees the committed rows    *)
(* and the transaction's own.                                               *)
Fits(u) == stored + mine[u] + Size(u) <= seen[u]

SumFiles(u) ==
  /\ pc[u] = "sum"
  /\ IF Fits(u)
     THEN /\ pc' = [pc EXCEPT ![u] = "insert"]
          /\ UNCHANGED <<limits, files, file, seen, mine, rowLock>>
     ELSE RollBack(u, "refused")

(* INSERT INTO attachments inside a transaction. *)
InsertFile(u) ==
  /\ pc[u] = "insert"
  /\ Transactional(u)
  /\ ShareGranted(u)
  /\ share' = share \union {u}
  /\ mine' = [mine EXCEPT ![u] = @ + Size(u)]
  /\ file' = [file EXCEPT ![u] = @ + 1]
  /\ pc' = [pc EXCEPT ![u] = IF file[u] = Len(Files[u]) THEN "commit" ELSE "lock"]
  /\ UNCHANGED <<limits, files, seen, updater>>

(* The same INSERT on attach_to_message's bare connection: it commits. *)
InsertAlone(u) ==
  /\ pc[u] = "insert"
  /\ ~Transactional(u)
  /\ ShareGranted(u)
  /\ stored' = stored + Size(u)
  /\ count' = [count EXCEPT ![Target[u]] = @ + 1]
  /\ pc' = [pc EXCEPT ![u] = "stored"]
  /\ UNCHANGED <<limits, file, seen, mine, rowLock>>

(* COMMIT. *)
Commit(u) ==
  /\ pc[u] = "commit"
  /\ stored' = stored + mine[u]
  /\ count' = [count EXCEPT ![Target[u]] = @ + Len(Files[u])]
  /\ mine' = [mine EXCEPT ![u] = 0]
  /\ pc' = [pc EXCEPT ![u] = "stored"]
  /\ Unlock(u)
  /\ UNCHANGED <<limits, file, seen>>

(* Two posts hold the row FOR KEY SHARE and each waits to take it FOR       *)
(* UPDATE: the database makes one of them fail.                             *)
DeadlockVictim(u) ==
  /\ pc[u] = "lock"
  /\ u \in share
  /\ \E v \in share \ {u} : pc[v] = "lock"
  /\ RollBack(u, "victim")

(* A database error, the client's disconnection, the death of the server. *)
Abort(u) == Running(u) /\ RollBack(u, "aborted")

(* `team quota`: an UPDATE of the row, which only FOR UPDATE keeps out. *)
SetQuota(q) ==
  /\ changes < MaxQuotaChanges
  /\ q # quota
  /\ updater = Nobody
  /\ quota' = q
  /\ changes' = changes + 1
  /\ UNCHANGED <<files, pc, file, seen, mine, rowLock>>

Step(u) ==
  \/ LockTeam(u)
  \/ SumFiles(u)
  \/ InsertFile(u)
  \/ InsertAlone(u)
  \/ Commit(u)

Next ==
  \/ \E u \in Uploads : \/ PostMessage(u)
                        \/ CountFiles(u)
                        \/ Step(u)
                        \/ DeadlockVictim(u)
                        \/ Abort(u)
  \/ \E q \in Quotas : SetQuota(q)

(* The server runs the next statement of a call, the database grants a lock *)
(* that is free and finds deadlocks.  Nobody has to start an upload.        *)
Fairness ==
  /\ \A u \in Uploads : WF_vars(Step(u))
  /\ WF_vars(\E u \in Uploads : DeadlockVictim(u))

Spec == Init /\ [][Next]_vars /\ Fairness

-----------------------------------------------------------------------------
VariableTypes ==
  /\ quota \in (Nat \ {0}) \union {Unlimited}
  /\ changes \in Nat
  /\ stored \in Nat
  /\ count \in [Targets -> Nat]
  /\ pc \in [Uploads -> {"idle"} \union Statements \union Ended]
  /\ file \in [Uploads -> Nat \ {0}]
  /\ seen \in [Uploads -> (Nat \ {0}) \union {Unlimited}]
  /\ mine \in [Uploads -> Nat]
  /\ share \subseteq Uploads
  /\ updater \in Uploads \union {Nobody}

(* The row is locked FOR UPDATE by one transaction and nobody else then     *)
(* holds it; whoever holds it is running; one that is about to insert its   *)
(* file holds it FOR UPDATE, and one that is not running inserted nothing.  *)
LockShape ==
  /\ updater # Nobody =>
       share \subseteq {updater} /\ Running(updater) /\ Transactional(updater)
  /\ \A u \in share : Running(u) /\ Transactional(u)
  /\ \A u \in Uploads :
       /\ mine[u] > 0 \/ (Transactional(u) /\ pc[u] \in {"sum", "insert"}) => updater = u
       /\ pc[u] = "idle" => file[u] = 1 /\ mine[u] = 0
       /\ pc[u] \in {"lock", "sum", "insert"} => file[u] <= Len(Files[u])

(* The type of every variable, and who may hold the row of the team: an     *)
(* upload that dies, is refused or is sacrificed must not leave it locked.  *)
TypeOK == VariableTypes /\ LockShape

(* No transaction takes the team past its quota when it commits: not the    *)
(* sum of a post's files, not two uploads racing for the last room, and not *)
(* one that an operator's change of the quota or an attach_to_message       *)
(* overlaps.                                                                *)
CommitsWithinQuota ==
  [][\A u \in Uploads : pc[u] = "commit" /\ pc'[u] = "stored" /\ mine[u] > 0 =>
       quota' = Unlimited \/ stored' <= quota']_vars

(* Uploads that lose a deadlock lose it to somebody: when all is quiet and  *)
(* none was aborted from outside, one was stored or refused for lack of     *)
(* room, so racing posts cannot all fail.                                   *)
DeadlockSparesOne ==
  /\ \A u \in Uploads : ~Running(u) /\ pc[u] # "aborted"
  /\ \E u \in Uploads : pc[u] = "victim"
  => \E u \in Uploads : Files[u] # <<>> /\ pc[u] \in {"stored", "refused"}

(* Every upload that started ends, although each waits for the others' lock *)
(* on the row and posts can wait for each other.                            *)
EveryUploadEnds == \A u \in Uploads : Running(u) ~> pc[u] \in Ended

(* What the README says of the quota: "an upload that would cross the quota *)
(* is rejected", "concurrent uploads cannot both take the last slot".  The  *)
(* code breaks it in attach_to_message, whose check and insert do not share *)
(* a transaction.  (An operator may of course lower it below what is        *)
(* stored.)                                                                 *)
NeverOverQuota == changes = 0 /\ quota # Unlimited => stored <= quota
=============================================================================
