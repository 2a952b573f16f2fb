------------------------- MODULE Attachments_proofs -------------------------
(***************************************************************************)
(* The quota of attachments holds at every commit of a transaction, for    *)
(* any uploads, sizes, quotas and changes of them; and the row of the team *)
(* that uploads meet on neither fails them all nor stops them all.         *)
(***************************************************************************)
EXTENDS Attachments, TLAPS

(* What a transaction has read is still true: its limit is the team's, and  *)
(* what it inserted, with the file it is about to insert, fits.             *)
Reserved ==
  \A u \in Uploads : Transactional(u) =>
    /\ pc[u] = "sum" => seen[u] = quota /\ quota # Unlimited
    /\ pc[u] = "insert" => quota = Unlimited \/ stored + mine[u] + Size(u) <= quota
    /\ mine[u] > 0 => quota = Unlimited \/ stored + mine[u] <= quota

IInv == TypeOK /\ Reserved

-----------------------------------------------------------------------------
(* The file an upload is storing has a positive size. *)
LEMMA SizeIsPositive ==
  ASSUME TypeOK, NEW u \in Uploads, pc[u] \in {"lock", "sum", "insert"}
  PROVE  Size(u) \in Nat \ {0}
<1>1. file[u] \in 1..Len(Files[u])
  BY UploadsAssumption DEF TypeOK, VariableTypes, LockShape
<1>2. Files[u] \in Seq(Nat \ {0})
  BY UploadsAssumption
<1> QED
  BY <1>1, <1>2 DEF Size

LEMMA TargetType == Nobody \notin Uploads /\ \A u \in Uploads : Target[u] \in Targets
BY UploadsAssumption

(* The state the server starts in. *)
LEMMA InitOK == Init => IInv
<1> SUFFICES ASSUME Init PROVE IInv
  OBVIOUS
<1>1. VariableTypes
  BY UploadsAssumption, QuotasAssumption DEF Init, VariableTypes, Statements, Ended
<1>2. LockShape
  BY UploadsAssumption DEF Init, LockShape
<1>3. Reserved
  BY DEF Init, Reserved
<1> QED
  BY <1>1, <1>2, <1>3 DEF IInv, TypeOK

-----------------------------------------------------------------------------
(* A transaction that ends gives back what it holds, however it ends. *)
LEMMA RollBackKeeps ==
  ASSUME IInv, NEW u \in Uploads, NEW how \in Ended, RollBack(u, how)
  PROVE  IInv'
<1> USE UploadsAssumption
<1>1. VariableTypes'
  BY DEF IInv, TypeOK, VariableTypes, RollBack, Unlock, limits, files
<1>2. LockShape'
  BY DEF IInv, TypeOK, VariableTypes, LockShape, RollBack, Unlock, limits, files,
         Running, Statements, Ended, Transactional
<1>3. Reserved'
  BY DEF IInv, TypeOK, VariableTypes, Reserved, RollBack, Unlock, limits, files,
         Ended, Transactional, Size
<1> QED
  BY <1>1, <1>2, <1>3 DEF IInv, TypeOK

LEMMA PostMessageKeeps ==
  ASSUME IInv, NEW u \in Uploads, PostMessage(u)
  PROVE  IInv'
<1> USE UploadsAssumption DEF PostMessage, limits, files, ShareGranted
<1>1. VariableTypes'
  BY DEF IInv, TypeOK, VariableTypes, Statements
<1>2. Files[u] # <<>> => 1 <= Len(Files[u])
  <2>1. Files[u] \in Seq(Nat \ {0})
    OBVIOUS
  <2> QED
    BY <2>1
<1>3. updater = Nobody
  BY DEF IInv, TypeOK, VariableTypes, LockShape, Running, Statements
<1>4. LockShape'
  BY <1>2, <1>3 DEF IInv, TypeOK, VariableTypes, LockShape, Running, Statements, Transactional
<1>5. Reserved'
  BY DEF IInv, TypeOK, VariableTypes, Reserved, Transactional, Size
<1> QED
  BY <1>1, <1>4, <1>5 DEF IInv, TypeOK

LEMMA CountFilesKeeps ==
  ASSUME IInv, NEW u \in Uploads, CountFiles(u)
  PROVE  IInv'
<1> USE DEF CountFiles, limits, files, rowLock
<1>1. VariableTypes'
  BY DEF IInv, TypeOK, VariableTypes, Statements, Ended
<1>0. Len(Files[u]) = 1
  BY UploadsAssumption
<1>2. LockShape'
  <2>1. pc' \in [Uploads -> {"idle"} \union Statements \union Ended]
        /\ (pc'[u] = "full" \/ pc'[u] = "lock")
        /\ \A v \in Uploads \ {u} : pc'[v] = pc[v]
    BY DEF IInv, TypeOK, VariableTypes, Statements, Ended
  <2>2. u \notin share /\ updater # u /\ file[u] = 1 /\ mine[u] = 0
    BY TargetType DEF IInv, TypeOK, LockShape, Running, Statements
  <2>3. UNCHANGED <<file, mine, share, updater>>
    OBVIOUS
  <2> HIDE DEF CountFiles
  <2>4. updater' # Nobody =>
          share' \subseteq {updater'} /\ Running(updater)' /\ Transactional(updater')
    BY <2>1, <2>2, <2>3 DEF IInv, TypeOK, VariableTypes, LockShape, Running, Statements
  <2>5. \A v \in share' : Running(v)' /\ Transactional(v)
    BY <2>1, <2>2, <2>3 DEF IInv, TypeOK, VariableTypes, LockShape, Running, Statements
  <2>6. ASSUME NEW v \in Uploads
        PROVE  /\ mine'[v] > 0 \/ (Transactional(v) /\ pc'[v] \in {"sum", "insert"})
                    => updater' = v
               /\ pc'[v] = "idle" => file'[v] = 1 /\ mine'[v] = 0
               /\ pc'[v] \in {"lock", "sum", "insert"} => file'[v] <= Len(Files[v])
    BY <1>0, <2>1, <2>2, <2>3 DEF IInv, TypeOK, LockShape
  <2> QED
    BY <2>4, <2>5, <2>6 DEF LockShape, Transactional
<1>3. Reserved'
  BY DEF IInv, TypeOK, VariableTypes, Reserved, Transactional, Size
<1> QED
  BY <1>1, <1>2, <1>3 DEF IInv, TypeOK

(* Whoever takes the row FOR UPDATE finds nobody else there. *)
LEMMA LockTeamKeeps ==
  ASSUME IInv, NEW u \in Uploads, LockTeam(u)
  PROVE  IInv'
<1> USE UploadsAssumption DEF LockTeam, limits, files, UpdateGranted
<1>1. VariableTypes'
  BY DEF IInv, TypeOK, VariableTypes, Statements
<1>2. LockShape'
  BY DEF IInv, TypeOK, VariableTypes, LockShape, Running, Statements, Transactional
<1>3. Reserved'
  BY DEF IInv, TypeOK, VariableTypes, Reserved, Transactional, Size
<1> QED
  BY <1>1, <1>2, <1>3 DEF IInv, TypeOK

LEMMA SumFilesKeeps ==
  ASSUME IInv, NEW u \in Uploads, SumFiles(u)
  PROVE  IInv'
<1>1. CASE ~Fits(u)
  BY <1>1, RollBackKeeps DEF SumFiles, Ended
<1>2. CASE Fits(u)
  <2> USE DEF SumFiles, limits, files, rowLock
  <2>1. VariableTypes'
    BY <1>2 DEF IInv, TypeOK, VariableTypes, Statements
  <2>2. LockShape'
    BY <1>2 DEF IInv, TypeOK, VariableTypes, LockShape, Running, Statements, Transactional
  <2>3. Reserved'
    BY <1>2 DEF IInv, TypeOK, VariableTypes, Reserved, Transactional, Size, Fits
  <2> QED
    BY <2>1, <2>2, <2>3 DEF IInv, TypeOK
<1> QED
  BY <1>1, <1>2

LEMMA InsertFileKeeps ==
  ASSUME IInv, NEW u \in Uploads, InsertFile(u)
  PROVE  IInv'
<1> USE UploadsAssumption DEF InsertFile, limits, files, ShareGranted
<1>1. Size(u) \in Nat \ {0}
  BY SizeIsPositive DEF IInv
<1>2. VariableTypes'
  BY <1>1 DEF IInv, TypeOK, VariableTypes, Statements
<1>3. updater = u
  BY DEF IInv, TypeOK, LockShape
<1>4. Len(Files[u]) \in Nat
  <2>1. Files[u] \in Seq(Nat \ {0})
    OBVIOUS
  <2> QED
    BY <2>1
<1>5. LockShape'
  BY <1>1, <1>3, <1>4 DEF IInv, TypeOK, VariableTypes, LockShape, Running, Statements,
                          Transactional
<1>6. Reserved'
  <2> SUFFICES ASSUME NEW v \in Uploads, Transactional(v)
               PROVE  /\ pc'[v] = "sum" => seen'[v] = quota' /\ quota' # Unlimited
                      /\ pc'[v] = "insert" =>
                           quota' = Unlimited \/ stored' + mine'[v] + Size(v)' <= quota'
                      /\ mine'[v] > 0 => quota' = Unlimited \/ stored' + mine'[v] <= quota'
    BY DEF Reserved, Transactional
  <2>1. CASE v = u
    BY <1>1, <2>1 DEF IInv, TypeOK, VariableTypes, Reserved, Size
  <2>2. CASE v # u
    BY <2>2 DEF IInv, TypeOK, VariableTypes, Reserved, Size
  <2> QED
    BY <2>1, <2>2
<1> QED
  BY <1>2, <1>5, <1>6 DEF IInv, TypeOK

(* A file stored without a transaction finds no transaction past its check. *)
LEMMA InsertAloneKeeps ==
  ASSUME IInv, NEW u \in Uploads, InsertAlone(u)
  PROVE  IInv'
<1> USE DEF InsertAlone, limits, files, rowLock, ShareGranted
<1>1. Size(u) \in Nat \ {0}
  BY SizeIsPositive DEF IInv
<1>2. VariableTypes'
  <2>1. stored' \in Nat /\ count' \in [Targets -> Nat]
    BY <1>1, TargetType DEF IInv, TypeOK, VariableTypes
  <2> QED
    BY <2>1 DEF IInv, TypeOK, VariableTypes, Ended
<1>3. updater = Nobody
  BY DEF IInv, TypeOK, LockShape
<1>4. LockShape'
  BY <1>3 DEF IInv, TypeOK, VariableTypes, LockShape, Running, Statements, Transactional
<1>5. Reserved'
  BY <1>3, TargetType DEF IInv, TypeOK, VariableTypes, LockShape, Reserved, Transactional, Size
<1> QED
  BY <1>2, <1>4, <1>5 DEF IInv, TypeOK

(* A commit of files finds no other transaction past its check. *)
LEMMA CommitKeeps ==
  ASSUME IInv, NEW u \in Uploads, Commit(u)
  PROVE  IInv'
<1> USE DEF Commit, limits, Unlock
<1>1. Len(Files[u]) \in Nat
  <2>1. Files[u] \in Seq(Nat \ {0})
    BY UploadsAssumption
  <2> QED
    BY <2>1
<1>2. VariableTypes'
  <2>1. stored' \in Nat /\ count' \in [Targets -> Nat] /\ mine' \in [Uploads -> Nat]
    BY <1>1, TargetType DEF IInv, TypeOK, VariableTypes
  <2> QED
    BY <2>1 DEF IInv, TypeOK, VariableTypes, Ended
<1>3. LockShape'
  BY DEF IInv, TypeOK, VariableTypes, LockShape, Running, Statements, Transactional
<1>4. Reserved'
  <2>1. CASE mine[u] = 0
    BY <2>1 DEF IInv, TypeOK, VariableTypes, Reserved, Transactional, Size
  <2>2. CASE mine[u] > 0
    <3>1. \A v \in Uploads \ {u} : Transactional(v) =>
            pc[v] \notin {"sum", "insert"} /\ mine[v] = 0
      BY <2>2 DEF IInv, TypeOK, VariableTypes, LockShape, Transactional, Running
    <3> QED
      BY <3>1 DEF IInv, TypeOK, VariableTypes, Reserved, Transactional, Size
  <2> QED
    BY <2>1, <2>2 DEF IInv, TypeOK, VariableTypes
<1> QED
  BY <1>2, <1>3, <1>4 DEF IInv, TypeOK

(* The operator's UPDATE waits for whoever read the quota. *)
LEMMA SetQuotaKeeps ==
  ASSUME IInv, NEW q \in Quotas, SetQuota(q)
  PROVE  IInv'
<1> USE UploadsAssumption, QuotasAssumption DEF SetQuota, files, rowLock
<1>1. VariableTypes'
  BY DEF IInv, TypeOK, VariableTypes
<1>2. LockShape'
  BY DEF IInv, TypeOK, LockShape, Running, Transactional
<1>3. Reserved'
  BY DEF IInv, TypeOK, VariableTypes, LockShape, Reserved, Transactional, Size
<1> QED
  BY <1>1, <1>2, <1>3 DEF IInv, TypeOK

LEMMA StutterKeeps == IInv /\ UNCHANGED vars => IInv'
BY DEF IInv, TypeOK, VariableTypes, LockShape, Reserved, vars, limits, files, rowLock,
       Running, Transactional, Size

LEMMA NextKeeps == IInv /\ [Next]_vars => IInv'
<1> SUFFICES ASSUME IInv, [Next]_vars PROVE IInv'
  OBVIOUS
<1>1. CASE UNCHANGED vars
  BY <1>1, StutterKeeps
<1>2. ASSUME NEW q \in Quotas, SetQuota(q) PROVE IInv'
  BY <1>2, SetQuotaKeeps
<1>3. ASSUME NEW u \in Uploads, Step(u) PROVE IInv'
  BY <1>3, LockTeamKeeps, SumFilesKeeps, InsertFileKeeps, InsertAloneKeeps, CommitKeeps
     DEF Step
<1>4. ASSUME NEW u \in Uploads, PostMessage(u) \/ CountFiles(u) PROVE IInv'
  BY <1>4, PostMessageKeeps, CountFilesKeeps
<1>5. ASSUME NEW u \in Uploads, DeadlockVictim(u) \/ Abort(u) PROVE IInv'
  BY <1>5, RollBackKeeps DEF DeadlockVictim, Abort, Ended
<1> QED
  BY <1>1, <1>2, <1>3, <1>4, <1>5 DEF Next

(* The invariant holds in every reachable state. *)
LEMMA Invariance == Spec => []IInv
BY InitOK, NextKeeps, PTL DEF Spec

-----------------------------------------------------------------------------
(* TypeOK: the types of the variables, and that the row of the team is held *)
(* as SELECT ... FOR UPDATE and the foreign keys say, whatever dies.        *)
THEOREM TypeCorrect == Spec => []TypeOK
<1>1. IInv => TypeOK
  BY DEF IInv
<1> QED
  BY <1>1, Invariance, PTL

(* check_attachment_quota: no transaction commits past the quota.           *)
THEOREM QuotaHolds == Spec => CommitsWithinQuota
<1>1. ASSUME IInv, [Next]_vars
      PROVE  [\A u \in Uploads : pc[u] = "commit" /\ pc'[u] = "stored" /\ mine[u] > 0 =>
                quota' = Unlimited \/ stored' <= quota']_vars
  <2> SUFFICES ASSUME Next, NEW u \in Uploads,
                      pc[u] = "commit", pc'[u] = "stored", mine[u] > 0
               PROVE  quota' = Unlimited \/ stored' <= quota'
    BY <1>1
  <2>1. Commit(u)
    <3>1. ASSUME NEW v \in Uploads, PostMessage(v) \/ CountFiles(v) PROVE FALSE
      BY <3>1, <1>1 DEF PostMessage, CountFiles, IInv, TypeOK, VariableTypes
    <3>2. ASSUME NEW v \in Uploads, LockTeam(v) \/ SumFiles(v) \/ InsertFile(v) \/ InsertAlone(v)
          PROVE  FALSE
      BY <3>2, <1>1 DEF LockTeam, SumFiles, InsertFile, InsertAlone, RollBack,
                        IInv, TypeOK, VariableTypes
    <3>3. ASSUME NEW v \in Uploads, DeadlockVictim(v) \/ Abort(v) PROVE FALSE
      BY <3>3, <1>1 DEF DeadlockVictim, Abort, RollBack, IInv, TypeOK, VariableTypes
    <3>4. ASSUME NEW q \in Quotas, SetQuota(q) PROVE FALSE
      BY <3>4 DEF SetQuota
    <3>5. ASSUME NEW v \in Uploads, Commit(v) PROVE v = u
      BY <3>5, <1>1 DEF Commit, IInv, TypeOK, VariableTypes
    <3> QED
      BY <3>1, <3>2, <3>3, <3>4, <3>5 DEF Next, Step
  <2>2. Transactional(u)
    BY <1>1, TargetType DEF IInv, TypeOK, LockShape
  <2> QED
    BY <1>1, <2>1, <2>2 DEF Commit, limits, IInv, Reserved
<1> QED
  BY <1>1, Invariance, PTL DEF Spec, CommitsWithinQuota

-----------------------------------------------------------------------------
(* An upload that has begun and neither lost a deadlock nor found its target *)
(* full.                                                                     *)
Alive(u) == pc[u] \in Statements \union {"stored", "refused", "aborted"}

(* Wherever an upload lost a deadlock, one with files is left that did not.  *)
Survivor ==
  (\E u \in Uploads : pc[u] = "victim") =>
    \E u \in Uploads : Files[u] # <<>> /\ Alive(u)

(* Whoever waits for the row has a file to store. *)
LEMMA WaiterHasFiles ==
  ASSUME TypeOK, NEW u \in Uploads, pc[u] = "lock"
  PROVE  Files[u] # <<>>
<1>1. file[u] \in Nat \ {0} /\ file[u] <= Len(Files[u])
  BY DEF TypeOK, VariableTypes, LockShape
<1> QED
  BY <1>1

(* A deadlock that costs one its transaction leaves the one it waited for.  *)
LEMMA VictimSparesAnother ==
  ASSUME TypeOK, NEW u \in Uploads, DeadlockVictim(u)
  PROVE  \E v \in Uploads : Files[v] # <<>> /\ Alive(v)'
<1>1. PICK v \in share \ {u} : pc[v] = "lock"
  BY DEF DeadlockVictim
<1>2. v \in Uploads /\ pc'[v] = "lock"
  BY <1>1 DEF TypeOK, VariableTypes, DeadlockVictim, RollBack
<1>3. Files[v] # <<>>
  BY <1>1, <1>2, WaiterHasFiles
<1> QED
  BY <1>2, <1>3 DEF Alive, Statements

(* Any other step of an upload leaves the uploads alive that were, and costs *)
(* nobody a deadlock.                                                        *)
LEMMA OthersLiveOn ==
  ASSUME TypeOK, NEW u \in Uploads,
         PostMessage(u) \/ CountFiles(u) \/ Step(u) \/ Abort(u)
  PROVE  \A v \in Uploads : /\ Alive(v) => Alive(v)'
                            /\ pc'[v] = "victim" => pc[v] = "victim"
<1> SUFFICES ASSUME NEW v \in Uploads
             PROVE  /\ Alive(v) => Alive(v)'
                    /\ pc'[v] = "victim" => pc[v] = "victim"
  OBVIOUS
<1> USE DEF Alive, Statements, TypeOK, VariableTypes
<1>1. CASE PostMessage(u) \/ CountFiles(u)
  BY <1>1 DEF PostMessage, CountFiles
<1>2. CASE LockTeam(u) \/ InsertFile(u) \/ InsertAlone(u) \/ Commit(u)
  BY <1>2 DEF LockTeam, InsertFile, InsertAlone, Commit
<1>3. CASE SumFiles(u) \/ Abort(u)
  BY <1>3 DEF SumFiles, Abort, RollBack
<1> QED
  BY <1>1, <1>2, <1>3 DEF Step

LEMMA SurvivorKeeps == TypeOK /\ Survivor /\ [Next]_vars => Survivor'
<1> SUFFICES ASSUME TypeOK, Survivor, [Next]_vars PROVE Survivor'
  OBVIOUS
<1>1. ASSUME NEW u \in Uploads, DeadlockVictim(u) PROVE Survivor'
  BY <1>1, VictimSparesAnother DEF Survivor
<1>2. ASSUME NEW u \in Uploads, PostMessage(u) \/ CountFiles(u) \/ Step(u) \/ Abort(u)
      PROVE  Survivor'
  BY <1>2, OthersLiveOn DEF Survivor
<1>3. ASSUME UNCHANGED pc PROVE Survivor'
  BY <1>3 DEF Survivor, Alive
<1> QED
  BY <1>1, <1>2, <1>3 DEF Next, SetQuota, vars

(* Racing posts cannot all fail: when every upload has ended and none was   *)
(* aborted from outside, a deadlock that cost one its transaction left one   *)
(* that was stored or refused for lack of room.                              *)
THEOREM DeadlockCostsNotAll == Spec => []DeadlockSparesOne
<1>1. Init => Survivor
  BY DEF Init, Survivor
<1>2. TypeOK /\ Survivor => DeadlockSparesOne
  BY DEF Survivor, Alive, DeadlockSparesOne, Running
<1> QED
  BY <1>1, <1>2, SurvivorKeeps, TypeCorrect, PTL DEF Spec
-----------------------------------------------------------------------------
(* The next statement of u finds the row of the team free for it: the guard *)
(* of Step(u).                                                              *)
CanRun(u) ==
  \/ pc[u] = "lock" /\ UpdateGranted(u)
  \/ pc[u] = "sum"
  \/ pc[u] = "insert" /\ ShareGranted(u)
  \/ pc[u] = "commit"

(* The database may end a deadlock at u: the guard of DeadlockVictim(u). *)
CanBeVictim(u) ==
  pc[u] = "lock" /\ u \in share /\ \E v \in share \ {u} : pc[v] = "lock"

NoStandstill ==
  (\E u \in Uploads : Running(u)) =>
    \E u \in Uploads : CanRun(u) \/ CanBeVictim(u)

(* Uploads never all wait for each other's lock on the row of the team: as  *)
(* long as one runs, one can go on, or the database sees a deadlock among   *)
(* posts and ends it.  It is what EveryUploadEnds needs besides fairness.   *)
THEOREM UploadsNeverStandStill == Spec => []NoStandstill
<1>1. TypeOK => NoStandstill
  <2> SUFFICES ASSUME TypeOK, NEW u \in Uploads, Running(u)
               PROVE  \E v \in Uploads : CanRun(v) \/ CanBeVictim(v)
    BY DEF NoStandstill
  <2>1. CASE updater # Nobody
    <3>1. updater \in Uploads /\ Running(updater) /\ share \subseteq {updater}
      BY <2>1 DEF TypeOK, VariableTypes, LockShape
    <3>2. CanRun(updater)
      BY <3>1 DEF CanRun, Running, Statements, UpdateGranted, ShareGranted
    <3> QED
      BY <3>1, <3>2
  <2>2. CASE updater = Nobody /\ \E v \in Uploads : pc[v] \in {"sum", "insert", "commit"}
    BY <2>2 DEF CanRun, ShareGranted
  <2>3. CASE updater = Nobody /\ \A v \in Uploads : pc[v] \notin {"sum", "insert", "commit"}
    <3>1. \A v \in Uploads : Running(v) => pc[v] = "lock"
      BY <2>3 DEF Running, Statements
    <3>2. \A v \in share : v \in Uploads /\ pc[v] = "lock"
      BY <3>1 DEF TypeOK, VariableTypes, LockShape
    <3>3. CASE share \subseteq {u}
      BY <2>3, <3>1, <3>3 DEF CanRun, UpdateGranted
    <3>4. CASE \E v \in share : share \subseteq {v}
      BY <2>3, <3>2, <3>4 DEF CanRun, UpdateGranted
    <3>5. CASE share # {} /\ \A v \in share : \E x \in share \ {v} : TRUE
      BY <3>2, <3>5 DEF CanBeVictim
    <3> QED
      BY <3>3, <3>4, <3>5
  <2> QED
    BY <2>1, <2>2, <2>3
<1> QED
  BY <1>1, TypeCorrect, PTL
=============================================================================
