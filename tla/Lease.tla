------------------------------- MODULE Lease -------------------------------
(***************************************************************************)
(* What the bus promises about anything that is held for a while: a task   *)
(* claim (src/store/tasks.rs) or an advisory lock (src/store/locks.rs).    *)
(*                                                                         *)
(* A resource has at most one owner.  A new owner takes it only when it is *)
(* free or the current lease has run out; a lease is never granted already *)
(* expired; a retired resource (a completed task) is never owned again.    *)
(* Nothing is said of requests, statements, sessions or rows: Tasks and    *)
(* Locks are shown to implement this module.                               *)
(***************************************************************************)
EXTENDS Integers

CONSTANTS Resources,  \* what can be held
          Holders,    \* who can hold it
          Nobody,     \* the owner of a free resource
          NoLease     \* the expiry of a free resource

VARIABLES now,        \* the database clock
          owner,      \* owner[r]: its holder, or Nobody
          until,      \* until[r]: when its lease runs out, or NoLease
          retired     \* the resources that can no longer be held

leaseVars == <<now, owner, until, retired>>

Init ==
  /\ now \in Nat
  /\ owner = [r \in Resources |-> Nobody]
  /\ until = [r \in Resources |-> NoLease]
  /\ retired = {}

(* r is free, already h's, or its lease has run out. *)
Available(r, h) == owner[r] \in {Nobody, h} \/ until[r] < now

(* h starts to hold r, or extends its hold, until some later moment. *)
Take(r, h) ==
  /\ r \notin retired
  /\ Available(r, h)
  /\ until'[r] > now
  /\ owner' = [owner EXCEPT ![r] = h]
  /\ until' = [until EXCEPT ![r] = until'[r]]
  /\ UNCHANGED <<now, retired>>

Free(r) ==
  /\ owner' = [owner EXCEPT ![r] = Nobody]
  /\ until' = [until EXCEPT ![r] = NoLease]

Leave(r) == Free(r) /\ UNCHANGED <<now, retired>>

Retire(r) ==
  /\ Free(r)
  /\ retired' = retired \union {r}
  /\ UNCHANGED now

Advance ==
  /\ now' > now
  /\ UNCHANGED <<owner, until, retired>>

Next ==
  \/ \E r \in Resources, h \in Holders : Take(r, h)
  \/ \E r \in Resources : Leave(r) \/ Retire(r)
  \/ Advance

Spec == Init /\ [][Next]_leaseVars
=============================================================================
