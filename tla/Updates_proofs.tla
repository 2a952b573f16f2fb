--------------------------- MODULE Updates_proofs ---------------------------
(***************************************************************************)
(* That nothing slips between the database and the hub, for any number of  *)
(* callers and events, any capacity of the receivers, and a listener that  *)
(* may break at any time.                                                  *)
(***************************************************************************)
EXTENDS Updates, FiniteSetTheorems, TLAPS

(* From its look at the database on, a call is covered: what it would have  *)
(* to find there is on its way to it.  Only who has somebody to ask asks.   *)
CoveredCall(c) ==
  /\ call[c].at \in {"post", "look", "looked", "block"} => AskTo[c] # None
  /\ call[c].at \in {"checked", "wait"} /\ "message" \in call[c].kinds =>
       \A e \in Backlog(c) : Coming(e, c)
  /\ call[c].at \in {"looked", "block"} => \A e \in Answers(c) : Coming(e, c)

Covered == \A c \in Clients : CoveredCall(c)

(* The inductive invariant of the waiting calls. *)
IInv == TypeOK /\ Covered

-----------------------------------------------------------------------------
(* What putting an event on a queue, and taking one off, does to what is    *)
(* on it.                                                                   *)
LEMMA ElementsAppend ==
  ASSUME NEW S, NEW s \in Seq(S), NEW x \in S
  PROVE  /\ Append(s, x) \in Seq(S)
         /\ Len(Append(s, x)) = Len(s) + 1
         /\ Elements(Append(s, x)) = Elements(s) \union {x}
<1>1. Append(s, x) \in Seq(S) /\ Len(Append(s, x)) = Len(s) + 1
  OBVIOUS
<1>2. /\ \A i \in 1..Len(s) : Append(s, x)[i] = s[i]
      /\ Append(s, x)[Len(s) + 1] = x
      /\ 1..(Len(s) + 1) = 1..Len(s) \union {Len(s) + 1}
  OBVIOUS
<1> QED
  BY <1>1, <1>2 DEF Elements

LEMMA ElementsTail ==
  ASSUME NEW S, NEW s \in Seq(S), s # <<>>
  PROVE  /\ Tail(s) \in Seq(S) /\ Head(s) \in S
         /\ Len(Tail(s)) = Len(s) - 1 /\ Len(s) > 0
         /\ \A i \in 1..Len(Tail(s)) : Tail(s)[i] = s[i + 1]
         /\ Head(s) = s[1]
         /\ Elements(s) = {Head(s)} \union Elements(Tail(s))
<1>1. /\ Tail(s) \in Seq(S) /\ Head(s) \in S /\ Len(Tail(s)) = Len(s) - 1 /\ Len(s) > 0
      /\ Head(s) = s[1]
      /\ \A i \in 1..Len(Tail(s)) : Tail(s)[i] = s[i + 1]
  OBVIOUS
<1>2. Elements(s) \subseteq {Head(s)} \union Elements(Tail(s))
  <2> SUFFICES ASSUME NEW i \in 1..Len(s) PROVE s[i] \in {Head(s)} \union Elements(Tail(s))
    BY DEF Elements
  <2>1. CASE i = 1
    BY <1>1, <2>1
  <2>2. CASE i # 1
    <3>1. i - 1 \in 1..Len(Tail(s)) /\ Tail(s)[i - 1] = s[i]
      BY <1>1, <2>2
    <3> QED
      BY <3>1 DEF Elements
  <2> QED
    BY <2>1, <2>2
<1>3. Elements(Tail(s)) \subseteq Elements(s)
  <2> SUFFICES ASSUME NEW i \in 1..Len(Tail(s)) PROVE Tail(s)[i] \in Elements(s)
    BY DEF Elements
  <2>1. i + 1 \in 1..Len(s) /\ Tail(s)[i] = s[i + 1]
    BY <1>1
  <2> QED
    BY <2>1 DEF Elements
<1>4. Head(s) \in Elements(s)
  BY <1>1 DEF Elements
<1> QED
  BY <1>1, <1>2, <1>3, <1>4

LEMMA EmptySeq == ASSUME NEW S PROVE <<>> \in Seq(S)
OBVIOUS

LEMMA ElementsEmpty == Elements(<<>>) = {}
BY DEF Elements

(* Reporting a backlog the wait would not wake for is a lie: whatever       *)
(* unread_anything counts passes the wake filter.                           *)
LEMMA BacklogWakes ==
  ASSUME TypeOK, NEW c \in Clients, "message" \in call[c].kinds, NEW e \in Backlog(c)
  PROVE  e \in Messages /\ Wakes(e, c)
<1>1. e \in Messages /\ From[e] # Identity[c]
  BY DEF Backlog
<1>2. VisibleTo(e, Identity[c])
  <2>1. SUFFICES ASSUME To[e] \in Direct PROVE ForSession(e, Identity[c])
    BY DEF VisibleTo, IsDirect
  <2>2. To[e] \notin Channels
    BY <1>1, <2>1, UpdatesAssumption
  <2> QED
    BY <2>2 DEF Backlog
<1>3. InFocus(e, call[c].focus)
  BY UpdatesAssumption DEF Backlog, InFocus
<1> QED
  BY <1>1, <1>2, <1>3 DEF Wakes, KindOf

(* Whatever find_answer would return makes ask_agent look. *)
LEMMA AnswersLook ==
  ASSUME NEW c \in Clients, NEW e \in Answers(c) PROVE LooksLikeAnswer(e, c)
BY DEF Answers, LooksLikeAnswer

-----------------------------------------------------------------------------
LEMMA InvInit == Init => IInv
BY ElementsEmpty, UpdatesAssumption
   DEF Init, IInv, TypeOK, VariableTypes, BusShape, Covered, CoveredCall, IdleCall, Stages, Subscribed

(* A commit is noted at once: on the wire, or as lost. *)
LEMMA CommitType ==
  ASSUME TypeOK, NEW e \in Events, Commit(e)
  PROVE  /\ id' \in [Events -> Nat] /\ wire' \in Seq(Events) /\ up' = up
         /\ lost' \subseteq Events /\ faults' = faults
         /\ e \notin Committed /\ Committed' = Committed \union {e}
         /\ Elements(wire') \union lost' = Elements(wire) \union lost \union {e}
         /\ Elements(wire') \intersect lost' = {}
         /\ ~up' => wire' = <<>>
         /\ \A i, j \in 1..Len(wire') : wire'[i] = wire'[j] => i = j
         /\ \A f \in Events : f # e => id'[f] = id[f]
<1> USE DEF TypeOK, VariableTypes, BusShape
<1>1. IsFiniteSet(Committed)
  BY UpdatesAssumption, FS_Subset DEF Committed
<1>2. Cardinality(Committed) \in Nat
  BY <1>1, FS_CardinalityType
<1>3. /\ id' = [id EXCEPT ![e] = Cardinality(Committed) + 1]
      /\ id[e] = 0
  BY DEF Commit
<1>4. /\ id' \in [Events -> Nat] /\ id'[e] > 0
      /\ \A f \in Events : f # e => id'[f] = id[f]
  BY <1>2, <1>3
<1>5. e \notin Committed /\ Committed' = Committed \union {e}
  <2>1. \A f \in Events : id'[f] > 0 <=> id[f] > 0 \/ f = e
    BY <1>4
  <2>2. ~(id[e] > 0)
    BY <1>3
  <2> HIDE DEF TypeOK
  <2> QED
    BY <2>1, <2>2 DEF Committed
<1>6. CASE up
  <2>1. wire' = Append(wire, e) /\ lost' = lost /\ UNCHANGED <<up, faults>>
    BY <1>6 DEF Commit
  <2>2. /\ wire' \in Seq(Events) /\ Len(wire') = Len(wire) + 1
        /\ Elements(wire') = Elements(wire) \union {e}
    BY <2>1, ElementsAppend
  <2>3. e \notin Elements(wire) /\ e \notin lost
    BY <1>5
  <2>4. \A i, j \in 1..Len(wire') : wire'[i] = wire'[j] => i = j
    <3>1. \A i \in 1..Len(wire) : wire[i] # e /\ wire'[i] = wire[i]
      BY <2>1, <2>3 DEF Elements
    <3>2. wire'[Len(wire) + 1] = e
      BY <2>1
    <3> TAKE i, j \in 1..Len(wire')
    <3>3. (i \in 1..Len(wire) \/ i = Len(wire) + 1) /\ (j \in 1..Len(wire) \/ j = Len(wire) + 1)
      BY <2>2
    <3> QED
      BY <3>1, <3>2, <3>3
  <2> QED
    BY <1>4, <1>5, <1>6, <2>1, <2>2, <2>3, <2>4
<1>7. CASE ~up
  <2>1. wire' = wire /\ lost' = lost \union {e} /\ UNCHANGED <<up, faults>>
    BY <1>7 DEF Commit
  <2> QED
    BY <1>4, <1>5, <1>7, <2>1, ElementsEmpty
<1> QED
  BY <1>6, <1>7

-----------------------------------------------------------------------------
Calls == [at : Stages, focus : Channels \union {None}, kinds : SUBSET {"message", "other"},
          dropped : SUBSET Events, failed : SUBSET Events]

(* A call stays covered while nothing commits and what is coming keeps      *)
(* coming; cursors only rise.                                               *)
LEMMA StaysCovered ==
  ASSUME TypeOK, TypeOK', NEW c \in Clients, CoveredCall(c), id' = id,
         call'[c] = call[c], cursor[Identity[c]] <= cursor'[Identity[c]],
         \A e \in Events : Coming(e, c) => Coming(e, c)'
  PROVE  CoveredCall(c)'
<1>1. Backlog(c)' \subseteq Backlog(c)
  <2>1. /\ cursor[Identity[c]] \in Nat /\ cursor'[Identity[c]] \in Nat
        /\ \A e \in Messages : id[e] \in Nat
    BY UpdatesAssumption DEF TypeOK, VariableTypes
  <2> QED
    BY <2>1 DEF Backlog, Committed
<1>2. Answers(c)' = Answers(c)
  BY DEF Answers, Committed
<1>3. Backlog(c) \subseteq Events /\ Answers(c) \subseteq Events
  BY DEF Backlog, Answers, Committed
<1> QED
  BY <1>1, <1>2, <1>3 DEF CoveredCall

(* What has just committed is on the wire or lost, so every call stays      *)
(* covered; one that has not looked yet needs no cover.                     *)
LEMMA CommitCovered ==
  ASSUME TypeOK, NEW e \in Events, Commit(e), NEW c \in Clients, CoveredCall(c),
         call'[c] = call[c], call[c].at \in {"looked", "block"} => Question[c] # e,
         queue' = queue, lagged' = lagged, cursor' = cursor
  PROVE  CoveredCall(c)'
<1>1. /\ Committed' = Committed \union {e}
      /\ Elements(wire') \union lost' = Elements(wire) \union lost \union {e}
      /\ \A f \in Events : f # e => id'[f] = id[f]
  BY CommitType
<1>2. \A f \in Events : Coming(f, c) \/ f = e => Coming(f, c)'
  BY <1>1 DEF Coming
<1>3. Backlog(c)' \subseteq Backlog(c) \union {e}
  BY <1>1 DEF Backlog, Committed
<1>4. \A f \in Backlog(c)' : f \in Events
  BY DEF Backlog, Committed
<1>5. ASSUME call[c].at \in {"looked", "block"}, NEW f \in Answers(c)', f # e
      PROVE  f \in Answers(c)
  <2>1. id'[Question[c]] = id[Question[c]]
    <3>1. CASE Question[c] \in Events
      BY <1>1, <1>5, <3>1
    <3>2. CASE Question[c] \notin Events
      BY <3>2 DEF Commit
    <3> QED
      BY <3>1, <3>2
  <2> QED
    BY <1>1, <1>5, <2>1 DEF Answers, Committed
<1>6. \A f \in Answers(c)' : f \in Events
  BY DEF Answers, Committed
<1> QED
  BY <1>2, <1>3, <1>4, <1>5, <1>6 DEF CoveredCall

LEMMA EmitKeeps == ASSUME IInv, NEW e \in Events, Emit(e) PROVE IInv'
<1>1. Commit(e) /\ UNCHANGED <<queue, lagged, cursor, call>>
  BY DEF Emit
<1>2. TypeOK'
  <2>1. VariableTypes'
    BY <1>1, CommitType DEF IInv, TypeOK, VariableTypes
  <2>2. BusShape'
    BY <1>1, CommitType DEF IInv, TypeOK, BusShape, Subscribed
  <2> QED
    BY <2>1, <2>2 DEF TypeOK
<1>3. ASSUME NEW c \in Clients PROVE CoveredCall(c)'
  <2>1. call[c].at \in {"looked", "block"} => Question[c] # e
    BY DEF IInv, Covered, CoveredCall, Emit
  <2> QED
    BY <1>1, <2>1, CommitCovered DEF IInv, Covered
<1> QED
  BY <1>2, <1>3 DEF IInv, Covered

LEMMA DisconnectKeeps == ASSUME IInv, Disconnect PROVE IInv'
<1>1. /\ UNCHANGED <<id, queue, lagged, cursor, call>>
      /\ wire' = <<>> /\ up' = FALSE /\ faults' = faults + 1 /\ faults < MaxFaults
      /\ lost' = lost \union Elements(wire)
  BY DEF Disconnect
<1>2. Elements(wire') = {} /\ Committed' = Committed
  BY <1>1, ElementsEmpty DEF Committed
<1>3. TypeOK'
  <2>1. VariableTypes'
    <3>1. Elements(wire) \subseteq Events
      BY DEF IInv, TypeOK, BusShape, Committed
    <3>2. wire' \in Seq(Events) /\ up' \in BOOLEAN
      BY <1>1, EmptySeq
    <3>3. faults' \in 0..MaxFaults
      BY <1>1, UpdatesAssumption DEF IInv, TypeOK, VariableTypes
    <3> QED
      BY <1>1, <3>1, <3>2, <3>3 DEF IInv, TypeOK, VariableTypes
  <2>2. BusShape'
    BY <1>1, <1>2 DEF IInv, TypeOK, BusShape, Subscribed
  <2> QED
    BY <2>1, <2>2 DEF TypeOK
<1>4. ASSUME NEW c \in Clients PROVE CoveredCall(c)'
  <2>1. \A e \in Events : Coming(e, c) => Coming(e, c)'
    BY <1>1, <1>2 DEF Coming
  <2>2. cursor[Identity[c]] <= cursor'[Identity[c]]
    BY <1>1, UpdatesAssumption DEF IInv, TypeOK, VariableTypes
  <2> QED
    BY <1>1, <1>3, <2>1, <2>2, StaysCovered DEF IInv, Covered
<1> QED
  BY <1>3, <1>4 DEF IInv, Covered

LEMMA ReconnectKeeps == ASSUME IInv, Reconnect PROVE IInv'
<1>1. UNCHANGED <<id, wire, lost, faults, queue, lagged, cursor, call>> /\ up' = TRUE
  BY DEF Reconnect
<1>2. TypeOK'
  BY <1>1 DEF IInv, TypeOK, VariableTypes, BusShape, Subscribed, Committed
<1>3. Covered'
  BY <1>1 DEF IInv, Covered, CoveredCall, Coming, Backlog, Answers, Committed
<1> QED
  BY <1>2, <1>3 DEF IInv

(* A receiver takes what is published; one that is full is told it lagged.  *)
LEMMA PublishKeeps == ASSUME IInv, Publish PROVE IInv'
<1>1. /\ UNCHANGED <<id, up, lost, faults, cursor, call>>
      /\ wire # <<>> /\ wire' = Tail(wire) /\ wire \in Seq(Events)
  BY DEF Publish, IInv, TypeOK, VariableTypes
<1> DEFINE e == Head(wire)
<1>2. /\ wire' \in Seq(Events) /\ e \in Events /\ Len(wire') = Len(wire) - 1
      /\ \A i \in 1..Len(wire') : wire'[i] = wire[i + 1]
      /\ e = wire[1] /\ Len(wire) > 0
      /\ Elements(wire) = {e} \union Elements(wire')
  BY <1>1, ElementsTail
<1>3. /\ \A i, j \in 1..Len(wire') : wire'[i] = wire'[j] => i = j
      /\ e \notin Elements(wire')
  <2>1. \A i, j \in 1..Len(wire) : wire[i] = wire[j] => i = j
    BY DEF IInv, TypeOK, BusShape
  <2>2. \A i \in 1..Len(wire') : i + 1 \in 1..Len(wire) /\ i + 1 # 1
    BY <1>1, <1>2
  <2>3. 1 \in 1..Len(wire)
    BY <1>1, <1>2
  <2>4. \A i \in 1..Len(wire') : wire'[i] # e
    BY <1>2, <2>1, <2>2, <2>3
  <2>5. \A i, j \in 1..Len(wire') : wire'[i] = wire'[j] => i + 1 = j + 1
    BY <1>2, <2>1, <2>2
  <2>6. \A i, j \in 1..Len(wire') : i + 1 = j + 1 => i = j
    BY <1>1, <1>2
  <2> QED
    BY <2>4, <2>5, <2>6 DEF Elements
<1>4. Committed' = Committed
  BY <1>1 DEF Committed
<1>5. ASSUME NEW c \in Clients
      PROVE  /\ queue'[c] \in Seq(Events) /\ lagged'[c] \in BOOLEAN
             /\ Len(queue'[c]) <= Capacity
             /\ Elements(queue'[c]) \subseteq Elements(queue[c]) \union {e}
             /\ ~Subscribed(c) => queue'[c] = queue[c] /\ lagged'[c] = lagged[c]
             /\ Subscribed(c) => \/ lagged'[c]
                                 \/ /\ lagged'[c] = lagged[c]
                                    /\ Elements(queue'[c]) = Elements(queue[c]) \union {e}
  <2>1. /\ queue[c] \in Seq(Events) /\ lagged[c] \in BOOLEAN /\ Len(queue[c]) <= Capacity
        /\ Capacity \in Nat \ {0}
    BY UpdatesAssumption DEF IInv, TypeOK, VariableTypes, BusShape
  <2>2. /\ queue'[c] = IF ~Subscribed(c) THEN queue[c]
                       ELSE Append(IF Len(queue[c]) = Capacity THEN Tail(queue[c])
                                   ELSE queue[c], e)
        /\ lagged'[c] = (lagged[c] \/ (Subscribed(c) /\ Len(queue[c]) = Capacity))
    BY DEF Publish
  <2>3. CASE ~Subscribed(c)
    BY <2>1, <2>2, <2>3
  <2>4. CASE Subscribed(c) /\ Len(queue[c]) # Capacity
    <3>1. /\ queue'[c] \in Seq(Events) /\ Len(queue'[c]) = Len(queue[c]) + 1
          /\ Elements(queue'[c]) = Elements(queue[c]) \union {e}
      BY <1>2, <2>1, <2>2, <2>4, ElementsAppend
    <3> QED
      BY <2>1, <2>2, <2>4, <3>1
  <2>5. CASE Subscribed(c) /\ Len(queue[c]) = Capacity
    <3> DEFINE r == Tail(queue[c])
    <3>1. queue[c] # <<>>
      BY <2>1, <2>5
    <3>2. r \in Seq(Events) /\ Len(r) = Len(queue[c]) - 1 /\ Elements(r) \subseteq Elements(queue[c])
      BY <2>1, <3>1, ElementsTail
    <3>3. queue'[c] = Append(r, e) /\ lagged'[c] = TRUE /\ e \in Events
      BY <1>2, <2>2, <2>5
    <3> HIDE DEF e, r
    <3>4. /\ Append(r, e) \in Seq(Events) /\ Len(Append(r, e)) = Len(r) + 1
          /\ Elements(Append(r, e)) = Elements(r) \union {e}
      BY <3>2, <3>3, ElementsAppend
    <3>5. Len(queue'[c]) <= Capacity
      BY <2>1, <2>5, <3>2, <3>3, <3>4
    <3>6. Elements(queue'[c]) \subseteq Elements(queue[c]) \union {e}
      BY <3>2, <3>3, <3>4
    <3> HIDE DEF Subscribed
    <3> QED
      BY <2>5, <3>3, <3>4, <3>5, <3>6
  <2> QED
    BY <2>3, <2>4, <2>5
<1>6. VariableTypes'
  <2>1. queue' \in [Clients -> Seq(Events)] /\ lagged' \in [Clients -> BOOLEAN]
    <3>1. queue' = [c \in Clients |-> queue'[c]] /\ lagged' = [c \in Clients |-> lagged'[c]]
      BY DEF Publish
    <3> QED
      BY <1>5, <3>1
  <2> QED
    BY <1>1, <1>2, <2>1 DEF IInv, TypeOK, VariableTypes
<1>7. BusShape'
  <2>1. \A c \in Clients : /\ Subscribed(c)' = Subscribed(c)
                           /\ Elements(queue'[c]) \subseteq
                                Committed \ (lost \union Elements(wire'))
    <3> TAKE c \in Clients
    <3>1. Elements(queue[c]) \subseteq Committed \ (lost \union Elements(wire))
      BY DEF IInv, TypeOK, BusShape
    <3>2. e \in Committed \ (lost \union Elements(wire'))
      BY <1>2, <1>3 DEF IInv, TypeOK, BusShape
    <3>3. Elements(queue'[c]) \subseteq Elements(queue[c]) \union {e}
      BY <1>5
    <3>4. Elements(queue'[c]) \subseteq Committed \ (lost \union Elements(wire'))
      BY <1>2, <3>1, <3>2, <3>3
    <3>5. Subscribed(c)' = Subscribed(c)
      BY <1>1 DEF Subscribed
    <3> QED
      BY <3>4, <3>5
  <2>2. ~up => wire = <<>>
    BY DEF IInv, TypeOK, BusShape
  <2> QED
    BY <1>1, <1>2, <1>3, <1>4, <1>5, <2>1, <2>2 DEF IInv, TypeOK, BusShape
<1>8. TypeOK'
  BY <1>6, <1>7 DEF TypeOK
<1>9. ASSUME NEW c \in Clients PROVE CoveredCall(c)'
  <2>1. CASE Subscribed(c)
    <3>1. \A f \in Events : Coming(f, c) => Coming(f, c)'
      BY <1>1, <1>2, <1>5, <2>1 DEF Coming
    <3>2. cursor[Identity[c]] <= cursor'[Identity[c]]
      BY <1>1, UpdatesAssumption DEF IInv, TypeOK, VariableTypes
    <3> QED
      BY <1>1, <1>8, <3>1, <3>2, StaysCovered DEF IInv, Covered
  <2>2. CASE ~Subscribed(c)
    BY <1>1, <2>2 DEF Subscribed, CoveredCall
  <2> QED
    BY <2>1, <2>2
<1> QED
  BY <1>8, <1>9 DEF IInv, Covered

LEMMA ReadKeeps == ASSUME IInv, NEW c \in Clients, Read(Identity[c]) PROVE IInv'
<1>1. UNCHANGED <<id, wire, up, lost, faults, queue, lagged, call>>
  BY DEF Read, bus
<1>2. PICK e \in Messages \intersect Committed :
        /\ id[e] > cursor[Identity[c]]
        /\ cursor' = [cursor EXCEPT ![Identity[c]] = id[e]]
  BY DEF Read
<1>3. id[e] \in Nat /\ \A i \in Identities : cursor[i] \in Nat
  BY DEF IInv, TypeOK, VariableTypes, Committed
<1>4. TypeOK'
  BY <1>1, <1>2, <1>3 DEF IInv, TypeOK, VariableTypes, BusShape, Subscribed, Committed
<1>5. ASSUME NEW d \in Clients PROVE CoveredCall(d)'
  <2>1. \A f \in Events : Coming(f, d) => Coming(f, d)'
    BY <1>1 DEF Coming
  <2>2. cursor[Identity[d]] <= cursor'[Identity[d]]
    <3>1. Identity[d] \in Identities
      BY UpdatesAssumption
    <3> QED
      BY <1>2, <1>3, <3>1 DEF IInv, TypeOK, VariableTypes
  <2> QED
    BY <1>1, <1>4, <2>1, <2>2, StaysCovered DEF IInv, Covered
<1> QED
  BY <1>4, <1>5 DEF IInv, Covered

-----------------------------------------------------------------------------
(* What one caller does to its own receiver and its own call leaves every   *)
(* other caller as it was.                                                  *)
LEMMA ClientKeeps ==
  ASSUME IInv, NEW c \in Clients, NEW s \in Seq(Events), NEW l \in BOOLEAN, NEW k \in Calls,
         UNCHANGED <<id, wire, up, lost, cursor>>, faults' \in 0..MaxFaults,
         queue' = [queue EXCEPT ![c] = s], lagged' = [lagged EXCEPT ![c] = l],
         call' = [call EXCEPT ![c] = k],
         Len(s) <= Capacity, Elements(s) \subseteq Elements(queue[c]),
         k.at = "idle" => s = <<>> /\ ~l,
         CoveredCall(c)'
  PROVE  IInv'
<1>1. /\ call'[c] = k /\ queue'[c] = s /\ lagged'[c] = l
      /\ \A d \in Clients \ {c} : /\ call'[d] = call[d] /\ queue'[d] = queue[d]
                                  /\ lagged'[d] = lagged[d]
  BY DEF IInv, TypeOK, VariableTypes
<1>2. VariableTypes'
  BY DEF IInv, TypeOK, VariableTypes, Calls
<1>3. BusShape'
  <2>1. \A d \in Clients :
          /\ Len(queue'[d]) <= Capacity
          /\ ~Subscribed(d)' => queue'[d] = <<>> /\ ~lagged'[d]
          /\ Elements(queue'[d]) \subseteq Elements(queue[d])
    BY <1>1 DEF IInv, TypeOK, BusShape, Subscribed
  <2>2. Committed' = Committed
    BY DEF Committed
  <2> QED
    BY <2>1, <2>2 DEF IInv, TypeOK, BusShape
<1>4. TypeOK'
  BY <1>2, <1>3 DEF TypeOK
<1>5. ASSUME NEW d \in Clients \ {c} PROVE CoveredCall(d)'
  <2>1. \A e \in Events : Coming(e, d) => Coming(e, d)'
    BY <1>1, <1>5 DEF Coming
  <2>2. cursor[Identity[d]] <= cursor'[Identity[d]]
    <3>1. Identity[d] \in Identities
      BY UpdatesAssumption
    <3>2. cursor[Identity[d]] \in Nat
      BY <3>1 DEF IInv, TypeOK, VariableTypes
    <3> QED
      BY <3>2
  <2> QED
    BY <1>1, <1>4, <2>1, <2>2, StaysCovered DEF IInv, Covered
<1> QED
  BY <1>4, <1>5 DEF IInv, Covered

(* The same for a step that leaves the receiver alone. *)
LEMMA StayKeeps ==
  ASSUME IInv, NEW c \in Clients, Stay, NEW k \in Calls, k.at # "idle",
         call' = [call EXCEPT ![c] = k], CoveredCall(c)'
  PROVE  IInv'
<1>1. /\ UNCHANGED <<id, wire, up, lost, faults, cursor, queue, lagged>>
  BY DEF Stay, bus
<1>2. /\ queue[c] \in Seq(Events) /\ lagged[c] \in BOOLEAN /\ Len(queue[c]) <= Capacity
      /\ queue' = [queue EXCEPT ![c] = queue[c]] /\ lagged' = [lagged EXCEPT ![c] = lagged[c]]
      /\ faults' \in 0..MaxFaults
  BY <1>1 DEF IInv, TypeOK, VariableTypes, BusShape
<1> QED
  BY <1>1, <1>2, ClientKeeps

LEMMA GoCall ==
  ASSUME IInv, NEW c \in Clients, NEW stage \in Stages, Go(c, stage)
  PROVE  /\ [call[c] EXCEPT !.at = stage] \in Calls
         /\ call' = [call EXCEPT ![c] = [call[c] EXCEPT !.at = stage]]
         /\ call'[c].at = stage /\ call'[c].kinds = call[c].kinds
         /\ call'[c].focus = call[c].focus /\ call'[c].failed = call[c].failed
BY DEF IInv, TypeOK, VariableTypes, Go, Calls

(* What a caller would find there depends on its focus alone. *)
LEMMA SameFinds ==
  ASSUME NEW c \in Clients, UNCHANGED <<id, cursor>>, call'[c].focus = call[c].focus
  PROVE  Backlog(c)' = Backlog(c) /\ Answers(c)' = Answers(c)
BY DEF Backlog, Answers, Committed

LEMMA StartWaitKeeps ==
  ASSUME IInv, NEW c \in Clients, NEW kinds \in KindFilters,
         NEW focus \in Channels \union {None}, StartWait(c, kinds, focus)
  PROVE  IInv'
<1> DEFINE k == [IdleCall EXCEPT !.at = "check", !.kinds = kinds, !.focus = focus]
<1>1. call' = [call EXCEPT ![c] = k] /\ Stay
  BY DEF StartWait
<1>2. k \in Calls /\ k.at = "check"
  BY UpdatesAssumption DEF IdleCall, Calls, Stages
<1>3. call'[c].at = "check"
  BY <1>1, <1>2 DEF IInv, TypeOK, VariableTypes
<1>4. CoveredCall(c)'
  BY <1>3 DEF CoveredCall
<1> HIDE DEF k
<1> QED
  BY <1>1, <1>2, <1>4, StayKeeps

LEMMA CheckUnreadKeeps == ASSUME IInv, NEW c \in Clients, CheckUnread(c) PROVE IInv'
<1> DEFINE stage == IF Backlog(c) # {} /\ "message" \in call[c].kinds THEN "woke" ELSE "checked"
<1>1. Go(c, stage) /\ Stay /\ stage \in Stages
  BY DEF CheckUnread, Stages
<1>2. /\ [call[c] EXCEPT !.at = stage] \in Calls
      /\ call' = [call EXCEPT ![c] = [call[c] EXCEPT !.at = stage]]
      /\ call'[c].at = stage /\ call'[c].kinds = call[c].kinds
      /\ call'[c].focus = call[c].focus
  BY <1>1, GoCall
<1>3. Backlog(c)' = Backlog(c)
  BY <1>1, <1>2, SameFinds DEF Stay
<1>4. CoveredCall(c)'
  BY <1>2, <1>3 DEF CoveredCall
<1>5. [call[c] EXCEPT !.at = stage].at # "idle"
  BY <1>2 DEF Calls
<1> HIDE DEF stage
<1> QED
  BY <1>1, <1>2, <1>4, <1>5, StayKeeps

LEMMA SleepKeeps == ASSUME IInv, NEW c \in Clients, Sleep(c) PROVE IInv'
<1> DEFINE stage == IF call[c].at = "checked" THEN "wait" ELSE "block"
<1>1. Go(c, stage) /\ Stay /\ stage \in Stages /\ call[c].at \in {"checked", "looked"}
  BY DEF Sleep, Stages
<1>2. /\ [call[c] EXCEPT !.at = stage] \in Calls
      /\ call' = [call EXCEPT ![c] = [call[c] EXCEPT !.at = stage]]
      /\ call'[c].at = stage /\ call'[c].kinds = call[c].kinds
      /\ call'[c].focus = call[c].focus /\ call'[c].failed = call[c].failed
  BY <1>1, GoCall
<1>3. Backlog(c)' = Backlog(c) /\ Answers(c)' = Answers(c)
  BY <1>1, <1>2, SameFinds DEF Stay
<1>4. \A e \in Events : Coming(e, c) => Coming(e, c)'
  BY <1>1, <1>2 DEF Coming, Stay, bus
<1>5. Backlog(c) \subseteq Events /\ Answers(c) \subseteq Events
  BY DEF Backlog, Answers, Committed
<1>6. CoveredCall(c)'
  BY <1>1, <1>2, <1>3, <1>4, <1>5 DEF IInv, Covered, CoveredCall
<1>7. [call[c] EXCEPT !.at = stage].at # "idle"
  BY <1>2 DEF Calls
<1> HIDE DEF stage
<1> QED
  BY <1>1, <1>2, <1>6, <1>7, StayKeeps

(* A step to a stage that needs no cover. *)
LEMMA FreeStepKeeps ==
  ASSUME IInv, NEW c \in Clients, NEW stage \in Stages, Go(c, stage), Stay,
         stage \notin {"idle", "post", "look", "checked", "wait", "looked", "block"}
  PROVE  IInv'
<1>1. /\ [call[c] EXCEPT !.at = stage] \in Calls
      /\ call' = [call EXCEPT ![c] = [call[c] EXCEPT !.at = stage]]
      /\ call'[c].at = stage
  BY GoCall
<1>2. CoveredCall(c)'
  BY <1>1 DEF CoveredCall
<1>3. [call[c] EXCEPT !.at = stage].at # "idle"
  BY <1>1 DEF Calls
<1> QED
  BY <1>1, <1>2, <1>3, StayKeeps

LEMMA EndingsKeep ==
  ASSUME IInv, NEW c \in Clients, EndWait(c) \/ ExpireAsk(c) \/ LastLook(c) PROVE IInv'
<1>1. CASE EndWait(c)
  BY <1>1, FreeStepKeeps DEF EndWait, Stages
<1>2. CASE ExpireAsk(c)
  BY <1>2, FreeStepKeeps DEF ExpireAsk, Stages
<1>3. CASE LastLook(c)
  BY <1>3, FreeStepKeeps DEF LastLook, Stages
<1> QED
  BY <1>1, <1>2, <1>3

LEMMA StartAskKeeps == ASSUME IInv, NEW c \in Clients, StartAsk(c) PROVE IInv'
<1> DEFINE stage == IF id[Question[c]] = 0 THEN "post" ELSE "look"
           k == [IdleCall EXCEPT !.at = stage]
<1>1. call' = [call EXCEPT ![c] = k] /\ Stay /\ AskTo[c] # None
  BY DEF StartAsk
<1>2. k \in Calls /\ k.at = stage /\ stage \in {"post", "look"}
  BY DEF IdleCall, Calls, Stages
<1>3. call'[c].at \in {"post", "look"}
  BY <1>1, <1>2 DEF IInv, TypeOK, VariableTypes
<1>4. CoveredCall(c)'
  BY <1>1, <1>3 DEF CoveredCall
<1> HIDE DEF k
<1> QED
  BY <1>1, <1>2, <1>4, StayKeeps

LEMMA LookForAnswerKeeps == ASSUME IInv, NEW c \in Clients, LookForAnswer(c) PROVE IInv'
<1> DEFINE stage == IF Answers(c) # {} THEN "answered" ELSE "looked"
<1>1. Go(c, stage) /\ Stay /\ stage \in Stages /\ AskTo[c] # None
  BY DEF LookForAnswer, Stages, IInv, Covered, CoveredCall
<1>2. /\ [call[c] EXCEPT !.at = stage] \in Calls
      /\ call' = [call EXCEPT ![c] = [call[c] EXCEPT !.at = stage]]
      /\ call'[c].at = stage /\ call'[c].focus = call[c].focus
  BY <1>1, GoCall
<1>3. Answers(c)' = Answers(c)
  BY <1>1, <1>2, SameFinds DEF Stay
<1>4. CoveredCall(c)'
  BY <1>1, <1>2, <1>3 DEF CoveredCall
<1>5. [call[c] EXCEPT !.at = stage].at # "idle"
  BY <1>2 DEF Calls
<1> HIDE DEF stage
<1> QED
  BY <1>1, <1>2, <1>4, <1>5, StayKeeps

(* The asker's commit; nobody else asks this question. *)
LEMMA PostQuestionKeeps == ASSUME IInv, NEW c \in Clients, PostQuestion(c) PROVE IInv'
<1>1. /\ Commit(Question[c]) /\ Go(c, "look") /\ call[c].at = "post" /\ AskTo[c] # None
      /\ UNCHANGED <<queue, lagged, cursor>>
  BY DEF PostQuestion, IInv, Covered, CoveredCall
<1>2. /\ Question[c] \in Events
      /\ \A d \in Clients \ {c} : Question[d] # Question[c]
  BY <1>1, UpdatesAssumption
<1>3. /\ [call[c] EXCEPT !.at = "look"] \in Calls
      /\ call' = [call EXCEPT ![c] = [call[c] EXCEPT !.at = "look"]]
      /\ call'[c].at = "look"
  BY <1>1, GoCall DEF Stages
<1>4. \A d \in Clients \ {c} : call'[d] = call[d]
  BY <1>3 DEF IInv, TypeOK, VariableTypes
<1>5. TypeOK'
  <2>1. VariableTypes'
    <3>1. call' \in [Clients -> Calls]
      BY <1>3 DEF IInv, TypeOK, VariableTypes, Calls
    <3>2. /\ id' \in [Events -> Nat] /\ wire' \in Seq(Events) /\ up' = up
          /\ lost' \subseteq Events /\ faults' = faults
      BY <1>1, <1>2, CommitType DEF IInv
    <3> QED
      BY <1>1, <3>1, <3>2 DEF IInv, TypeOK, VariableTypes, Calls
  <2>2. BusShape'
    <3>1. \A d \in Clients : Subscribed(d)' = Subscribed(d)
      BY <1>1, <1>3, <1>4 DEF Subscribed
    <3> QED
      BY <1>1, <1>2, <3>1, CommitType DEF IInv, TypeOK, BusShape
  <2> QED
    BY <2>1, <2>2 DEF TypeOK
<1>6. CoveredCall(c)'
  BY <1>1, <1>3 DEF CoveredCall
<1>7. ASSUME NEW d \in Clients \ {c} PROVE CoveredCall(d)'
  BY <1>1, <1>2, <1>4, CommitCovered DEF IInv, Covered
<1> QED
  BY <1>5, <1>6, <1>7 DEF IInv, Covered

(* An event comes off the receiver: it goes on only if it needs no cover.   *)
LEMMA TakeKeeps ==
  ASSUME IInv, NEW c \in Clients, Take(c), NEW k \in Calls, k.at # "idle",
         call' = [call EXCEPT ![c] = k], CoveredCall(c)'
  PROVE  IInv'
<1> DEFINE r == Tail(queue[c])
<1>1. /\ UNCHANGED <<id, wire, up, lost, faults, cursor, lagged>>
      /\ queue' = [queue EXCEPT ![c] = r] /\ queue[c] # <<>>
  BY DEF Take, bus
<1>2. queue[c] \in Seq(Events) /\ lagged[c] \in BOOLEAN /\ Len(queue[c]) <= Capacity
  BY DEF IInv, TypeOK, VariableTypes, BusShape
<1>3. r \in Seq(Events) /\ Len(r) = Len(queue[c]) - 1 /\ Elements(r) \subseteq Elements(queue[c])
  BY <1>1, <1>2, ElementsTail
<1>4. Len(r) <= Capacity
  <2> HIDE DEF r
  <2> QED
    BY <1>2, <1>3, UpdatesAssumption
<1>5. lagged' = [lagged EXCEPT ![c] = lagged[c]] /\ faults' \in 0..MaxFaults
  BY <1>1 DEF IInv, TypeOK, VariableTypes
<1> HIDE DEF r
<1> QED
  BY <1>1, <1>2, <1>3, <1>4, <1>5, ClientKeeps

LEMMA TakeLagKeeps ==
  ASSUME IInv, NEW c \in Clients, TakeLag(c), NEW k \in Calls, k.at # "idle",
         call' = [call EXCEPT ![c] = k], CoveredCall(c)'
  PROVE  IInv'
<1>1. /\ UNCHANGED <<id, wire, up, lost, faults, cursor, queue>>
      /\ lagged' = [lagged EXCEPT ![c] = FALSE]
  BY DEF TakeLag, bus
<1>2. /\ queue[c] \in Seq(Events) /\ Len(queue[c]) <= Capacity
      /\ queue' = [queue EXCEPT ![c] = queue[c]] /\ faults' \in 0..MaxFaults
  BY <1>1 DEF IInv, TypeOK, VariableTypes, BusShape
<1> QED
  BY <1>1, <1>2, ClientKeeps

(* What a receiver still has to give once its head is gone. *)
LEMMA ComingAfterTake ==
  ASSUME IInv, NEW c \in Clients, Take(c), call'[c].failed = call[c].failed,
         NEW e, Coming(e, c), e # Head(queue[c])
  PROVE  Coming(e, c)'
<1> DEFINE r == Tail(queue[c])
<1>1. /\ UNCHANGED <<wire, lost>> /\ queue' = [queue EXCEPT ![c] = r] /\ queue[c] # <<>>
      /\ ~lagged[c] /\ queue[c] \in Seq(Events)
  BY DEF Take, bus, IInv, TypeOK, VariableTypes
<1>2. Elements(queue[c]) = {Head(queue[c])} \union Elements(r)
  BY <1>1, ElementsTail
<1>3. queue'[c] = r
  BY <1>1 DEF IInv, TypeOK, VariableTypes
<1> HIDE DEF r
<1> QED
  BY <1>1, <1>2, <1>3 DEF Coming

LEMMA ReceiveKeeps == ASSUME IInv, NEW c \in Clients, Receive(c) PROVE IInv'
<1> DEFINE stage == IF Wakes(Head(queue[c]), c) THEN "grace" ELSE "wait"
<1>1. CASE Take(c) /\ Go(c, stage)
  <2>1. stage \in Stages /\ stage # "idle"
    BY DEF Stages
  <2>2. /\ [call[c] EXCEPT !.at = stage] \in Calls
        /\ call' = [call EXCEPT ![c] = [call[c] EXCEPT !.at = stage]]
        /\ call'[c].at = stage /\ call'[c].kinds = call[c].kinds
        /\ call'[c].focus = call[c].focus /\ call'[c].failed = call[c].failed
    BY <1>1, <2>1, GoCall
  <2>3. Backlog(c)' = Backlog(c)
    BY <1>1, <2>2, SameFinds DEF Take
  <2>4. ASSUME Wakes(Head(queue[c]), c) PROVE CoveredCall(c)'
    BY <2>2, <2>4 DEF CoveredCall
  <2>5. ASSUME ~Wakes(Head(queue[c]), c) PROVE CoveredCall(c)'
    <3>1. ASSUME "message" \in call[c].kinds, NEW e \in Backlog(c) PROVE Coming(e, c)'
      <4>1. Coming(e, c) /\ Wakes(e, c)
        BY <3>1, BacklogWakes DEF IInv, Covered, CoveredCall, Receive
      <4> QED
        BY <1>1, <2>2, <2>5, <4>1, ComingAfterTake
    <3> QED
      BY <2>2, <2>3, <2>5, <3>1 DEF CoveredCall
  <2>6. [call[c] EXCEPT !.at = stage].at # "idle"
    BY <2>1, <2>2 DEF Calls
  <2> HIDE DEF stage
  <2> QED
    BY <1>1, <2>2, <2>4, <2>5, <2>6, TakeKeeps
<1>2. CASE TakeLag(c) /\ Go(c, "woke")
  <2>1. /\ [call[c] EXCEPT !.at = "woke"] \in Calls
        /\ call' = [call EXCEPT ![c] = [call[c] EXCEPT !.at = "woke"]]
        /\ call'[c].at = "woke"
    BY <1>2, GoCall DEF Stages
  <2>2. CoveredCall(c)'
    BY <2>1 DEF CoveredCall
  <2>3. [call[c] EXCEPT !.at = "woke"].at # "idle"
    BY <2>1 DEF Calls
  <2> QED
    BY <1>2, <2>1, <2>2, <2>3, TakeLagKeeps
<1> QED
  BY <1>1, <1>2 DEF Receive

LEMMA ReceiveForAskKeeps == ASSUME IInv, NEW c \in Clients, ReceiveForAsk(c) PROVE IInv'
<1> DEFINE stage == IF LooksLikeAnswer(Head(queue[c]), c) THEN "look" ELSE "block"
<1>0. AskTo[c] # None /\ call[c].at = "block"
  BY DEF ReceiveForAsk, IInv, Covered, CoveredCall
<1>1. CASE Take(c) /\ Go(c, stage)
  <2>1. stage \in Stages /\ stage # "idle"
    BY DEF Stages
  <2>2. /\ [call[c] EXCEPT !.at = stage] \in Calls
        /\ call' = [call EXCEPT ![c] = [call[c] EXCEPT !.at = stage]]
        /\ call'[c].at = stage /\ call'[c].focus = call[c].focus
        /\ call'[c].failed = call[c].failed
    BY <1>1, <2>1, GoCall
  <2>3. Answers(c)' = Answers(c)
    BY <1>1, <2>2, SameFinds DEF Take
  <2>4. ASSUME LooksLikeAnswer(Head(queue[c]), c) PROVE CoveredCall(c)'
    BY <1>0, <2>2, <2>4 DEF CoveredCall
  <2>5. ASSUME ~LooksLikeAnswer(Head(queue[c]), c) PROVE CoveredCall(c)'
    <3>1. ASSUME NEW e \in Answers(c) PROVE Coming(e, c)'
      <4>1. Coming(e, c) /\ LooksLikeAnswer(e, c)
        BY <1>0, <3>1, AnswersLook DEF IInv, Covered, CoveredCall
      <4> QED
        BY <1>1, <2>2, <2>5, <4>1, ComingAfterTake
    <3> QED
      BY <1>0, <2>2, <2>3, <2>5, <3>1 DEF CoveredCall
  <2>6. [call[c] EXCEPT !.at = stage].at # "idle"
    BY <2>1, <2>2 DEF Calls
  <2> HIDE DEF stage
  <2> QED
    BY <1>1, <2>2, <2>4, <2>5, <2>6, TakeKeeps
<1>2. CASE TakeLag(c) /\ Go(c, "look")
  <2>1. /\ [call[c] EXCEPT !.at = "look"] \in Calls
        /\ call' = [call EXCEPT ![c] = [call[c] EXCEPT !.at = "look"]]
        /\ call'[c].at = "look"
    BY <1>2, GoCall DEF Stages
  <2>2. CoveredCall(c)'
    BY <1>0, <2>1 DEF CoveredCall
  <2>3. [call[c] EXCEPT !.at = "look"].at # "idle"
    BY <2>1 DEF Calls
  <2> QED
    BY <1>2, <2>1, <2>2, <2>3, TakeLagKeeps
<1> QED
  BY <1>1, <1>2 DEF ReceiveForAsk

(* In the grace window there is something to report already: no cover.      *)
LEMMA ReceiveMoreKeeps == ASSUME IInv, NEW c \in Clients, ReceiveMore(c) PROVE IInv'
<1>1. ASSUME NEW D \in SUBSET Events, Take(c), call' = [call EXCEPT ![c].dropped = D]
      PROVE  IInv'
  <2> DEFINE k == [call[c] EXCEPT !.dropped = D]
  <2>1. k \in Calls /\ k.at = "grace" /\ call' = [call EXCEPT ![c] = k]
    BY <1>1 DEF ReceiveMore, IInv, TypeOK, VariableTypes, Calls
  <2>2. call'[c] = k
    BY <2>1 DEF IInv, TypeOK, VariableTypes
  <2> HIDE DEF k
  <2>3. CoveredCall(c)'
    BY <2>1, <2>2 DEF CoveredCall
  <2> QED
    BY <1>1, <2>1, <2>3, TakeKeeps
<1>2. CASE Take(c)
  <2> DEFINE e == Head(queue[c])
             D == IF Batched(e, c) THEN call[c].dropped ELSE call[c].dropped \union {e}
  <2>1. e \in Events /\ call[c].dropped \subseteq Events
    BY <1>2, ElementsTail DEF Take, IInv, TypeOK, VariableTypes
  <2>2. ~lagged[c]
    BY <1>2 DEF Take
  <2>3. call' = [call EXCEPT ![c].dropped = D]
    BY <2>2 DEF ReceiveMore, TakeLag
  <2>4. D \in SUBSET Events
    BY <2>1
  <2> HIDE DEF D
  <2> QED
    BY <1>1, <1>2, <2>3, <2>4
<1>3. CASE TakeLag(c) /\ Go(c, "woke")
  <2>1. /\ [call[c] EXCEPT !.at = "woke"] \in Calls
        /\ call' = [call EXCEPT ![c] = [call[c] EXCEPT !.at = "woke"]]
        /\ call'[c].at = "woke"
    BY <1>3, GoCall DEF Stages
  <2>2. CoveredCall(c)'
    BY <2>1 DEF CoveredCall
  <2>3. [call[c] EXCEPT !.at = "woke"].at # "idle"
    BY <2>1 DEF Calls
  <2> QED
    BY <1>3, <2>1, <2>2, <2>3, TakeLagKeeps
<1> QED
  BY <1>2, <1>3 DEF ReceiveMore

LEMMA FailToDescribeKeeps == ASSUME IInv, NEW c \in Clients, FailToDescribe(c) PROVE IInv'
<1> DEFINE e == Head(queue[c])
           r == Tail(queue[c])
           k == [call[c] EXCEPT !.failed = call[c].failed \union {e}]
<1>1. /\ UNCHANGED <<id, wire, up, lost, cursor, lagged>> /\ faults' = faults + 1
      /\ faults < MaxFaults /\ queue[c] # <<>> /\ ~lagged[c]
      /\ queue' = [queue EXCEPT ![c] = r]
      /\ call' = [call EXCEPT ![c] = k] /\ call[c].at \in {"wait", "grace"}
  BY DEF FailToDescribe
<1>2. queue[c] \in Seq(Events) /\ lagged[c] \in BOOLEAN /\ Len(queue[c]) <= Capacity
  BY DEF IInv, TypeOK, VariableTypes, BusShape
<1>3. /\ r \in Seq(Events) /\ Len(r) = Len(queue[c]) - 1 /\ e \in Events
      /\ Elements(queue[c]) = {e} \union Elements(r)
  BY <1>1, <1>2, ElementsTail
<1>4. faults' \in 0..MaxFaults /\ lagged' = [lagged EXCEPT ![c] = lagged[c]]
  BY <1>1, UpdatesAssumption DEF IInv, TypeOK, VariableTypes
<1>5. k \in Calls /\ k.at = call[c].at
  BY <1>3 DEF IInv, TypeOK, VariableTypes, Calls
<1>6. /\ call'[c].at = call[c].at /\ call'[c].kinds = call[c].kinds
      /\ call'[c].focus = call[c].focus /\ call'[c].failed = call[c].failed \union {e}
  BY <1>1, <1>5 DEF IInv, TypeOK, VariableTypes
<1>7. queue'[c] = r
  BY <1>1 DEF IInv, TypeOK, VariableTypes
<1> HIDE DEF e, r, k
<1>8. \A f \in Events : Coming(f, c) => Coming(f, c)'
  BY <1>1, <1>3, <1>6, <1>7 DEF Coming
<1>9. CoveredCall(c)'
  <2>1. Backlog(c)' = Backlog(c) /\ Backlog(c) \subseteq Events
    BY <1>1, <1>6, SameFinds DEF Backlog, Committed
  <2> QED
    BY <1>1, <1>6, <1>8, <2>1 DEF IInv, Covered, CoveredCall
<1>10. Len(r) <= Capacity /\ Elements(r) \subseteq Elements(queue[c])
  BY <1>2, <1>3, UpdatesAssumption
<1> QED
  BY <1>1, <1>2, <1>3, <1>4, <1>5, <1>9, <1>10, ClientKeeps

LEMMA EndCallKeeps == ASSUME IInv, NEW c \in Clients, EndCall(c) PROVE IInv'
<1>1. /\ UNCHANGED <<id, wire, up, lost, faults, cursor>>
      /\ call' = [call EXCEPT ![c] = IdleCall]
      /\ queue' = [queue EXCEPT ![c] = <<>>] /\ lagged' = [lagged EXCEPT ![c] = FALSE]
  BY DEF EndCall, bus
<1>2. <<>> \in Seq(Events) /\ Elements(<<>>) \subseteq Elements(queue[c]) /\ Len(<<>>) <= Capacity
  BY EmptySeq, ElementsEmpty, UpdatesAssumption
<1>3. IdleCall \in Calls /\ IdleCall.at = "idle"
  BY DEF IdleCall, Calls, Stages
<1>4. call'[c].at = "idle" /\ faults' \in 0..MaxFaults
  BY <1>1, <1>3 DEF IInv, TypeOK, VariableTypes
<1>5. CoveredCall(c)'
  BY <1>4 DEF CoveredCall
<1> QED
  BY <1>1, <1>2, <1>3, <1>4, <1>5, ClientKeeps

-----------------------------------------------------------------------------
LEMMA InvStep == IInv /\ [Next]_vars => IInv'
<1> SUFFICES ASSUME IInv, [Next]_vars PROVE IInv'
  OBVIOUS
<1>1. CASE \E e \in Events : Emit(e)
  BY <1>1, EmitKeeps
<1>2. CASE Disconnect \/ Reconnect \/ Publish
  BY <1>2, DisconnectKeeps, ReconnectKeeps, PublishKeeps
<1>3. ASSUME NEW c \in Clients, Read(Identity[c]) PROVE IInv'
  BY <1>3, ReadKeeps
<1>4. ASSUME NEW c \in Clients, NEW kinds \in KindFilters, NEW focus \in Channels \union {None},
             StartWait(c, kinds, focus)
      PROVE  IInv'
  BY <1>4, StartWaitKeeps
<1>5. ASSUME NEW c \in Clients,
             \/ CheckUnread(c) \/ Sleep(c) \/ Receive(c)
             \/ FailToDescribe(c) \/ ReceiveMore(c) \/ EndWait(c)
      PROVE  IInv'
  BY <1>5, CheckUnreadKeeps, SleepKeeps, ReceiveKeeps, FailToDescribeKeeps, ReceiveMoreKeeps,
     EndingsKeep
<1>6. ASSUME NEW c \in Clients,
             \/ StartAsk(c) \/ PostQuestion(c) \/ LookForAnswer(c)
             \/ ReceiveForAsk(c) \/ ExpireAsk(c) \/ LastLook(c) \/ EndCall(c)
      PROVE  IInv'
  BY <1>6, StartAskKeeps, PostQuestionKeeps, LookForAnswerKeeps, ReceiveForAskKeeps,
     EndingsKeep, EndCallKeeps
<1>7. CASE UNCHANGED vars
  BY <1>7 DEF vars, bus, IInv, TypeOK, VariableTypes, BusShape, Subscribed, Committed, Covered,
     CoveredCall, Coming, Backlog, Answers
<1> QED
  BY <1>1, <1>2, <1>3, <1>4, <1>5, <1>6, <1>7 DEF Next

LEMMA Invariance == Spec => []IInv
BY InvInit, InvStep, PTL DEF Spec

(* Types, and the shape of hub and receivers: a receiver exists during a    *)
(* call and holds at most Capacity events, and every notification is on its *)
(* way, published or lost.                                                  *)
THEOREM TypeCorrect == Spec => []TypeOK
BY Invariance, PTL DEF IInv

(* wait_for_updates never sleeps on an unread message, but for a broken     *)
(* connection or a failed lookup.                                           *)
THEOREM WaitCovered == Spec => []NothingSlips
<1>1. IInv => NothingSlips
  BY DEF IInv, Covered, CoveredCall, NothingSlips
<1> QED
  BY <1>1, Invariance, PTL

(* ask_agent never sleeps on an answer, but for a broken connection.        *)
THEOREM AskCovered == Spec => []AnswerWakes
<1>1. IInv => AnswerWakes
  BY DEF IInv, Covered, CoveredCall, AnswerWakes
<1> QED
  BY <1>1, Invariance, PTL
-----------------------------------------------------------------------------
(* Who looks for an answer, or sleeps until one comes, has posted.          *)
AsksArePosted ==
  \A c \in Clients :
    call[c].at \in {"look", "looked", "block"} => id[Question[c]] > 0

(* What the asker would find there; and it has not been told otherwise.     *)
HasAnswer(c) ==
  /\ AskTo[c] # None /\ id[Question[c]] > 0
  /\ Answers(c) # {}
  /\ call[c].at # "unanswered"

(* A message keeps its place among the commits. *)
LEMMA PlacesStay ==
  ASSUME IInv, [Next]_vars, NEW e \in Events, id[e] > 0
  PROVE  id'[e] = id[e]
<1>1. ASSUME NEW x \in Events, Commit(x) PROVE id'[e] = id[e]
  <2>1. x # e
    BY <1>1 DEF Commit
  <2> QED
    BY <1>1, <2>1, CommitType DEF IInv
<1>2. ASSUME NEW c \in Clients, PostQuestion(c) PROVE id'[e] = id[e]
  <2>1. Question[c] \in Events
    BY <1>2, UpdatesAssumption DEF PostQuestion, IInv, Covered, CoveredCall
  <2> QED
    BY <1>1, <1>2, <2>1 DEF PostQuestion
<1>3. ASSUME NEW x \in Events, Emit(x) PROVE id'[e] = id[e]
  BY <1>1, <1>3 DEF Emit
<1>4. CASE Disconnect \/ Reconnect \/ Publish \/ UNCHANGED vars
  BY <1>4 DEF Disconnect, Reconnect, Publish, vars
<1>5. ASSUME NEW c \in Clients,
             \/ Read(Identity[c])
             \/ \E kinds \in KindFilters, focus \in Channels \union {None} :
                  StartWait(c, kinds, focus)
             \/ CheckUnread(c) \/ Sleep(c) \/ EndWait(c)
             \/ StartAsk(c) \/ LookForAnswer(c) \/ ExpireAsk(c) \/ LastLook(c)
      PROVE  id'[e] = id[e]
  BY <1>5 DEF Read, StartWait, CheckUnread, Sleep, EndWait, StartAsk, LookForAnswer,
              ExpireAsk, LastLook, Stay
<1>6. ASSUME NEW c \in Clients,
             \/ Receive(c) \/ FailToDescribe(c) \/ ReceiveMore(c) \/ ReceiveForAsk(c)
             \/ EndCall(c)
      PROVE  id'[e] = id[e]
  BY <1>6 DEF Receive, FailToDescribe, ReceiveMore, ReceiveForAsk, EndCall, Take, TakeLag
<1> QED
  BY <1>2, <1>3, <1>4, <1>5, <1>6 DEF Next

(* So what find_answer returns for a question that was posted only grows.   *)
LEMMA AnswersStay ==
  ASSUME IInv, [Next]_vars, NEW c \in Clients, AskTo[c] # None, id[Question[c]] > 0
  PROVE  id'[Question[c]] > 0 /\ Answers(c) \subseteq Answers(c)'
<1>1. Question[c] \in Events /\ id'[Question[c]] = id[Question[c]]
  BY UpdatesAssumption, PlacesStay
<1>2. \A e \in Events : id[e] > 0 => id'[e] = id[e]
  BY PlacesStay
<1>3. ASSUME NEW e \in Answers(c) PROVE e \in Answers(c)'
  <2>1. e \in Messages /\ e \in Events /\ id[e] > 0
    BY UpdatesAssumption DEF Answers, Committed
  <2>2. id'[e] = id[e]
    BY <1>2, <2>1
  <2> QED
    BY <1>1, <2>1, <2>2 DEF Answers, Committed
<1> QED
  BY <1>1, <1>3

(* The stages of an ask follow one another, and only the last look, which   *)
(* has to find nothing, ends it unanswered.                                 *)
LEMMA AskStages ==
  ASSUME IInv, [Next]_vars, NEW c \in Clients
  PROVE  \/ call'[c].at = call[c].at
         \/ call'[c].at \notin {"look", "looked", "block", "unanswered"}
         \/ call'[c].at = "look" /\ (call[c].at = "block" \/ id'[Question[c]] > 0)
         \/ call'[c].at = "looked" /\ call[c].at = "look"
         \/ call'[c].at = "block" /\ call[c].at = "looked"
         \/ call'[c].at = "unanswered" /\ Answers(c) = {}
<1>1. call[c] \in Calls /\ call \in [Clients -> Calls]
  BY DEF IInv, TypeOK, VariableTypes, Calls
<1>2. ASSUME NEW stage \in Stages, Go(c, stage) PROVE call'[c].at = stage
  BY <1>2, GoCall
<1>3. CASE CheckUnread(c) \/ Sleep(c) \/ EndWait(c)
  BY <1>2, <1>3 DEF CheckUnread, Sleep, EndWait, Stages
<1>4. CASE LookForAnswer(c) \/ ExpireAsk(c) \/ LastLook(c)
  BY <1>2, <1>4 DEF LookForAnswer, ExpireAsk, LastLook, Stages
<1>5. CASE Receive(c) \/ ReceiveForAsk(c)
  BY <1>2, <1>5 DEF Receive, ReceiveForAsk, Stages
<1>6. CASE PostQuestion(c)
  <2>1. Question[c] \in Events /\ AskTo[c] # None
    BY <1>6, UpdatesAssumption DEF PostQuestion, IInv, Covered, CoveredCall
  <2>2. Question[c] \in Committed' /\ call'[c].at = "look"
    BY <1>2, <1>6, <2>1, CommitType DEF PostQuestion, IInv, Stages
  <2> QED
    BY <2>2 DEF Committed
<1>7. CASE StartAsk(c)
  <2> DEFINE k == [IdleCall EXCEPT !.at = IF id[Question[c]] = 0 THEN "post" ELSE "look"]
  <2>1. IdleCall \in Calls
    BY DEF IdleCall, Calls, Stages
  <2>2. k.at = IF id[Question[c]] = 0 THEN "post" ELSE "look"
    BY <2>1 DEF Calls
  <2>3. call'[c] = k /\ id' = id
    BY <1>1, <1>7 DEF StartAsk, Stay
  <2>4. id[Question[c]] \in Nat
    BY <1>7, UpdatesAssumption DEF StartAsk, IInv, TypeOK, VariableTypes
  <2> HIDE DEF k
  <2> QED
    BY <2>2, <2>3, <2>4
<1>8. ASSUME NEW kinds \in KindFilters, NEW focus \in Channels \union {None},
             StartWait(c, kinds, focus)
      PROVE  call'[c].at = "check"
  <2> DEFINE k == [IdleCall EXCEPT !.at = "check", !.kinds = kinds, !.focus = focus]
  <2>1. k.at = "check"
    BY UpdatesAssumption DEF IdleCall, Calls, Stages
  <2>2. call'[c] = k
    BY <1>1, <1>8 DEF StartWait
  <2> HIDE DEF k
  <2> QED
    BY <2>1, <2>2
<1>9. CASE FailToDescribe(c) \/ ReceiveMore(c)
  <2>1. call[c].at \in {"wait", "grace"}
    BY <1>9 DEF FailToDescribe, ReceiveMore
  <2>2. CASE FailToDescribe(c)
    <3>1. call' = [call EXCEPT ![c].failed = @ \union {Head(queue[c])}]
      BY <2>2 DEF FailToDescribe
    <3> QED
      BY <1>1, <3>1 DEF Calls
  <2>3. CASE ReceiveMore(c) /\ TakeLag(c) /\ Go(c, "woke")
    BY <1>2, <2>3 DEF Stages
  <2>4. CASE ReceiveMore(c) /\ Take(c)
    <3> DEFINE left == IF Batched(Head(queue[c]), c) THEN call[c].dropped
                       ELSE call[c].dropped \union {Head(queue[c])}
    <3>1. call' = [call EXCEPT ![c].dropped = left]
      BY <2>4 DEF ReceiveMore, Take, TakeLag
    <3> HIDE DEF left
    <3> QED
      BY <1>1, <3>1 DEF Calls
  <2> QED
    BY <1>9, <2>1, <2>2, <2>3, <2>4 DEF ReceiveMore
<1>10. CASE EndCall(c)
  BY <1>1, <1>10 DEF EndCall, IdleCall
<1>11. ASSUME NEW d \in Clients \ {c},
              \/ \E kinds \in KindFilters, focus \in Channels \union {None} :
                   StartWait(d, kinds, focus)
              \/ CheckUnread(d) \/ Sleep(d) \/ Receive(d)
              \/ FailToDescribe(d) \/ ReceiveMore(d) \/ EndWait(d)
              \/ StartAsk(d) \/ PostQuestion(d) \/ LookForAnswer(d)
              \/ ReceiveForAsk(d) \/ ExpireAsk(d) \/ LastLook(d) \/ EndCall(d)
       PROVE  call'[c] = call[c]
  BY <1>1, <1>11 DEF StartWait, CheckUnread, Sleep, Receive, FailToDescribe, ReceiveMore,
     EndWait, StartAsk, PostQuestion, LookForAnswer, ReceiveForAsk, ExpireAsk, LastLook,
     EndCall, Go
<1>12. CASE \/ \E e \in Events : Emit(e)
            \/ Disconnect \/ Reconnect \/ Publish
            \/ \E d \in Clients : Read(Identity[d])
            \/ UNCHANGED vars
  BY <1>12 DEF Emit, Disconnect, Reconnect, Publish, Read, vars
<1> QED
  BY <1>3, <1>4, <1>5, <1>6, <1>7, <1>8, <1>9, <1>10, <1>11, <1>12 DEF Next

LEMMA PostedKeeps == IInv /\ AsksArePosted /\ [Next]_vars => AsksArePosted'
<1> SUFFICES ASSUME IInv, AsksArePosted, [Next]_vars, NEW c \in Clients,
                    call'[c].at \in {"look", "looked", "block"}
             PROVE  id'[Question[c]] > 0
  BY DEF AsksArePosted
<1>1. CASE call[c].at \in {"look", "looked", "block"}
  BY <1>1, AnswersStay DEF AsksArePosted, IInv, Covered, CoveredCall
<1>2. CASE call[c].at \notin {"look", "looked", "block"}
  BY <1>2, AskStages
<1> QED
  BY <1>1, <1>2

LEMMA AnswerKeeps ==
  ASSUME IInv, [Next]_vars, NEW c \in Clients, HasAnswer(c)
  PROVE  HasAnswer(c)'
<1>1. id'[Question[c]] > 0 /\ Answers(c)' # {}
  BY AnswersStay DEF HasAnswer
<1>2. call'[c].at # "unanswered"
  BY AskStages DEF HasAnswer
<1> QED
  BY <1>1, <1>2 DEF HasAnswer

(* ask_agent: once an answer is there while the asker sleeps, neither this  *)
(* ask nor one that resumes it ends unanswered, whatever is lost on the way *)
(* and however the answer races the deadline; that it does end is what      *)
(* fairness adds (AnswerArrives).                                           *)
THEOREM AnAnswerIsNeverMissed ==
  ASSUME NEW c \in Clients
  PROVE  Spec => [](call[c].at = "block" /\ Answers(c) # {} => [](call[c].at # "unanswered"))
<1>1. Init => AsksArePosted
  BY DEF Init, AsksArePosted, IdleCall
<1>2. IInv /\ HasAnswer(c) /\ [Next]_vars => HasAnswer(c)'
  BY AnswerKeeps
<1>3. HasAnswer(c) => call[c].at # "unanswered"
  BY DEF HasAnswer
<1>4. IInv /\ AsksArePosted /\ (call[c].at = "block" /\ Answers(c) # {}) => HasAnswer(c)
  BY DEF HasAnswer, AsksArePosted, IInv, Covered, CoveredCall
<1> QED
  BY <1>1, <1>2, <1>3, <1>4, PostedKeeps, Invariance, PTL DEF Spec
=============================================================================
