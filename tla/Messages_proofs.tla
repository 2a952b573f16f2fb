--------------------------- MODULE Messages_proofs ---------------------------
(***************************************************************************)
(* What the read cursors promise for any number of readers, posts, windows *)
(* and limits, whatever order posts commit in and reads interleave.        *)
(***************************************************************************)
EXTENDS Messages, TLAPS

(* A read that has not moved its cursor yet.  The cursor it began from only *)
(* rose since; what it is about to pass over is in its hands, or committed  *)
(* too late for it.                                                         *)
Underway ==
  \A c \in Clients : LET r == read[c] IN
    r.at \in {"select", "advance"} =>
      /\ r.since <= cursor[Key(r.window)]
      /\ r.at = "advance" =>
           /\ \E p \in r.rows : id[p] = r.upto
           /\ \A p \in r.rows : id[p] <= r.upto
           /\ \A p \in Posted :
                Visible(r.window, p) /\ r.since < id[p] /\ id[p] <= r.upto =>
                  p \in r.rows \union r.rest \union late

(* The cursor was moved before the reply is sent. *)
Answered ==
  \A c \in Clients : LET r == read[c] IN
    r.at = "reply" => \A p \in r.rows : id[p] <= cursor[Key(r.window)]

(* Only what was committed has met a fate. *)
Known == \A w \in Windows, p \in Posts : fate[w][p] # "none" => p \in Committed

(* The inductive invariant of the cursors. *)
IInv == TypeOK /\ Known /\ Underway /\ Answered /\ ShownIsRead /\ NothingElseSkipped

-----------------------------------------------------------------------------
(* A client's view is a window, and a window has a cursor. *)
LEMMA WindowType == \A c \in Clients, v \in Views : WindowOf(c, v) \in Windows
BY MessagesAssumption DEF WindowOf, Windows, Identities

LEMMA KeyType == \A w \in Windows : Key(w) \in Keys
BY DEF Key, Keys, Windows

(* No two windows share a cursor, the shared session's included. *)
LEMMA KeyInjective == \A w, x \in Windows : Key(w) = Key(x) => w = x
<1> SUFFICES ASSUME NEW w \in Windows, NEW x \in Windows, Key(w) = Key(x) PROVE w = x
  OBVIOUS
<1>1. w = <<w[1], w[2], w[3], w[4]>> /\ x = <<x[1], x[2], x[3], x[4]>>
  BY DEF Windows
<1>2. w[4] \in BOOLEAN /\ x[4] \in BOOLEAN
  BY DEF Windows
<1>3. w[1] = x[1] /\ w[2] = x[2] /\ w[3] = x[3] /\ w[4] = x[4]
  BY <1>2 DEF Key
<1> QED
  BY <1>1, <1>3

(* The limit that is used is a number of messages. *)
LEMMA LimitType == \A n \in Limits : ClampLimit(n) \in Nat
BY MessagesAssumption DEF ClampLimit

-----------------------------------------------------------------------------
LEMMA TypeInit == Init => TypeOK
<1> SUFFICES ASSUME Init PROVE TypeOK
  OBVIOUS
<1>1. VariableTypes
  BY DEF Init, VariableTypes, Stages, Fates, ReadType, IdleRead, Committed
<1>2. MailShape
  BY KeyType DEF Init, MailShape, Idle, IdleRead
<1> QED
  BY <1>1, <1>2 DEF TypeOK

LEMMA InsertType == ASSUME TypeOK, NEW p \in Posts, InsertMessage(p) PROVE TypeOK'
<1> USE DEF TypeOK, InsertMessage
<1>1. Posted' = Posted /\ Committed' = Committed
  BY DEF Posted, Committed, VariableTypes
<1>2. VariableTypes'
  BY <1>1 DEF VariableTypes, Stages
<1>3. \A q \in Committed : id'[q] = id[q]
  BY DEF Committed, VariableTypes
<1>4. /\ \A q \in Posts : (id[q] = 0 <=> stage[q] = "unsent")' /\ id'[q] <= drawn'
      /\ \A q, r \in Posts : id'[q] = id'[r] /\ q # r => id'[q] = 0
  BY DEF VariableTypes, MailShape
<1>5. MailShape'
  BY <1>1, <1>3, <1>4 DEF MailShape, Idle, VariableTypes
<1> QED
  BY <1>2, <1>5

LEMMA CommitType == ASSUME TypeOK, NEW p \in Posts, CommitMessage(p) PROVE TypeOK'
<1> USE DEF TypeOK, CommitMessage
<1>1. Posted' = Posted \union {p} /\ Committed' = Committed \union {p}
  BY DEF Posted, Committed, Committed, VariableTypes
<1>2. VariableTypes'
  BY <1>1 DEF VariableTypes, Stages
<1>3. MailShape'
  BY <1>1 DEF MailShape, Idle, VariableTypes
<1> QED
  BY <1>2, <1>3

LEMMA FailType == ASSUME TypeOK, NEW p \in Posts, FailPost(p) PROVE TypeOK'
<1> USE DEF TypeOK, FailPost
<1>1. Posted' = Posted /\ Committed' = Committed
  BY DEF Posted, Committed, VariableTypes
<1>2. VariableTypes'
  BY <1>1 DEF VariableTypes, Stages
<1>3. MailShape'
  BY <1>1 DEF MailShape, Idle, VariableTypes
<1> QED
  BY <1>2, <1>3

LEMMA PruneType ==
  ASSUME TypeOK, NEW old \in SUBSET Posted, PruneMessages(old) PROVE TypeOK'
<1> USE DEF TypeOK, PruneMessages
<1>1. Posted' \subseteq Posted /\ Committed' = Committed
  BY DEF Posted, Committed, VariableTypes
<1>2. VariableTypes'
  BY <1>1 DEF VariableTypes, Stages, Posted
<1>3. \A p \in Posts : stage'[p] = "unsent" <=> stage[p] = "unsent"
  BY DEF Posted
<1>4. MailShape'
  BY <1>1, <1>3 DEF MailShape, Idle
<1> QED
  BY <1>2, <1>4

LEMMA BeginType ==
  ASSUME TypeOK, NEW c \in Clients, NEW v \in Views, NEW n \in Limits, ReadCursor(c, v, n)
  PROVE  TypeOK'
<1> USE DEF TypeOK, ReadCursor, posts
<1>1. Posted' = Posted /\ Committed' = Committed
  BY DEF Posted, Committed
<1>2. WindowOf(c, v) \in Windows /\ cursor[Key(WindowOf(c, v))] \in Nat
  BY WindowType, KeyType DEF VariableTypes
<1>3. VariableTypes'
  BY <1>1, <1>2, LimitType DEF VariableTypes, ReadType, IdleRead
<1>4. MailShape'
  BY <1>1, <1>2 DEF MailShape, Idle, VariableTypes, IdleRead
<1> QED
  BY <1>3, <1>4

LEMMA SelectType == ASSUME TypeOK, NEW c \in Clients, SelectRows(c) PROVE TypeOK'
<1> USE DEF TypeOK
<1>1. Posted' = Posted /\ Committed' = Committed
  BY DEF Posted, Committed, SelectRows, posts
<1>2. PICK rows \in SUBSET {p \in Posted : Visible(read[c].window, p) /\ id[p] > read[c].since},
           upto \in {read[c].since} \union
             {id[p] : p \in {p \in Posted : Visible(read[c].window, p) /\ id[p] > read[c].since}} :
        read' = [read EXCEPT ![c] =
                   [read[c] EXCEPT !.at = IF rows = {} THEN "reply" ELSE "advance",
                      !.upto = upto, !.rows = rows,
                      !.rest = {p \in Posted : Visible(read[c].window, p)
                                               /\ id[p] > read[c].since} \ rows]]
  BY Zenon DEF SelectRows
<1>3. upto \in Nat
  BY <1>2 DEF VariableTypes, ReadType, Posted
<1> DEFINE r == [read[c] EXCEPT
                 !.at = IF rows = {} THEN "reply" ELSE "advance",
                 !.upto = upto, !.rows = rows,
                 !.rest = {p \in Posted : Visible(read[c].window, p)
                                          /\ id[p] > read[c].since} \ rows]
<1>4. read[c] \in ReadType
  BY DEF VariableTypes
<1>5. r \in ReadType
  BY <1>3, <1>4 DEF ReadType, Posted
<1>6. read' = [read EXCEPT ![c] = r] /\ UNCHANGED <<posts, cursor, fate>>
  BY <1>2 DEF SelectRows
<1>7. VariableTypes'
  <2> HIDE DEF r
  <2> QED
    BY <1>1, <1>5, <1>6 DEF VariableTypes, posts
<1>8. MailShape'
  BY <1>1, <1>2 DEF MailShape, Idle, VariableTypes, ReadType, SelectRows, posts, Posted,
                    Committed
<1> QED
  BY <1>7, <1>8

LEMMA AdvanceType == ASSUME TypeOK, Underway, NEW c \in Clients, AdvanceCursor(c) PROVE TypeOK'
<1> USE DEF TypeOK, AdvanceCursor, posts
<1>1. Posted' = Posted /\ Committed' = Committed
  BY DEF Posted, Committed
<1>2. read[c].window \in Windows /\ Key(read[c].window) \in Keys /\ read[c].upto \in Nat
  BY KeyType DEF MailShape, Idle, VariableTypes, ReadType
<1>3. VariableTypes'
  BY <1>1, <1>2 DEF VariableTypes, ReadType, Fates, Greatest
<1>4. PICK p \in read[c].rows : id[p] = read[c].upto
  BY DEF Underway
<1>5. p \in Committed /\ Visible(read[c].window, p)
  BY <1>4 DEF MailShape
<1>6. \A w \in Windows : cursor'[Key(w)] = 0
        \/ \E q \in Committed : cursor'[Key(w)] = id[q] /\ Visible(w, q)
  <2> TAKE w \in Windows
  <2>1. CASE w = read[c].window
    BY <1>2, <1>4, <1>5, <2>1 DEF VariableTypes, MailShape, Greatest
  <2>2. CASE w # read[c].window
    BY <1>2, <2>2, KeyInjective, KeyType DEF VariableTypes, MailShape
  <2> QED
    BY <2>1, <2>2
<1>7. \A d \in Clients :
        /\ read'[d].window = read[d].window
        /\ read'[d].rows = read[d].rows
        /\ read'[d].rest = read[d].rest
        /\ (~Idle(d))' => ~Idle(d)
  BY DEF VariableTypes, ReadType, Idle
<1>8. MailShape'
  <2>1. MailShape /\ UNCHANGED <<stage, id, drawn>>
    OBVIOUS
  <2> HIDE DEF AdvanceCursor, TypeOK
  <2> QED
    BY <1>1, <1>6, <1>7, <2>1 DEF MailShape
<1> QED
  BY <1>3, <1>8

LEMMA EndType ==
  ASSUME TypeOK, NEW c \in Clients, Reply(c) \/ Abort(c) PROVE TypeOK'
<1> USE DEF TypeOK, Reply, Abort, posts
<1>1. Posted' = Posted /\ Committed' = Committed
  BY DEF Posted, Committed
<1>2. read' = [read EXCEPT ![c] = IdleRead] /\ ~Idle(c) /\ UNCHANGED <<posts, cursor>>
  BY DEF Idle
<1>3. read[c].window \in Windows
  BY <1>2 DEF MailShape
<1>4. fate' \in [Windows -> [Posts -> Fates]]
  <2>1. CASE Reply(c)
    BY <1>3, <2>1 DEF VariableTypes, Fates
  <2>2. CASE Abort(c)
    BY <1>3, <2>2 DEF VariableTypes, Fates
  <2> QED
    BY <2>1, <2>2
<1>5. VariableTypes'
  BY <1>1, <1>2, <1>4 DEF VariableTypes, ReadType, IdleRead
<1>6. MailShape'
  BY <1>1, <1>2 DEF MailShape, Idle, VariableTypes, IdleRead
<1> QED
  BY <1>5, <1>6

-----------------------------------------------------------------------------
(* A message that gets its id is not in anybody's hands yet. *)
LEMMA InsertKeeps == ASSUME IInv, NEW p \in Posts, InsertMessage(p) PROVE IInv'
<1> USE DEF InsertMessage
<1>1. TypeOK'
  BY InsertType DEF IInv
<1>2. /\ Posted' = Posted /\ Committed' = Committed /\ p \notin Committed
      /\ \A q \in Posts : q # p => id'[q] = id[q]
  BY DEF Posted, Committed, IInv, TypeOK, VariableTypes
<1>3. UNCHANGED <<late, cursor, read, fate>>
  OBVIOUS
<1>4. \A c \in Clients : \A q \in read[c].rows : q \in Committed
  BY DEF IInv, TypeOK, MailShape
<1>5. Posted \subseteq Committed /\ \A q \in Committed : q \in Posts /\ id'[q] = id[q]
  BY <1>2 DEF Posted, Committed
<1> HIDE DEF InsertMessage
<1>6. Known'
  BY <1>2, <1>3 DEF IInv, Known
<1>7. Underway'
  BY <1>2, <1>3, <1>4, <1>5 DEF IInv, Underway
<1>8. Answered'
  BY <1>3, <1>4, <1>5 DEF IInv, Answered
<1>9. ShownIsRead'
  BY <1>3, <1>5 DEF IInv, ShownIsRead, Known
<1>10. NothingElseSkipped'
  BY <1>2, <1>3, <1>5 DEF IInv, NothingElseSkipped, OnItsWay
<1> QED
  BY <1>1, <1>6, <1>7, <1>8, <1>9, <1>10 DEF IInv

(* A cursor stands at a message that is posted: one that commits below it   *)
(* is late, and so is one that commits below what a read is about to pass.  *)
LEMMA CommitKeeps == ASSUME IInv, NEW p \in Posts, CommitMessage(p) PROVE IInv'
<1> USE DEF CommitMessage
<1>1. TypeOK'
  BY CommitType DEF IInv
<1>2. /\ Posted' = Posted \union {p} /\ p \notin Committed
      /\ Committed' = Committed \union {p}
  BY DEF Posted, Committed, IInv, TypeOK, VariableTypes
<1>3. UNCHANGED <<id, cursor, read, fate>> /\ late \subseteq late'
  OBVIOUS
<1>4. \A q \in Committed : id[q] > id[p] => p \in late'
  OBVIOUS
<1>5. /\ id \in [Posts -> Nat] /\ cursor \in [Keys -> Nat] /\ id[p] # 0
      /\ \A q \in Committed : q \in Posts /\ id[q] # id[p]
  BY <1>2 DEF IInv, TypeOK, VariableTypes, MailShape, Committed
<1>6. \A c \in Clients : \A q \in read[c].rows : q \in Committed
  BY DEF IInv, TypeOK, MailShape
<1> HIDE DEF CommitMessage
<1>7. Known'
  BY <1>2, <1>3 DEF IInv, Known
<1>8. Underway'
  <2> SUFFICES ASSUME NEW c \in Clients, read[c].at = "advance",
                      NEW q \in Posted', Visible(read[c].window, q),
                      read[c].since < id[q], id[q] <= read[c].upto
               PROVE  q \in read[c].rows \union read[c].rest \union late'
    BY <1>3 DEF IInv, Underway
  <2>1. CASE q \in Posted
    BY <1>3, <2>1 DEF IInv, Underway
  <2>2. CASE q = p
    <3>1. PICK x \in read[c].rows : id[x] = read[c].upto
      BY DEF IInv, Underway
    <3>2. x \in Committed /\ id[x] > id[p]
      BY <1>5, <1>6, <2>2, <3>1
    <3> QED
      BY <1>4, <2>2, <3>2
  <2> QED
    BY <1>2, <2>1, <2>2
<1>9. Answered'
  BY <1>3 DEF IInv, Answered
<1>10. ShownIsRead'
  BY <1>3 DEF IInv, ShownIsRead
<1>11. NothingElseSkipped'
  <2> SUFFICES ASSUME NEW w \in Windows, NEW q \in Posted', Visible(w, q),
                      id[q] <= cursor[Key(w)]
               PROVE  fate[w][q] # "none" \/ q \in late' \/ OnItsWay(w, q)
    BY <1>3 DEF NothingElseSkipped, OnItsWay
  <2>1. CASE q \in Posted
    BY <1>3, <2>1 DEF IInv, NothingElseSkipped
  <2>2. CASE q = p
    <3>1. cursor[Key(w)] # 0
      BY <1>5, <2>2, KeyType
    <3>2. PICK x \in Committed : cursor[Key(w)] = id[x]
      BY <3>1 DEF IInv, TypeOK, MailShape
    <3>3. id[x] > id[p]
      BY <1>5, <2>2, <3>2
    <3> QED
      BY <1>4, <2>2, <3>3
  <2> QED
    BY <1>2, <2>1, <2>2
<1> QED
  BY <1>1, <1>7, <1>8, <1>9, <1>10, <1>11 DEF IInv

LEMMA FailKeeps == ASSUME IInv, NEW p \in Posts, FailPost(p) PROVE IInv'
<1>1. TypeOK'
  BY FailType DEF IInv
<1>2. Posted' = Posted /\ Committed' = Committed
  BY DEF Posted, Committed, IInv, TypeOK, VariableTypes, FailPost
<1>3. UNCHANGED <<id, late, cursor, read, fate>>
  BY DEF FailPost
<1>4. Known' /\ Underway' /\ Answered' /\ ShownIsRead' /\ NothingElseSkipped'
  BY <1>2, <1>3 DEF IInv, Known, Underway, Answered, ShownIsRead, NothingElseSkipped,
                    OnItsWay
<1> QED
  BY <1>1, <1>4 DEF IInv

(* Pruning takes messages away from reads to come, and from no cursor.      *)
LEMMA PruneKeeps == ASSUME IInv, NEW old \in SUBSET Posted, PruneMessages(old) PROVE IInv'
<1>1. TypeOK'
  BY PruneType DEF IInv
<1>2. Posted' \subseteq Posted /\ Committed' = Committed
  BY DEF Posted, Committed, IInv, TypeOK, VariableTypes, PruneMessages
<1>3. UNCHANGED <<id, late, cursor, read, fate>>
  BY DEF PruneMessages
<1>4. Known' /\ Underway' /\ Answered' /\ ShownIsRead' /\ NothingElseSkipped'
  BY <1>2, <1>3 DEF IInv, Known, Underway, Answered, ShownIsRead, NothingElseSkipped,
                    OnItsWay
<1> QED
  BY <1>1, <1>4 DEF IInv

-----------------------------------------------------------------------------
LEMMA BeginKeeps ==
  ASSUME IInv, NEW c \in Clients, NEW v \in Views, NEW n \in Limits, ReadCursor(c, v, n)
  PROVE  IInv'
<1>1. TypeOK'
  BY BeginType DEF IInv
<1>2. /\ UNCHANGED <<stage, id, drawn, late, cursor, fate>>
      /\ Posted' = Posted /\ Committed' = Committed
  BY DEF ReadCursor, posts, Posted, Committed
<1>3. WindowOf(c, v) \in Windows /\ cursor[Key(WindowOf(c, v))] \in Nat
  BY WindowType, KeyType DEF IInv, TypeOK, VariableTypes
<1>4. /\ \A d \in Clients \ {c} : read'[d] = read[d]
      /\ read'[c].at = "select" /\ read'[c].window = WindowOf(c, v)
      /\ read'[c].since = cursor[Key(WindowOf(c, v))]
      /\ read[c].at = "idle"
  BY DEF ReadCursor, IdleRead, IInv, TypeOK, VariableTypes, Idle
<1>5. Known' /\ ShownIsRead'
  BY <1>2 DEF IInv, Known, ShownIsRead
<1>6. Underway'
  BY <1>2, <1>3, <1>4 DEF IInv, Underway
<1>7. Answered'
  BY <1>2, <1>4 DEF IInv, Answered
<1>8. NothingElseSkipped'
  BY <1>2, <1>4 DEF IInv, NothingElseSkipped, OnItsWay
<1> QED
  BY <1>1, <1>5, <1>6, <1>7, <1>8 DEF IInv

(* The rows are the newest of what is new, so the older rest and they are   *)
(* all there is up to the highest of them.                                  *)
LEMMA SelectKeeps == ASSUME IInv, NEW c \in Clients, SelectRows(c) PROVE IInv'
<1>1. TypeOK'
  BY SelectType DEF IInv
<1>2. /\ UNCHANGED <<stage, id, drawn, late, cursor, fate>>
      /\ Posted' = Posted /\ Committed' = Committed
  BY DEF SelectRows, posts, Posted, Committed
<1> DEFINE new == {p \in Posted : Visible(read[c].window, p) /\ id[p] > read[c].since}
<1>3. PICK rows \in SUBSET new, upto \in {read[c].since} \union {id[p] : p \in new} :
        /\ \A p \in rows : id[p] <= upto
        /\ IF rows = {} THEN upto = read[c].since ELSE \E p \in rows : id[p] = upto
        /\ read' = [read EXCEPT ![c] =
                      [read[c] EXCEPT !.at = IF rows = {} THEN "reply" ELSE "advance",
                         !.upto = upto, !.rows = rows, !.rest = new \ rows]]
  BY Zenon DEF SelectRows
<1>4. /\ \A d \in Clients \ {c} : read'[d] = read[d]
      /\ read'[c].at = IF rows = {} THEN "reply" ELSE "advance"
      /\ read'[c].window = read[c].window /\ read'[c].since = read[c].since
      /\ read'[c].upto = upto /\ read'[c].rows = rows /\ read'[c].rest = new \ rows
      /\ read[c].at = "select"
  BY <1>3 DEF SelectRows, IInv, TypeOK, VariableTypes, ReadType
<1>5. Known' /\ ShownIsRead'
  BY <1>2 DEF IInv, Known, ShownIsRead
<1>6. Underway'
  <2> SUFFICES ASSUME NEW d \in Clients, read'[d].at \in {"select", "advance"}
               PROVE  /\ read'[d].since <= cursor[Key(read'[d].window)]
                      /\ read'[d].at = "advance" =>
                           /\ \E p \in read'[d].rows : id[p] = read'[d].upto
                           /\ \A p \in read'[d].rows : id[p] <= read'[d].upto
                           /\ \A p \in Posted :
                                Visible(read'[d].window, p) /\ read'[d].since < id[p]
                                  /\ id[p] <= read'[d].upto =>
                                  p \in read'[d].rows \union read'[d].rest \union late
    BY <1>2 DEF Underway
  <2>1. CASE d = c
    BY <1>3, <1>4, <2>1 DEF IInv, Underway
  <2>2. CASE d # c
    BY <1>4, <2>2 DEF IInv, Underway
  <2> QED
    BY <2>1, <2>2
<1>7. Answered'
  BY <1>2, <1>4 DEF IInv, Answered
<1>8. NothingElseSkipped'
  BY <1>2, <1>4 DEF IInv, NothingElseSkipped, OnItsWay
<1> QED
  BY <1>1, <1>5, <1>6, <1>7, <1>8 DEF IInv

(* The one cursor that moves is that of the read's own window, and what it  *)
(* passes is in the reply, left out of it, or late.                         *)
LEMMA AdvanceKeeps == ASSUME IInv, NEW c \in Clients, AdvanceCursor(c) PROVE IInv'
<1> DEFINE w == read[c].window
<1>1. TypeOK'
  BY AdvanceType DEF IInv
<1>2. /\ UNCHANGED <<stage, id, drawn, late>>
      /\ Posted' = Posted /\ Committed' = Committed
  BY DEF AdvanceCursor, posts, Posted, Committed
<1>3. /\ w \in Windows /\ Key(w) \in Keys /\ read[c] \in ReadType
      /\ id \in [Posts -> Nat] /\ cursor \in [Keys -> Nat] /\ read[c].at = "advance"
      /\ \A p \in read[c].rows \union read[c].rest : p \in Committed
  BY KeyType DEF IInv, TypeOK, VariableTypes, MailShape, Idle, AdvanceCursor
<1>4. /\ \A d \in Clients \ {c} : read'[d] = read[d]
      /\ read'[c].at = "reply" /\ read'[c].window = w /\ read'[c].rows = read[c].rows
  BY <1>3 DEF AdvanceCursor, IInv, TypeOK, VariableTypes, ReadType
<1>5. /\ cursor'[Key(w)] = Greatest(cursor[Key(w)], read[c].upto)
      /\ \A k \in Keys : cursor[k] <= cursor'[k]
      /\ \A x \in Windows : x # w => cursor'[Key(x)] = cursor[Key(x)]
  <2>1. cursor' = [cursor EXCEPT ![Key(w)] = Greatest(cursor[Key(w)], read[c].upto)]
    BY DEF AdvanceCursor
  <2> QED
    BY <1>3, <2>1, KeyInjective, KeyType DEF Greatest, ReadType
<1>6. \A x \in Windows, p \in Posts :
        /\ fate'[x][p] = fate[x][p] \/ (fate'[x][p] = "left out" /\ p \in Committed)
        /\ fate[x][p] # "none" => fate'[x][p] = fate[x][p]
        /\ x = w /\ p \in read[c].rest => fate'[x][p] # "none"
  BY <1>3 DEF AdvanceCursor, IInv, TypeOK, VariableTypes, Fates
<1>7. Known'
  BY <1>2, <1>6 DEF IInv, Known
<1>8. ShownIsRead'
  <2> SUFFICES ASSUME NEW x \in Windows, NEW p \in Posts, fate'[x][p] = "shown"
               PROVE  id[p] <= cursor'[Key(x)]
    BY <1>2 DEF ShownIsRead
  <2>1. id[p] <= cursor[Key(x)]
    BY <1>6 DEF IInv, ShownIsRead
  <2>2. cursor[Key(x)] <= cursor'[Key(x)] /\ cursor'[Key(x)] \in Nat
    BY <1>1, <1>5, KeyType DEF TypeOK, VariableTypes
  <2> QED
    BY <1>3, <2>1, <2>2, KeyType
<1>9. Underway'
  <2> SUFFICES ASSUME NEW d \in Clients, read'[d].at \in {"select", "advance"}
               PROVE  read[d].since <= cursor'[Key(read[d].window)]
    BY <1>2, <1>4 DEF IInv, Underway
  <2>1. d # c /\ read[d].at \in {"select", "advance"}
    BY <1>4
  <2>2. read[d].since <= cursor[Key(read[d].window)]
    BY <2>1 DEF IInv, Underway
  <2>3. read[d].window \in Windows /\ read[d].since \in Nat
    BY <2>1 DEF IInv, TypeOK, VariableTypes, MailShape, ReadType, Idle
  <2>4. /\ cursor[Key(read[d].window)] <= cursor'[Key(read[d].window)]
        /\ cursor'[Key(read[d].window)] \in Nat
    BY <1>1, <1>5, <2>3, KeyType DEF TypeOK, VariableTypes
  <2> QED
    BY <1>3, <2>2, <2>3, <2>4, KeyType
<1>10. Answered'
  <2> SUFFICES ASSUME NEW d \in Clients, read'[d].at = "reply", NEW p \in read[d].rows
               PROVE  id[p] <= cursor'[Key(read[d].window)]
    BY <1>2, <1>4 DEF Answered
  <2>1. p \in Posts /\ read[d].window \in Windows
    BY <1>3, <1>4 DEF IInv, TypeOK, MailShape, Idle, Committed
  <2>2. CASE d = c
    BY <1>3, <1>5, <2>1, <2>2 DEF IInv, Underway, Greatest, ReadType
  <2>3. CASE d # c
    <3>1. id[p] <= cursor[Key(read[d].window)]
      BY <1>4, <2>3 DEF IInv, Answered
    <3>2. /\ cursor[Key(read[d].window)] <= cursor'[Key(read[d].window)]
          /\ cursor'[Key(read[d].window)] \in Nat
      BY <1>1, <1>5, <2>1, KeyType DEF TypeOK, VariableTypes
    <3> QED
      BY <1>3, <2>1, <3>1, <3>2, KeyType
  <2> QED
    BY <2>2, <2>3
<1>11. NothingElseSkipped'
  <2> SUFFICES ASSUME NEW x \in Windows, NEW p \in Posted, Visible(x, p),
                      id[p] <= cursor'[Key(x)]
               PROVE  fate'[x][p] # "none" \/ p \in late \/ OnItsWay(x, p)'
    BY <1>2 DEF NothingElseSkipped
  <2>0. p \in Posts
    BY DEF Posted
  <2>1. CASE id[p] <= cursor[Key(x)]
    <3>1. OnItsWay(x, p) => OnItsWay(x, p)'
      BY <1>3, <1>4 DEF OnItsWay
    <3> QED
      BY <1>6, <2>0, <2>1, <3>1 DEF IInv, NothingElseSkipped
  <2>2. CASE ~(id[p] <= cursor[Key(x)])
    <3>1. x = w
      BY <1>5, <2>2
    <3>2. read[c].since < id[p] /\ id[p] <= read[c].upto
      BY <1>3, <1>5, <2>0, <2>2, <3>1 DEF IInv, Underway, Greatest, ReadType
    <3>3. p \in read[c].rows \union read[c].rest \union late
      BY <1>3, <3>1, <3>2 DEF IInv, Underway
    <3>4. p \in read[c].rows => OnItsWay(x, p)'
      BY <1>4, <3>1 DEF OnItsWay
    <3> QED
      BY <1>6, <2>0, <3>1, <3>3, <3>4
  <2> QED
    BY <2>1, <2>2
<1> QED
  BY <1>1, <1>7, <1>8, <1>9, <1>10, <1>11 DEF IInv

(* What a reply shows was below the cursor already; what an answer that got *)
(* lost would have shown is lost.                                           *)
LEMMA EndKeeps == ASSUME IInv, NEW c \in Clients, Reply(c) \/ Abort(c) PROVE IInv'
<1> DEFINE w == read[c].window
<1>1. TypeOK'
  BY EndType DEF IInv
<1>2. /\ UNCHANGED <<stage, id, drawn, late, cursor>>
      /\ Posted' = Posted /\ Committed' = Committed
  BY DEF Reply, Abort, posts, Posted, Committed
<1>3. /\ w \in Windows
      /\ \A p \in read[c].rows : p \in Committed
  BY DEF IInv, TypeOK, MailShape, Idle, Reply, Abort
<1>4. /\ \A d \in Clients \ {c} : read'[d] = read[d]
      /\ read'[c].at = "idle"
  BY DEF Reply, Abort, IdleRead, IInv, TypeOK, VariableTypes
<1>5. \A x \in Windows, p \in Posts :
        /\ fate[x][p] # "none" => fate'[x][p] # "none"
        /\ fate'[x][p] # "none" => fate[x][p] # "none" \/ p \in read[c].rows
        /\ fate'[x][p] = "shown" =>
             fate[x][p] = "shown" \/ (x = w /\ p \in read[c].rows /\ read[c].at = "reply")
        /\ x = w /\ p \in read[c].rows /\ read[c].at = "reply" => fate'[x][p] # "none"
  <2>1. CASE Reply(c)
    BY <1>3, <2>1 DEF Reply, IInv, TypeOK, VariableTypes
  <2>2. CASE Abort(c)
    BY <1>3, <2>2 DEF Abort, IInv, TypeOK, VariableTypes
  <2> QED
    BY <2>1, <2>2
<1>6. Known'
  BY <1>2, <1>3, <1>5 DEF IInv, Known
<1>7. Underway' /\ Answered'
  BY <1>2, <1>4 DEF IInv, Underway, Answered
<1>8. ShownIsRead'
  BY <1>2, <1>3, <1>5 DEF IInv, ShownIsRead, Answered
<1>9. NothingElseSkipped'
  <2> SUFFICES ASSUME NEW x \in Windows, NEW p \in Posted, Visible(x, p),
                      id[p] <= cursor[Key(x)]
               PROVE  fate'[x][p] # "none" \/ p \in late \/ OnItsWay(x, p)'
    BY <1>2 DEF NothingElseSkipped
  <2>1. p \in Posts
    BY DEF Posted
  <2>2. CASE OnItsWay(x, p)
    <3>1. PICK d \in Clients : read[d].at = "reply" /\ read[d].window = x /\ p \in read[d].rows
      BY <2>2 DEF OnItsWay
    <3>2. CASE d = c
      BY <1>5, <2>1, <3>1, <3>2
    <3>3. CASE d # c
      BY <1>4, <3>1, <3>3 DEF OnItsWay
    <3> QED
      BY <3>2, <3>3
  <2>3. CASE fate[x][p] # "none" \/ p \in late
    BY <1>5, <2>1, <2>3
  <2> QED
    BY <2>2, <2>3 DEF IInv, NothingElseSkipped
<1> QED
  BY <1>1, <1>6, <1>7, <1>8, <1>9 DEF IInv

-----------------------------------------------------------------------------
LEMMA InvInit == Init => IInv
<1> SUFFICES ASSUME Init PROVE IInv
  OBVIOUS
<1>1. TypeOK
  BY TypeInit
<1>2. Known /\ ShownIsRead
  BY DEF Init, Known, ShownIsRead
<1>3. Underway /\ Answered
  BY DEF Init, Underway, Answered, IdleRead
<1>4. NothingElseSkipped
  BY DEF Init, NothingElseSkipped, Posted
<1> QED
  BY <1>1, <1>2, <1>3, <1>4 DEF IInv

LEMMA InvStep == IInv /\ [Next]_vars => IInv'
<1> SUFFICES ASSUME IInv, [Next]_vars PROVE IInv'
  OBVIOUS
<1>1. ASSUME NEW p \in Posts, InsertMessage(p) PROVE IInv'
  BY <1>1, InsertKeeps
<1>2. ASSUME NEW p \in Posts, CommitMessage(p) PROVE IInv'
  BY <1>2, CommitKeeps
<1>3. ASSUME NEW p \in Posts, FailPost(p) PROVE IInv'
  BY <1>3, FailKeeps
<1>4. ASSUME NEW c \in Clients, NEW v \in Views, NEW n \in Limits, ReadCursor(c, v, n)
      PROVE  IInv'
  BY <1>4, BeginKeeps
<1>5. ASSUME NEW c \in Clients, SelectRows(c) PROVE IInv'
  BY <1>5, SelectKeeps
<1>6. ASSUME NEW c \in Clients, AdvanceCursor(c) PROVE IInv'
  BY <1>6, AdvanceKeeps
<1>7. ASSUME NEW c \in Clients, Reply(c) \/ Abort(c) PROVE IInv'
  BY <1>7, EndKeeps
<1>8. ASSUME NEW old \in SUBSET Posted, PruneMessages(old) PROVE IInv'
  BY <1>8, PruneKeeps
<1>9. CASE UNCHANGED vars
  BY <1>9 DEF vars, posts, IInv, TypeOK, VariableTypes, MailShape, Known, Underway, Answered,
              ShownIsRead, NothingElseSkipped, OnItsWay, Posted, Committed, Idle
<1> QED
  BY <1>1, <1>2, <1>3, <1>4, <1>5, <1>6, <1>7, <1>8, <1>9 DEF Next

THEOREM InvariantHolds == Spec => []IInv
BY InvInit, InvStep, PTL DEF Spec

(* Ids are drawn once each, a cursor stands at a message its window can     *)
(* see, and a read holds only such messages: post_message and read_messages *)
(* together, for any number of both.                                        *)
THEOREM TypeCorrect == Spec => []TypeOK
<1>1. IInv => TypeOK
  BY DEF IInv
<1> QED
  BY <1>1, InvariantHolds, PTL

(* What read_messages has returned stays below its cursor, whatever reads   *)
(* of the same window overlap: the GREATEST of the upsert.                  *)
THEOREM ShownStaysRead == Spec => []ShownIsRead
<1>1. IInv => ShownIsRead
  BY DEF IInv
<1> QED
  BY <1>1, InvariantHolds, PTL

(* The cursors of cursor_scope_for are kept apart: no read skips a message  *)
(* of another window, and none of its own but by its limit, by a reply that *)
(* got lost, or because the message committed out of order.                 *)
THEOREM WindowsKeptApart == Spec => []NothingElseSkipped
<1>1. IInv => NothingElseSkipped
  BY DEF IInv
<1> QED
  BY <1>1, InvariantHolds, PTL
=============================================================================
