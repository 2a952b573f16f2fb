-------------------------- MODULE Retention_proofs --------------------------
(***************************************************************************)
(* What notes and prunes promise for any number of calls, prunes and rows. *)
(***************************************************************************)
EXTENDS Retention, FiniteSetTheorems, TLAPS

(* A row's id names the call that inserted it, under that call's key; no   *)
(* call was given the id of a call that has not begun.                     *)
IdsNameInserts ==
  /\ \A k \in NoteKeys : notes[k] # NoNote =>
       calls[notes[k].id] # Idle /\ calls[notes[k].id].key = k
  /\ \A c \in Calls : calls[c] # Idle => calls[calls[c].note] # Idle

Running(p) == prunes[p].at \notin {"idle", "ended"}

(* A prune that runs looks back by the days it was given, and holds doomed  *)
(* only what is older.                                                      *)
DoomedIsOld ==
  \A p \in Prunes :
    /\ Running(p) => prunes[p].days \in 1..MaxDays
                     /\ prunes[p].cutoff + prunes[p].days <= clock
    /\ \A m \in prunes[p].messages : messages[m] < prunes[p].cutoff
    /\ \A e \in prunes[p].events : events[e] < prunes[p].cutoff
    /\ \A r \in prunes[p].revisions : r.at < prunes[p].cutoff

(* No row is doomed by two prunes. *)
DoomedApart ==
  \A p \in Prunes, q \in Prunes : p # q =>
    /\ prunes[p].messages \intersect prunes[q].messages = {}
    /\ prunes[p].events \intersect prunes[q].events = {}
    /\ prunes[p].revisions \intersect prunes[q].revisions = {}

(* What an undisturbed prune has measured is still what it would free. *)
MeasureHolds ==
  \A p \in Prunes :
    Measured(p) /\ ~prunes[p].disturbed =>
      prunes[p].freed = Cardinality(FilesOn(Old(messages, p)))

(* The inductive invariant. *)
IInv == /\ TypeOK
        /\ IdsNameInserts
        /\ TrailKept
        /\ DoomedIsOld
        /\ DoomedApart
        /\ MeasureHolds
        /\ ReportIsTrue

-----------------------------------------------------------------------------
(* A window that is accepted is the number of days that is used.           *)
LEMMA WindowIsKept ==
  ASSUME NEW days \in Int, Accepted(days)
  PROVE  days \in 1..MaxDays /\ AsI32(days) = days
<1>1. MaxDays \in Nat /\ days \in 1..MaxDays
  BY RetentionAssumption DEF Accepted
<1> DEFINE n == 2 * (MaxDays + 1)
           x == days + MaxDays + 1
<1>2. x \in 0..(n - 1) /\ n \in Nat \ {0}
  BY <1>1
<1>3. x % n = x
  BY <1>2
<1> QED
  BY <1>1, <1>3 DEF AsI32

(* The fields of a prune. *)
LEMMA PruneFacts ==
  ASSUME TypeOK, NEW p \in Prunes
  PROVE  /\ prunes[p].at \in Steps
         /\ prunes[p].days \in Int
         /\ prunes[p].cutoff \in Int
         /\ prunes[p].dry \in BOOLEAN
         /\ prunes[p].disturbed \in BOOLEAN
         /\ prunes[p].freed \in Nat
         /\ prunes[p].revisions \subseteq revisions
         /\ prunes[p].events \subseteq Present(events)
         /\ prunes[p].messages \subseteq Present(messages)
         /\ prunes[p] = [at |-> prunes[p].at, days |-> prunes[p].days,
              cutoff |-> prunes[p].cutoff, dry |-> prunes[p].dry,
              freed |-> prunes[p].freed, revisions |-> prunes[p].revisions,
              events |-> prunes[p].events, messages |-> prunes[p].messages,
              disturbed |-> prunes[p].disturbed]
<1>1. prunes[p] \in Prune
  BY DEF TypeOK
<1> QED
  BY <1>1 DEF Prune

(* A row that is there has a time; a file that is there hangs on a message. *)
LEMMA PresentFacts ==
  ASSUME TypeOK
  PROVE  /\ Present(messages) \subseteq Messages
         /\ \A m \in Present(messages) : messages[m] \in Nat
         /\ Present(events) \subseteq Events
         /\ \A e \in Present(events) : events[e] \in Nat
         /\ Present(files) \subseteq Files
         /\ \A f \in Present(files) : files[f] \in Present(messages)
BY DEF TypeOK, Present

(* There are finitely many files to measure. *)
LEMMA FreedIsNat ==
  ASSUME TypeOK, NEW ms
  PROVE  Cardinality(FilesOn(ms)) \in Nat
<1>1. FilesOn(ms) \subseteq Files
  BY PresentFacts DEF FilesOn
<1> QED
  BY <1>1, RetentionAssumption, FS_Subset, FS_CardinalityType

(* A prune over given rows; Prune is one over the rows there are. *)
PruneOver(rs, es, ms) ==
  [at : Steps, days : Int, cutoff : Int, dry : BOOLEAN, freed : Nat,
   revisions : SUBSET rs, events : SUBSET es, messages : SUBSET ms,
   disturbed : BOOLEAN]

LEMMA PruneMoves ==
  ASSUME NEW rs, NEW es, NEW ms, NEW x \in PruneOver(rs, es, ms), NEW rs2, NEW es2, NEW ms2,
         x.revisions \subseteq rs2, x.events \subseteq es2, x.messages \subseteq ms2
  PROVE  x \in PruneOver(rs2, es2, ms2)
BY DEF PruneOver

LEMMA PruneIsOver ==
  /\ Prune = PruneOver(revisions, Present(events), Present(messages))
  /\ Prune' = PruneOver(revisions', Present(events)', Present(messages)')
BY DEF Prune, PruneOver, Present

(* A prune stays well-typed while no row it holds doomed goes. *)
LEMMA PruneStaysTyped ==
  ASSUME TypeOK, NEW p \in Prunes, prunes'[p] = prunes[p],
         prunes[p].revisions \subseteq revisions',
         prunes[p].events \subseteq Present(events)',
         prunes[p].messages \subseteq Present(messages)'
  PROVE  prunes'[p] \in Prune'
<1>1. prunes[p] \in PruneOver(revisions, Present(events), Present(messages))
  BY PruneIsOver DEF TypeOK
<1>2. prunes[p] \in PruneOver(revisions', Present(events)', Present(messages)')
  BY <1>1, PruneMoves
<1> QED
  BY <1>2, PruneIsOver

(* A revision belongs to a note that is there, and is not of the future.   *)
LEMMA RevisionFacts ==
  ASSUME TypeOK
  PROVE  \A r \in revisions : r.note \in LiveIds /\ r.value \in Calls /\ r.at \in 0..clock
BY DEF TypeOK, NotesTypeOK

(* The rows of notes. *)
LEMMA LiveFacts ==
  ASSUME TypeOK
  PROVE  /\ LiveIds \subseteq Calls
         /\ \A k \in NoteKeys : notes[k] # NoNote =>
              notes[k] \in Row /\ notes[k].id \in LiveIds
         /\ \A c \in Calls : calls[c] # Idle =>
              /\ calls[c] \in Setting
              /\ calls[c].at \in Stages
              /\ calls[c].key \in NoteKeys
              /\ calls[c].note \in Calls
BY DEF TypeOK, NotesTypeOK, LiveIds, Row, Setting

-----------------------------------------------------------------------------
(* Whoever runs has a window and a cutoff in the past. *)
LEMMA CutoffIsPast ==
  ASSUME TypeOK, DoomedIsOld, NEW p \in Prunes, Running(p)
  PROVE  prunes[p].cutoff < clock
<1>1. prunes[p].days \in 1..MaxDays /\ prunes[p].cutoff + prunes[p].days <= clock
  BY DEF DoomedIsOld
<1> QED
  BY <1>1, PruneFacts DEF TypeOK, NotesTypeOK

(* What is posted now is nothing a prune that runs looks for. *)
LEMMA NowIsNotOld ==
  ASSUME TypeOK, DoomedIsOld, NEW p \in Prunes, Running(p)
  PROVE  ~(clock < prunes[p].cutoff)
BY CutoffIsPast, PruneFacts DEF TypeOK, NotesTypeOK

(* The notes, their trail, and the calls that write them. *)
NotesOK == NotesTypeOK /\ IdsNameInserts /\ TrailKept

(* A step of the team's calls leaves every prune and every row of the other *)
(* tables alone.                                                            *)
NotesStep == UNCHANGED <<clock, rows, prunes, trimmed>>

(* An upsert begins a row, or overwrites one, under a call of its own.     *)
LEMMA UpsertKeeps ==
  ASSUME TypeOK, IdsNameInserts, TrailKept, NEW c \in Calls, NEW k \in NoteKeys,
         Upsert(c, k), NotesStep
  PROVE  NotesOK' /\ revisions \subseteq revisions'
<1> DEFINE row == IF notes[k] = NoNote THEN [id |-> c, value |-> c]
                                       ELSE [notes[k] EXCEPT !.value = c]
<1>1. /\ calls[c] = Idle
      /\ notes' = [notes EXCEPT ![k] = row]
      /\ calls' = [calls EXCEPT ![c] = [at |-> "written", key |-> k, note |-> row.id]]
      /\ revisions' = revisions
      /\ clock' = clock /\ trimmed' = trimmed
  BY DEF Upsert, NotesStep
<1>2. /\ notes \in [NoteKeys -> Row \union {NoNote}]
      /\ calls \in [Calls -> Setting \union {Idle}]
      /\ clock \in Nat
      /\ revisions \subseteq [note : LiveIds, value : Calls, at : 0..clock]
  BY DEF TypeOK, NotesTypeOK
<1>3. /\ row \in Row
      /\ row.id = IF notes[k] = NoNote THEN c ELSE notes[k].id
      /\ row # NoNote
  BY <1>2, NotesAssumption DEF Row
<1> HIDE DEF row
<1>4. /\ notes'[k] = row
      /\ \A x \in NoteKeys \ {k} : notes'[x] = notes[x]
      /\ notes' \in [NoteKeys -> Row \union {NoNote}]
  BY <1>1, <1>2, <1>3
<1>5. LiveIds' = LiveIds \union {row.id}
  BY <1>2, <1>3, <1>4 DEF LiveIds
<1>6. [at |-> "written", key |-> k, note |-> row.id] \in Setting
  BY <1>3 DEF Setting, Stages, Row
<1>7. /\ calls'[c] = [at |-> "written", key |-> k, note |-> row.id]
      /\ \A d \in Calls \ {c} : calls'[d] = calls[d]
      /\ calls' \in [Calls -> Setting \union {Idle}]
      /\ calls'[c] # Idle
  BY <1>1, <1>2, <1>6, NotesAssumption
<1>8. NotesTypeOK'
  <2>1. revisions' \subseteq [note : LiveIds', value : Calls, at : 0..clock']
    BY <1>1, <1>2, <1>5
  <2> QED
    BY <1>1, <1>2, <1>4, <1>7, <2>1 DEF NotesTypeOK
<1>9. IdsNameInserts'
  <2>1. ASSUME NEW x \in NoteKeys, notes'[x] # NoNote
        PROVE  calls'[notes'[x].id] # Idle /\ calls'[notes'[x].id].key = x
    <3>1. CASE x = k /\ notes[k] = NoNote
      BY <1>3, <1>4, <1>7, <3>1
    <3>2. CASE x # k \/ notes[k] # NoNote
      <4>1. notes[x] # NoNote /\ notes'[x].id = notes[x].id
        BY <1>3, <1>4, <2>1, <3>2
      <4>2. notes[x].id \in Calls
        BY <2>1, <4>1, LiveFacts
      <4>3. calls[notes[x].id] # Idle /\ calls[notes[x].id].key = x
        BY <2>1, <4>1 DEF IdsNameInserts
      <4> QED
        BY <1>1, <1>7, <4>1, <4>2, <4>3
    <3> QED
      BY <3>1, <3>2
  <2>2. ASSUME NEW d \in Calls, calls'[d] # Idle
        PROVE  calls'[calls'[d].note] # Idle
    <3>1. CASE d = c
      <4>1. calls'[d].note = row.id
        BY <1>7, <3>1
      <4>2. CASE notes[k] = NoNote
        BY <1>3, <1>7, <4>1, <4>2
      <4>3. CASE notes[k] # NoNote
        <5>1. row.id \in Calls /\ calls[row.id] # Idle
          BY <1>3, <4>3, LiveFacts DEF IdsNameInserts
        <5> QED
          BY <1>7, <4>1, <5>1
      <4> QED
        BY <4>2, <4>3
    <3>2. CASE d # c
      <4>1. calls'[d] = calls[d] /\ calls[d] # Idle /\ calls[d].note \in Calls
        BY <1>7, <2>2, <3>2, LiveFacts
      <4>2. calls[calls[d].note] # Idle
        BY <4>1 DEF IdsNameInserts
      <4> QED
        BY <1>7, <4>1, <4>2
    <3> QED
      BY <3>1, <3>2
  <2> QED
    BY <2>1, <2>2 DEF IdsNameInserts
<1>10. TrailKept'
  <2> SUFFICES ASSUME NEW d \in Calls, calls'[d] # Idle, calls'[d].note \in LiveIds'
               PROVE  InTrail(d)' \/ calls'[d].at \in {"written", "lost"} \/ d \in trimmed'
    BY DEF TrailKept
  <2>1. CASE d = c
    BY <1>7, <2>1
  <2>2. CASE d # c
    <3>1. calls'[d] = calls[d] /\ calls[d] # Idle /\ calls[d].note \in Calls
      BY <1>7, <2>2, LiveFacts
    <3>2. calls[calls[d].note] # Idle
      BY <3>1 DEF IdsNameInserts
    <3>3. calls[d].note \in LiveIds
      BY <1>1, <1>3, <1>5, <3>1, <3>2, LiveFacts
    <3> QED
      BY <1>1, <3>1, <3>3 DEF TrailKept, InTrail
  <2> QED
    BY <2>1, <2>2
<1> QED
  BY <1>1, <1>8, <1>9, <1>10 DEF NotesOK

(* A call of set_note comes on to its next stage. *)
LEMMA StageKeeps ==
  ASSUME TypeOK, IdsNameInserts, TrailKept, NEW c \in Calls, calls[c] # Idle,
         NEW s \in Stages, calls' = [calls EXCEPT ![c].at = s],
         notes' = notes, NotesStep,
         revisions \subseteq revisions',
         revisions' \subseteq [note : LiveIds, value : Calls, at : 0..clock],
         \/ s = "lost"
         \/ \E r \in revisions' : r.note = calls[c].note /\ r.value = c
         \/ s = "ended" /\ calls[c].at = "kept"
  PROVE  NotesOK'
<1>1. clock' = clock /\ trimmed' = trimmed /\ LiveIds' = LiveIds
  BY DEF NotesStep, LiveIds
<1>2. /\ calls \in [Calls -> Setting \union {Idle}]
      /\ calls[c] \in Setting
  BY LiveFacts DEF TypeOK, NotesTypeOK
<1>3. /\ calls'[c] \in Setting
      /\ calls'[c].at = s
      /\ calls'[c].key = calls[c].key
      /\ calls'[c].note = calls[c].note
      /\ \A d \in Calls \ {c} : calls'[d] = calls[d]
      /\ calls' \in [Calls -> Setting \union {Idle}]
  BY <1>2 DEF Setting
<1>4. \A d \in Calls :
        /\ calls'[d] # Idle => calls[d] # Idle
        /\ calls[d] # Idle =>
             /\ calls'[d] # Idle
             /\ calls'[d].key = calls[d].key
             /\ calls'[d].note = calls[d].note
  BY <1>2, <1>3, NotesAssumption
<1>5. NotesTypeOK'
  BY <1>1, <1>3 DEF TypeOK, NotesTypeOK
<1>6. IdsNameInserts'
  <2>1. ASSUME NEW k \in NoteKeys, notes'[k] # NoNote
        PROVE  calls'[notes'[k].id] # Idle /\ calls'[notes'[k].id].key = k
    <3>1. /\ notes[k].id \in Calls
          /\ calls[notes[k].id] # Idle /\ calls[notes[k].id].key = k
      BY <2>1, LiveFacts DEF IdsNameInserts
    <3>2. notes'[k].id = notes[k].id
      OBVIOUS
    <3> QED
      BY <1>4, <3>1, <3>2
  <2>2. ASSUME NEW d \in Calls, calls'[d] # Idle
        PROVE  calls'[calls'[d].note] # Idle
    <3>1. calls[d] # Idle /\ calls'[d].note = calls[d].note
      BY <1>4, <2>2
    <3>2. calls[d].note \in Calls /\ calls[calls[d].note] # Idle
      BY <3>1, LiveFacts DEF IdsNameInserts
    <3>3. calls'[calls[d].note] # Idle
      BY <1>4, <3>2
    <3> QED
      BY <3>1, <3>3
  <2> QED
    BY <2>1, <2>2 DEF IdsNameInserts
<1>7. TrailKept'
  <2> SUFFICES ASSUME NEW d \in Calls, calls'[d] # Idle, calls'[d].note \in LiveIds'
               PROVE  InTrail(d)' \/ calls'[d].at \in {"written", "lost"} \/ d \in trimmed'
    BY DEF TrailKept
  <2>1. /\ calls[d] # Idle /\ calls[d].note \in LiveIds
        /\ calls'[d].note = calls[d].note
    BY <1>1, <1>4
  <2>2. InTrail(d) => InTrail(d)'
    BY <2>1 DEF InTrail
  <2>3. InTrail(d) \/ calls[d].at \in {"written", "lost"} \/ d \in trimmed
    BY <2>1 DEF TrailKept
  <2>4. CASE d # c
    BY <1>1, <1>3, <2>2, <2>3, <2>4
  <2>5. CASE d = c
    <3>1. CASE s = "lost"
      BY <1>3, <2>5, <3>1
    <3>2. CASE \E r \in revisions' : r.note = calls[c].note /\ r.value = c
      BY <2>1, <2>5, <3>2 DEF InTrail
    <3>3. CASE calls[c].at = "kept"
      BY <1>1, <2>2, <2>3, <2>5, <3>3
    <3> QED
      BY <3>1, <3>2, <3>3
  <2> QED
    BY <2>4, <2>5
<1> QED
  BY <1>5, <1>6, <1>7 DEF NotesOK

(* delete_note takes the trail of the note it deletes, and no other. *)
LEMMA DeleteKeeps ==
  ASSUME TypeOK, IdsNameInserts, TrailKept, NEW k \in NoteKeys, DeleteNote(k), NotesStep
  PROVE  /\ NotesOK'
         /\ notes[k].id \notin LiveIds'
         /\ revisions' = {r \in revisions : r.note # notes[k].id}
<1> DEFINE id == notes[k].id
<1>1. /\ notes[k] # NoNote
      /\ notes' = [notes EXCEPT ![k] = NoNote]
      /\ revisions' = {r \in revisions : r.note # id}
      /\ calls' = calls /\ clock' = clock /\ trimmed' = trimmed
  BY DEF DeleteNote, NotesStep
<1>2. /\ notes \in [NoteKeys -> Row \union {NoNote}]
      /\ revisions \subseteq [note : LiveIds, value : Calls, at : 0..clock]
  BY DEF TypeOK, NotesTypeOK
<1>3. /\ notes'[k] = NoNote
      /\ \A x \in NoteKeys \ {k} : notes'[x] = notes[x]
      /\ notes' \in [NoteKeys -> Row \union {NoNote}]
  BY <1>1, <1>2
<1>4. \A x \in NoteKeys \ {k} : notes[x] # NoNote => notes[x].id # id
  BY <1>1 DEF IdsNameInserts
<1> HIDE DEF id
<1>5. LiveIds' = LiveIds \ {id}
  <2>1. LiveIds = {notes[x].id : x \in {y \in NoteKeys : notes[y] # NoNote}}
    BY DEF LiveIds
  <2>2. LiveIds' = {notes'[x].id : x \in {y \in NoteKeys : notes'[y] # NoNote}}
    BY DEF LiveIds
  <2>3. {y \in NoteKeys : notes'[y] # NoNote} = {y \in NoteKeys : notes[y] # NoNote} \ {k}
    BY <1>3
  <2>4. id = notes[k].id
    BY DEF id
  <2> QED
    BY <1>1, <1>3, <1>4, <2>1, <2>2, <2>3, <2>4
<1>6. NotesTypeOK'
  BY <1>1, <1>2, <1>3, <1>5 DEF TypeOK, NotesTypeOK
<1>7. IdsNameInserts'
  BY <1>1, <1>3 DEF IdsNameInserts
<1>8. TrailKept'
  BY <1>1, <1>5 DEF TrailKept, InTrail
<1> QED
  BY <1>1, <1>5, <1>6, <1>7, <1>8 DEF NotesOK, id

(* Prunes that hold what they held, over rows that are still there. *)
LEMMA PrunesKeep ==
  ASSUME TypeOK, DoomedIsOld, DoomedApart, MeasureHolds, ReportIsTrue,
         NotesStep, NotesOK', \A p \in Prunes : prunes[p].revisions \subseteq revisions'
  PROVE  IInv'
<1>1. /\ clock' = clock /\ messages' = messages /\ files' = files /\ events' = events
      /\ prunes' = prunes /\ trimmed' = trimmed
  BY DEF NotesStep, rows
<1>2. /\ Present(messages)' = Present(messages)
      /\ Present(events)' = Present(events)
      /\ Present(files)' = Present(files)
  BY <1>1 DEF Present
<1>3. prunes' \in [Prunes -> Prune']
  <2>1. \A p \in Prunes : prunes'[p] \in Prune'
    BY <1>1, <1>2, PruneFacts, PruneStaysTyped
  <2>2. prunes' = [p \in Prunes |-> prunes'[p]]
    BY <1>1 DEF TypeOK
  <2> QED
    BY <2>1, <2>2
<1>4. TypeOK'
  BY <1>1, <1>2, <1>3 DEF TypeOK, NotesOK
<1>5. DoomedIsOld' /\ DoomedApart'
  BY <1>1 DEF DoomedIsOld, DoomedApart, Running
<1>6. MeasureHolds' /\ ReportIsTrue'
  BY <1>1 DEF MeasureHolds, ReportIsTrue, Measured, FilesOn, Old, Present
<1> QED
  BY <1>4, <1>5, <1>6 DEF IInv, NotesOK

(* set_note and delete_note keep the invariant.                            *)
LEMMA WriteNotesKeeps ==
  ASSUME IInv, WriteNotes
  PROVE  IInv'
<1>1. /\ TypeOK /\ IdsNameInserts /\ TrailKept /\ DoomedIsOld
      /\ DoomedApart /\ MeasureHolds /\ ReportIsTrue
  BY DEF IInv
<1>2. NotesStep
  BY DEF WriteNotes, NotesStep
<1>3. revisions \subseteq [note : LiveIds, value : Calls, at : 0..clock] /\ clock \in Nat
  BY <1>1 DEF TypeOK, NotesTypeOK
<1>4. ASSUME NotesOK', revisions \subseteq revisions' PROVE IInv'
  <2>1. \A p \in Prunes : prunes[p].revisions \subseteq revisions'
    BY <1>1, <1>4, PruneFacts
  <2> QED
    BY <1>1, <1>2, <1>4, <2>1, PrunesKeep
<1>5. ASSUME NEW c \in Calls, NEW k \in NoteKeys, Upsert(c, k) PROVE IInv'
  BY <1>1, <1>2, <1>4, <1>5, UpsertKeeps
<1>6. ASSUME NEW c \in Calls, KeepRevision(c) PROVE IInv'
  <2> DEFINE r == [note |-> calls[c].note, value |-> c, at |-> clock]
  <2>1. /\ calls[c] # Idle /\ calls[c].note \in LiveIds
        /\ revisions' = revisions \union {r}
        /\ calls' = [calls EXCEPT ![c].at = "kept"] /\ notes' = notes
    BY <1>6 DEF KeepRevision
  <2>2. r \in [note : LiveIds, value : Calls, at : 0..clock]
    BY <1>3, <2>1
  <2>3. r.note = calls[c].note /\ r.value = c /\ r \in revisions'
    BY <2>1
  <2> HIDE DEF r
  <2>4. \E x \in revisions' : x.note = calls[c].note /\ x.value = c
    BY <2>3
  <2>5. /\ revisions \subseteq revisions'
        /\ revisions' \subseteq [note : LiveIds, value : Calls, at : 0..clock]
    BY <1>3, <2>1, <2>2
  <2>6. "kept" \in Stages
    BY DEF Stages
  <2>7. NotesOK'
    BY <1>1, <1>2, <2>1, <2>4, <2>5, <2>6, StageKeeps
  <2> QED
    BY <1>4, <2>5, <2>7
<1>7. ASSUME NEW c \in Calls, SetNoteFails(c) \/ SetNoteDies(c) PROVE IInv'
  <2>1. /\ calls[c] # Idle /\ calls' = [calls EXCEPT ![c].at = "lost"]
        /\ notes' = notes /\ revisions' = revisions /\ "lost" \in Stages
    BY <1>7 DEF SetNoteFails, SetNoteDies, Stages
  <2>2. /\ revisions \subseteq revisions'
        /\ revisions' \subseteq [note : LiveIds, value : Calls, at : 0..clock]
    BY <1>3, <2>1
  <2>3. NotesOK'
    BY <1>1, <1>2, <2>1, <2>2, StageKeeps
  <2> QED
    BY <1>4, <2>2, <2>3
<1>8. ASSUME NEW c \in Calls, AnswerSet(c) PROVE IInv'
  <2>1. /\ calls[c] # Idle /\ calls[c].at = "kept"
        /\ calls' = [calls EXCEPT ![c].at = "ended"]
        /\ notes' = notes /\ revisions' = revisions /\ "ended" \in Stages
    BY <1>8 DEF AnswerSet, Stages
  <2>2. /\ revisions \subseteq revisions'
        /\ revisions' \subseteq [note : LiveIds, value : Calls, at : 0..clock]
    BY <1>3, <2>1
  <2>3. NotesOK'
    BY <1>1, <1>2, <2>1, <2>2, StageKeeps
  <2> QED
    BY <1>4, <2>2, <2>3
<1>9. ASSUME NEW k \in NoteKeys, DeleteNote(k),
             \A r \in DoomedByAny("revisions") : r.note # notes[k].id
      PROVE  IInv'
  <2>1. NotesOK' /\ revisions' = {r \in revisions : r.note # notes[k].id}
    BY <1>1, <1>2, <1>9, DeleteKeeps
  <2>2. ASSUME NEW p \in Prunes PROVE prunes[p].revisions \subseteq revisions'
    <3>1. prunes[p].revisions \subseteq DoomedByAny("revisions")
      BY DEF DoomedByAny
    <3> QED
      BY <1>1, <1>9, <2>1, <3>1, PruneFacts
  <2> QED
    BY <1>1, <1>2, <2>1, <2>2, PrunesKeep
<1> QED
  BY <1>5, <1>6, <1>7, <1>8, <1>9 DEF WriteNotes

-----------------------------------------------------------------------------
(* A state of prune p that the invariant allows beside the other prunes. *)
Allowed(p, x) ==
  /\ x.at \notin {"idle", "ended"} =>
       x.days \in 1..MaxDays /\ x.cutoff + x.days <= clock
  /\ \A m \in x.messages : messages[m] < x.cutoff
  /\ \A e \in x.events : events[e] < x.cutoff
  /\ \A r \in x.revisions : r.at < x.cutoff
  /\ \A q \in Prunes \ {p} :
       /\ x.messages \intersect prunes[q].messages = {}
       /\ x.events \intersect prunes[q].events = {}
       /\ x.revisions \intersect prunes[q].revisions = {}
  /\ x.at \in {"revisions", "events", "messages"} /\ ~x.disturbed =>
       x.freed = Cardinality(FilesOn({m \in Present(messages) : messages[m] < x.cutoff}))
  /\ x.at = "finish" /\ ~x.disturbed => x.freed = Cardinality(FilesOn(x.messages))

(* One prune moves while every table stays as it is. *)
LEMMA OnePruneMoves ==
  ASSUME IInv, NEW p \in Prunes, NEW x, x \in Prune, Allowed(p, x),
         prunes' = [prunes EXCEPT ![p] = x],
         UNCHANGED <<clock, notesVars, rows, trimmed>>
  PROVE  IInv'
<1>1. /\ TypeOK /\ IdsNameInserts /\ TrailKept /\ DoomedIsOld
      /\ DoomedApart /\ MeasureHolds /\ ReportIsTrue
  BY DEF IInv
<1>2. /\ clock' = clock /\ messages' = messages /\ files' = files /\ events' = events
      /\ notes' = notes /\ revisions' = revisions /\ calls' = calls /\ trimmed' = trimmed
  BY DEF notesVars, rows
<1>3. /\ prunes'[p] = x
      /\ \A q \in Prunes \ {p} : prunes'[q] = prunes[q]
      /\ Prune' = Prune
      /\ prunes' \in [Prunes -> Prune']
  BY <1>1, <1>2 DEF TypeOK, Prune, Present
<1>4. TypeOK'
  BY <1>1, <1>2, <1>3 DEF TypeOK, NotesTypeOK, LiveIds, Present
<1>5. IdsNameInserts' /\ TrailKept'
  BY <1>1, <1>2 DEF IdsNameInserts, TrailKept, InTrail, LiveIds
<1>6. DoomedIsOld'
  <2> SUFFICES ASSUME NEW q \in Prunes
               PROVE  /\ Running(q)' => prunes'[q].days \in 1..MaxDays
                                         /\ prunes'[q].cutoff + prunes'[q].days <= clock
                      /\ \A m \in prunes'[q].messages : messages[m] < prunes'[q].cutoff
                      /\ \A e \in prunes'[q].events : events[e] < prunes'[q].cutoff
                      /\ \A r \in prunes'[q].revisions : r.at < prunes'[q].cutoff
    BY <1>2 DEF DoomedIsOld
  <2>1. CASE q = p
    BY <1>3, <2>1 DEF Running, Allowed
  <2>2. CASE q # p
    BY <1>1, <1>3, <2>2 DEF DoomedIsOld, Running
  <2> QED
    BY <2>1, <2>2
<1>7. DoomedApart'
  <2> SUFFICES ASSUME NEW q \in Prunes, NEW o \in Prunes, q # o
               PROVE  /\ prunes'[q].messages \intersect prunes'[o].messages = {}
                      /\ prunes'[q].events \intersect prunes'[o].events = {}
                      /\ prunes'[q].revisions \intersect prunes'[o].revisions = {}
    BY DEF DoomedApart
  <2>1. CASE q = p
    BY <1>3, <2>1 DEF Allowed
  <2>2. CASE o = p
    BY <1>3, <2>2 DEF Allowed
  <2>3. CASE q # p /\ o # p
    BY <1>1, <1>3, <2>3 DEF DoomedApart
  <2> QED
    BY <2>1, <2>2, <2>3
<1>8. MeasureHolds'
  <2> SUFFICES ASSUME NEW q \in Prunes, Measured(q)', ~prunes'[q].disturbed
               PROVE  prunes'[q].freed = Cardinality(FilesOn(Old(messages, q))')
    BY DEF MeasureHolds
  <2>1. FilesOn(Old(messages, q))' =
          FilesOn({m \in Present(messages) : messages[m] < prunes'[q].cutoff})
    BY <1>2 DEF FilesOn, Old, Present
  <2>2. CASE q = p
    BY <1>3, <2>1, <2>2 DEF Measured, Allowed
  <2>3. CASE q # p
    BY <1>1, <1>3, <2>1, <2>3 DEF MeasureHolds, Measured, Old
  <2> QED
    BY <2>2, <2>3
<1>9. ReportIsTrue'
  <2> SUFFICES ASSUME NEW q \in Prunes, prunes'[q].at = "finish", ~prunes'[q].disturbed
               PROVE  prunes'[q].freed = Cardinality(FilesOn(prunes[q].messages)')
    BY DEF ReportIsTrue
  <2>1. FilesOn(prunes[q].messages)' = FilesOn(prunes'[q].messages)
    BY <1>2 DEF FilesOn, Present
  <2>2. CASE q = p
    BY <1>3, <2>1, <2>2 DEF Allowed
  <2>3. CASE q # p
    BY <1>1, <1>3, <2>1, <2>3 DEF ReportIsTrue
  <2> QED
    BY <2>2, <2>3
<1> QED
  BY <1>4, <1>5, <1>6, <1>7, <1>8, <1>9 DEF IInv

(* A prune that has not begun is well-typed over any rows.                 *)
LEMMA UnstartedFacts == Unstarted \in Prune
BY DEF Unstarted, Prune, Steps

(* The statements of a prune, but for its COMMIT, keep the invariant.      *)
LEMMA PruneStepsKeep ==
  ASSUME IInv, NEW p \in Prunes,
         \/ \E days \in Windows, dry \in BOOLEAN : Begin(p, days, dry)
         \/ Measure(p)
         \/ DropRevisions(p)
         \/ DropEvents(p)
         \/ DropMessages(p)
         \/ RollBack(p)
  PROVE  IInv'
<1>1. /\ TypeOK /\ IdsNameInserts /\ TrailKept /\ DoomedIsOld
      /\ DoomedApart /\ MeasureHolds /\ ReportIsTrue
  BY DEF IInv
<1>2. prunes \in [Prunes -> Prune] /\ prunes[p] \in Prune /\ clock \in Nat
  BY <1>1 DEF TypeOK, NotesTypeOK
<1>3. /\ Running(p) => prunes[p].days \in 1..MaxDays
                       /\ prunes[p].cutoff + prunes[p].days <= clock
      /\ \A m \in prunes[p].messages : messages[m] < prunes[p].cutoff
      /\ \A e \in prunes[p].events : events[e] < prunes[p].cutoff
      /\ \A r \in prunes[p].revisions : r.at < prunes[p].cutoff
  BY <1>1 DEF DoomedIsOld
<1>4. \A q \in Prunes \ {p} :
        /\ prunes[p].messages \intersect prunes[q].messages = {}
        /\ prunes[p].events \intersect prunes[q].events = {}
        /\ prunes[p].revisions \intersect prunes[q].revisions = {}
  BY <1>1 DEF DoomedApart
<1>5. Old(messages, p) = {m \in Present(messages) : messages[m] < prunes[p].cutoff}
  BY DEF Old
<1>6. Measured(p) /\ ~prunes[p].disturbed =>
        prunes[p].freed = Cardinality(FilesOn(Old(messages, p)))
  BY <1>1 DEF MeasureHolds
<1>7. ASSUME NEW days \in Windows, NEW dry \in BOOLEAN, Begin(p, days, dry) PROVE IInv'
  <2> DEFINE x == [Unstarted EXCEPT !.at = "measure", !.days = days, !.dry = dry,
                                    !.cutoff = clock - AsI32(days)]
  <2>1. days \in Int /\ days \in 1..MaxDays /\ AsI32(days) = days
    BY <1>7, WindowIsKept, RetentionAssumption DEF Begin
  <2>2. prunes' = [prunes EXCEPT ![p] = x] /\ UNCHANGED <<clock, notesVars, rows, trimmed>>
    BY <1>7 DEF Begin
  <2>3. x \in Prune
    <3> DEFINE past == clock - AsI32(days)
    <3>1. past \in Int
      BY <1>2, <2>1
    <3> HIDE DEF past
    <3>2. [Unstarted EXCEPT !.at = "measure", !.days = days, !.dry = dry, !.cutoff = past]
            \in Prune
      BY <2>1, <3>1, UnstartedFacts DEF Prune, Steps
    <3> QED
      BY <3>2 DEF past
  <2>4. /\ x.messages = {} /\ x.events = {} /\ x.revisions = {} /\ x.at = "measure"
        /\ x.days = days /\ x.cutoff = clock - days
    BY <2>1 DEF Unstarted
  <2> HIDE DEF x
  <2>5. x.days \in 1..MaxDays /\ x.cutoff + x.days <= clock
    BY <1>2, <2>1, <2>4
  <2>6. Allowed(p, x)
    BY <2>4, <2>5 DEF Allowed
  <2> QED
    BY <2>2, <2>3, <2>6, OnePruneMoves
<1>8. ASSUME Measure(p) PROVE IInv'
  <2> DEFINE x == [prunes[p] EXCEPT !.at = "revisions",
                                    !.freed = Cardinality(FilesOn(Old(messages, p)))]
  <2>1. /\ prunes' = [prunes EXCEPT ![p] = x] /\ UNCHANGED <<clock, notesVars, rows, trimmed>>
        /\ prunes[p].at = "measure"
    BY <1>8 DEF Measure
  <2>2. x \in Prune
    BY <1>1, <1>2, FreedIsNat DEF Prune, Steps
  <2>3. /\ x.at = "revisions" /\ x.days = prunes[p].days /\ x.cutoff = prunes[p].cutoff
        /\ x.freed = Cardinality(FilesOn(Old(messages, p)))
        /\ x.messages = prunes[p].messages /\ x.events = prunes[p].events
        /\ x.revisions = prunes[p].revisions /\ x.disturbed = prunes[p].disturbed
    BY <1>2 DEF Prune
  <2> HIDE DEF x
  <2>4. Allowed(p, x)
    BY <1>3, <1>4, <1>5, <2>1, <2>3 DEF Allowed, Running
  <2> QED
    BY <2>1, <2>2, <2>4, OnePruneMoves
<1>9. ASSUME DropRevisions(p) PROVE IInv'
  <2> DEFINE x == [prunes[p] EXCEPT !.at = "events", !.revisions = OldRevisions(p)]
  <2>1. /\ prunes' = [prunes EXCEPT ![p] = x] /\ UNCHANGED <<clock, notesVars, rows, trimmed>>
        /\ prunes[p].at = "revisions"
        /\ OldRevisions(p) \intersect Doomed("revisions", p) = {}
    BY <1>9 DEF DropRevisions
  <2>2. OldRevisions(p) \subseteq revisions
    BY DEF OldRevisions
  <2>3. x \in Prune
    BY <1>2, <2>2 DEF Prune, Steps
  <2>4. /\ x.at = "events" /\ x.days = prunes[p].days /\ x.cutoff = prunes[p].cutoff
        /\ x.freed = prunes[p].freed
        /\ x.messages = prunes[p].messages /\ x.events = prunes[p].events
        /\ x.revisions = OldRevisions(p) /\ x.disturbed = prunes[p].disturbed
    BY <1>2 DEF Prune
  <2>5. \A r \in OldRevisions(p) : r.at < prunes[p].cutoff
    BY DEF OldRevisions
  <2>6. \A q \in Prunes \ {p} : prunes[q].revisions \subseteq Doomed("revisions", p)
    BY DEF Doomed
  <2> HIDE DEF x
  <2>7. Allowed(p, x)
    BY <1>3, <1>4, <1>5, <1>6, <2>1, <2>4, <2>5, <2>6 DEF Allowed, Running, Measured
  <2> QED
    BY <2>1, <2>3, <2>7, OnePruneMoves
<1>10. ASSUME DropEvents(p) PROVE IInv'
  <2> DEFINE x == [prunes[p] EXCEPT !.at = "messages", !.events = Old(events, p)]
  <2>1. /\ prunes' = [prunes EXCEPT ![p] = x] /\ UNCHANGED <<clock, notesVars, rows, trimmed>>
        /\ prunes[p].at = "events"
        /\ Old(events, p) \intersect Doomed("events", p) = {}
    BY <1>10 DEF DropEvents
  <2>2. Old(events, p) \subseteq Present(events)
    BY DEF Old
  <2>3. x \in Prune
    BY <1>2, <2>2 DEF Prune, Steps
  <2>4. /\ x.at = "messages" /\ x.days = prunes[p].days /\ x.cutoff = prunes[p].cutoff
        /\ x.freed = prunes[p].freed
        /\ x.messages = prunes[p].messages /\ x.events = Old(events, p)
        /\ x.revisions = prunes[p].revisions /\ x.disturbed = prunes[p].disturbed
    BY <1>2 DEF Prune
  <2>5. \A e \in Old(events, p) : events[e] < prunes[p].cutoff
    BY DEF Old
  <2>6. \A q \in Prunes \ {p} : prunes[q].events \subseteq Doomed("events", p)
    BY DEF Doomed
  <2> HIDE DEF x
  <2>7. Allowed(p, x)
    BY <1>3, <1>4, <1>5, <1>6, <2>1, <2>4, <2>5, <2>6 DEF Allowed, Running, Measured
  <2> QED
    BY <2>1, <2>3, <2>7, OnePruneMoves
<1>11. ASSUME DropMessages(p) PROVE IInv'
  <2> DEFINE x == [prunes[p] EXCEPT !.at = "finish", !.messages = Old(messages, p)]
  <2>1. /\ prunes' = [prunes EXCEPT ![p] = x] /\ UNCHANGED <<clock, notesVars, rows, trimmed>>
        /\ prunes[p].at = "messages"
        /\ Old(messages, p) \intersect Doomed("messages", p) = {}
    BY <1>11 DEF DropMessages
  <2>2. Old(messages, p) \subseteq Present(messages)
    BY DEF Old
  <2>3. x \in Prune
    BY <1>2, <2>2 DEF Prune, Steps
  <2>4. /\ x.at = "finish" /\ x.days = prunes[p].days /\ x.cutoff = prunes[p].cutoff
        /\ x.freed = prunes[p].freed
        /\ x.messages = Old(messages, p) /\ x.events = prunes[p].events
        /\ x.revisions = prunes[p].revisions /\ x.disturbed = prunes[p].disturbed
    BY <1>2 DEF Prune
  <2>5. \A m \in Old(messages, p) : messages[m] < prunes[p].cutoff
    BY DEF Old
  <2>6. \A q \in Prunes \ {p} : prunes[q].messages \subseteq Doomed("messages", p)
    BY DEF Doomed
  <2> HIDE DEF x
  <2>7. Allowed(p, x)
    BY <1>3, <1>4, <1>5, <1>6, <2>1, <2>4, <2>5, <2>6 DEF Allowed, Running, Measured
  <2> QED
    BY <2>1, <2>3, <2>7, OnePruneMoves
<1>12. ASSUME RollBack(p) PROVE IInv'
  <2> DEFINE x == Ended(p)
  <2>1. prunes' = [prunes EXCEPT ![p] = x] /\ UNCHANGED <<clock, notesVars, rows, trimmed>>
    BY <1>12 DEF RollBack
  <2>2. prunes[p].dry \in BOOLEAN
    BY <1>1, PruneFacts
  <2>3. x.at = "ended" /\ x.messages = {} /\ x.events = {} /\ x.revisions = {}
    BY DEF Ended, Unstarted
  <2>4. x \in Prune
    BY <2>2, UnstartedFacts DEF Prune, Ended, Steps
  <2> HIDE DEF x
  <2>5. Allowed(p, x)
    BY <2>3 DEF Allowed
  <2> QED
    BY <2>1, <2>4, <2>5, OnePruneMoves
<1> QED
  BY <1>7, <1>8, <1>9, <1>10, <1>11, <1>12

-----------------------------------------------------------------------------
(* The notes and their trail do not depend on the other tables. *)
LEMMA NotesStay ==
  ASSUME TypeOK, IdsNameInserts, TrailKept,
         notes' = notes, revisions' = revisions, calls' = calls, trimmed' = trimmed,
         clock' \in Nat, clock <= clock'
  PROVE  NotesOK'
<1>1. LiveIds' = LiveIds
  BY DEF LiveIds
<1>2. 0..clock \subseteq 0..clock'
  BY DEF TypeOK, NotesTypeOK
<1>3. revisions' \subseteq [note : LiveIds', value : Calls, at : 0..clock']
  BY <1>1, <1>2 DEF TypeOK, NotesTypeOK
<1>4. NotesTypeOK'
  BY <1>3 DEF TypeOK, NotesTypeOK
<1>5. IdsNameInserts' /\ TrailKept'
  BY <1>1 DEF IdsNameInserts, TrailKept, InTrail
<1> QED
  BY <1>4, <1>5 DEF NotesOK

(* Rows that arrive hang on no message a prune has measured or doomed, and *)
(* are too young to be.                                                    *)
LEMMA ArrivalsKeep ==
  ASSUME IInv, UNCHANGED <<clock, notesVars, prunes, trimmed>>,
         messages' \in [Messages -> Nat \union {Absent, Gone}],
         files' \in [Files -> Present(messages)' \union {Absent, Gone}],
         events' \in [Events -> Nat \union {Absent, Gone}],
         \A m \in Present(messages) : messages'[m] = messages[m],
         \A m \in Present(messages)' \ Present(messages) : messages'[m] = clock,
         \A e \in Present(events) : events'[e] = events[e],
         \A f \in Present(files) : files'[f] = files[f],
         \A f \in Present(files)' \ Present(files) : files'[f] \notin Present(messages)
  PROVE  IInv'
<1>1. /\ TypeOK /\ IdsNameInserts /\ TrailKept /\ DoomedIsOld
      /\ DoomedApart /\ MeasureHolds /\ ReportIsTrue
  BY DEF IInv
<1>2. /\ clock' = clock /\ notes' = notes /\ revisions' = revisions /\ calls' = calls
      /\ prunes' = prunes /\ trimmed' = trimmed /\ clock \in Nat
  BY <1>1 DEF notesVars, TypeOK, NotesTypeOK
<1>3. NotesOK'
  BY <1>1, <1>2, NotesStay
<1>4. /\ messages \in [Messages -> Nat \union {Absent, Gone}]
      /\ files \in [Files -> Present(messages) \union {Absent, Gone}]
      /\ events \in [Events -> Nat \union {Absent, Gone}]
  BY <1>1 DEF TypeOK
<1>5. /\ Present(messages) \subseteq Present(messages)'
      /\ Present(events) \subseteq Present(events)'
      /\ Present(files) \subseteq Present(files)'
  BY <1>4 DEF Present
<1>6. prunes' \in [Prunes -> Prune']
  <2>1. \A p \in Prunes : prunes'[p] \in Prune'
    BY <1>1, <1>2, <1>5, PruneFacts, PruneStaysTyped
  <2>2. prunes' = [p \in Prunes |-> prunes'[p]]
    BY <1>1, <1>2 DEF TypeOK
  <2> QED
    BY <2>1, <2>2
<1>7. TypeOK'
  BY <1>1, <1>2, <1>3, <1>6 DEF TypeOK, NotesOK
<1>8. DoomedIsOld' /\ DoomedApart'
  <2>1. \A p \in Prunes : /\ prunes[p].messages \subseteq Present(messages)
                          /\ prunes[p].events \subseteq Present(events)
    BY <1>1, PruneFacts
  <2> QED
    BY <1>1, <1>2, <2>1 DEF DoomedIsOld, DoomedApart, Running
<1>9. \A ms \in SUBSET Present(messages) :
        {f \in Present(files)' : files'[f] \in ms} = {f \in Present(files) : files[f] \in ms}
  BY <1>5
<1>10. MeasureHolds'
  <2> SUFFICES ASSUME NEW p \in Prunes, Measured(p), ~prunes[p].disturbed
               PROVE  prunes[p].freed = Cardinality(FilesOn(Old(messages, p))')
    BY <1>2 DEF MeasureHolds, Measured
  <2>1. Running(p) /\ prunes[p].cutoff \in Int
    BY <1>1, PruneFacts DEF Measured, Running
  <2>2. ~(clock < prunes[p].cutoff)
    BY <1>1, <2>1, NowIsNotOld
  <2>3. Old(messages, p)' = {m \in Present(messages)' : messages'[m] < prunes[p].cutoff}
    BY <1>2 DEF Old
  <2>4. Old(messages, p)' = Old(messages, p)
    BY <1>5, <2>2, <2>3 DEF Old
  <2>5. FilesOn(Old(messages, p))' =
          {f \in Present(files)' : files'[f] \in Old(messages, p)'}
    BY DEF FilesOn
  <2>6. Old(messages, p) \subseteq Present(messages)
    BY DEF Old
  <2>7. FilesOn(Old(messages, p))' = FilesOn(Old(messages, p))
    BY <1>9, <2>4, <2>5, <2>6 DEF FilesOn
  <2> QED
    BY <1>1, <2>7 DEF MeasureHolds
<1>11. ReportIsTrue'
  <2> SUFFICES ASSUME NEW p \in Prunes, prunes[p].at = "finish", ~prunes[p].disturbed
               PROVE  prunes[p].freed = Cardinality(FilesOn(prunes[p].messages)')
    BY <1>2 DEF ReportIsTrue
  <2>1. prunes[p].messages \subseteq Present(messages)
    BY <1>1, PruneFacts
  <2>2. FilesOn(prunes[p].messages)' =
          {f \in Present(files)' : files'[f] \in prunes[p].messages}
    BY <1>2 DEF FilesOn
  <2>3. FilesOn(prunes[p].messages)' = FilesOn(prunes[p].messages)
    BY <1>9, <2>1, <2>2 DEF FilesOn
  <2> QED
    BY <1>1, <2>3 DEF ReportIsTrue
<1> QED
  BY <1>3, <1>7, <1>8, <1>10, <1>11 DEF IInv, NotesOK

(* A message arrives with its files.                                       *)
LEMMA PostKeeps ==
  ASSUME IInv, NEW m \in Messages, NEW fs \in SUBSET Files, Post(m, fs)
  PROVE  IInv'
<1>1. /\ messages[m] = Absent
      /\ \A f \in fs : files[f] = Absent
      /\ messages' = [messages EXCEPT ![m] = clock]
      /\ files' = [f \in Files |-> IF f \in fs THEN m ELSE files[f]]
      /\ events' = events
      /\ UNCHANGED <<clock, notesVars, prunes, trimmed>>
  BY DEF Post
<1>2. /\ messages \in [Messages -> Nat \union {Absent, Gone}]
      /\ files \in [Files -> Present(messages) \union {Absent, Gone}]
      /\ events \in [Events -> Nat \union {Absent, Gone}]
      /\ clock \in Nat
  BY DEF IInv, TypeOK, NotesTypeOK
<1>3. messages' \in [Messages -> Nat \union {Absent, Gone}] /\ clock \notin {Absent, Gone}
  BY <1>1, <1>2, RetentionAssumption
<1>4. /\ m \notin Present(messages)
      /\ Present(messages)' = Present(messages) \union {m}
      /\ \A x \in Messages \ {m} : messages'[x] = messages[x]
      /\ messages'[m] = clock
  BY <1>1, <1>2, <1>3 DEF Present
<1>5. files' \in [Files -> Present(messages)' \union {Absent, Gone}]
  BY <1>1, <1>2, <1>4
<1>6. \A f \in Present(files) : f \in Files /\ f \notin fs /\ files'[f] = files[f]
  BY <1>1, <1>2 DEF Present
<1>7. \A f \in Present(files)' \ Present(files) : files'[f] = m
  BY <1>1, <1>2 DEF Present
<1>8. /\ \A x \in Present(messages) : messages'[x] = messages[x]
      /\ \A x \in Present(messages)' \ Present(messages) : messages'[x] = clock
      /\ \A e \in Present(events) : events'[e] = events[e]
      /\ events' \in [Events -> Nat \union {Absent, Gone}]
  BY <1>1, <1>2, <1>4 DEF Present
<1> QED
  BY <1>1, <1>3, <1>4, <1>5, <1>6, <1>7, <1>8, ArrivalsKeep

(* A task event is logged.                                                 *)
LEMMA LogKeeps ==
  ASSUME IInv, NEW e \in Events, LogTaskEvent(e)
  PROVE  IInv'
<1>1. /\ events[e] = Absent
      /\ events' = [events EXCEPT ![e] = clock]
      /\ messages' = messages /\ files' = files
      /\ UNCHANGED <<clock, notesVars, prunes, trimmed>>
  BY DEF LogTaskEvent
<1>2. /\ messages \in [Messages -> Nat \union {Absent, Gone}]
      /\ files \in [Files -> Present(messages) \union {Absent, Gone}]
      /\ events \in [Events -> Nat \union {Absent, Gone}]
      /\ clock \in Nat
  BY DEF IInv, TypeOK, NotesTypeOK
<1>3. /\ Present(messages)' = Present(messages)
      /\ Present(files)' = Present(files)
      /\ events' \in [Events -> Nat \union {Absent, Gone}]
      /\ \A x \in Present(events) : events'[x] = events[x]
  BY <1>1, <1>2 DEF Present
<1> QED
  BY <1>1, <1>2, <1>3, ArrivalsKeep

(* A file that lands on a message a prune has measured marks that prune. *)
LEMMA AttachKeeps ==
  ASSUME IInv, NEW f \in Files, NEW m \in Messages, Attach(f, m)
  PROVE  IInv'
<1> DEFINE x(p) == [prunes[p] EXCEPT !.disturbed =
                      @ \/ (Measured(p) /\ m \in Old(messages, p))]
<1>1. /\ files[f] = Absent
      /\ m \in Present(messages) \ DoomedByAny("messages")
      /\ files' = [files EXCEPT ![f] = m]
      /\ prunes' = [p \in Prunes |-> x(p)]
      /\ messages' = messages /\ events' = events
      /\ UNCHANGED <<clock, notesVars, trimmed>>
  BY DEF Attach
<1>2. /\ TypeOK /\ IdsNameInserts /\ TrailKept /\ DoomedIsOld
      /\ DoomedApart /\ MeasureHolds /\ ReportIsTrue
  BY DEF IInv
<1>3. /\ files \in [Files -> Present(messages) \union {Absent, Gone}]
      /\ clock \in Nat /\ prunes \in [Prunes -> Prune]
  BY <1>2 DEF TypeOK, NotesTypeOK
<1>4. /\ clock' = clock /\ notes' = notes /\ revisions' = revisions /\ calls' = calls
      /\ trimmed' = trimmed
  BY <1>1 DEF notesVars
<1>5. /\ Present(messages)' = Present(messages)
      /\ Present(events)' = Present(events)
      /\ files' \in [Files -> Present(messages) \union {Absent, Gone}]
  BY <1>1, <1>3 DEF Present
<1>6. \A ms : m \notin ms =>
        {g \in Present(files)' : files'[g] \in ms} = {g \in Present(files) : files[g] \in ms}
  BY <1>1, <1>3, <1>5 DEF Present
<1>7. Prune' = Prune
  BY <1>4, <1>5 DEF Prune
<1>8. ASSUME NEW p \in Prunes
      PROVE  /\ prunes'[p] \in Prune
             /\ prunes'[p].at = prunes[p].at
             /\ prunes'[p].days = prunes[p].days
             /\ prunes'[p].cutoff = prunes[p].cutoff
             /\ prunes'[p].freed = prunes[p].freed
             /\ prunes'[p].revisions = prunes[p].revisions
             /\ prunes'[p].events = prunes[p].events
             /\ prunes'[p].messages = prunes[p].messages
             /\ prunes'[p].disturbed =
                  (prunes[p].disturbed \/ (Measured(p) /\ m \in Old(messages, p)))
  <2>1. prunes'[p] = x(p) /\ prunes[p] \in Prune
    BY <1>1, <1>3
  <2>2. prunes[p].disturbed \in BOOLEAN
    BY <1>2, PruneFacts
  <2> DEFINE d == prunes[p].disturbed \/ (Measured(p) /\ m \in Old(messages, p))
  <2>3. prunes'[p] = [prunes[p] EXCEPT !.disturbed = d] /\ d \in BOOLEAN
    BY <2>1
  <2> HIDE DEF d
  <2>4. /\ prunes'[p] \in Prune
        /\ prunes'[p].at = prunes[p].at
        /\ prunes'[p].days = prunes[p].days
        /\ prunes'[p].cutoff = prunes[p].cutoff
        /\ prunes'[p].freed = prunes[p].freed
        /\ prunes'[p].revisions = prunes[p].revisions
        /\ prunes'[p].events = prunes[p].events
        /\ prunes'[p].messages = prunes[p].messages
        /\ prunes'[p].disturbed = d
    BY <2>1, <2>3 DEF Prune
  <2> QED
    BY <2>4 DEF d
<1>9. NotesOK'
  BY <1>2, <1>3, <1>4, NotesStay
<1>10. TypeOK'
  <2>1. prunes' \in [Prunes -> Prune']
    BY <1>1, <1>7, <1>8
  <2> QED
    BY <1>1, <1>2, <1>4, <1>5, <1>9, <2>1 DEF TypeOK, NotesOK
<1>11. DoomedIsOld' /\ DoomedApart'
  BY <1>1, <1>2, <1>4, <1>8 DEF DoomedIsOld, DoomedApart, Running
<1>12. MeasureHolds'
  <2> SUFFICES ASSUME NEW p \in Prunes, Measured(p)', ~prunes'[p].disturbed
               PROVE  prunes'[p].freed = Cardinality(FilesOn(Old(messages, p))')
    BY DEF MeasureHolds
  <2>1. Measured(p) /\ ~prunes[p].disturbed /\ m \notin Old(messages, p)
    BY <1>8 DEF Measured
  <2>2. Old(messages, p)' = Old(messages, p)
    BY <1>1, <1>5, <1>8 DEF Old
  <2>3. FilesOn(Old(messages, p))' =
          {g \in Present(files)' : files'[g] \in Old(messages, p)'}
    BY DEF FilesOn
  <2>4. FilesOn(Old(messages, p))' = FilesOn(Old(messages, p))
    BY <1>6, <2>1, <2>2, <2>3 DEF FilesOn
  <2> QED
    BY <1>2, <1>8, <2>1, <2>4 DEF MeasureHolds
<1>13. ReportIsTrue'
  <2> SUFFICES ASSUME NEW p \in Prunes, prunes'[p].at = "finish", ~prunes'[p].disturbed
               PROVE  prunes'[p].freed = Cardinality(FilesOn(prunes[p].messages)')
    BY DEF ReportIsTrue
  <2>1. prunes[p].at = "finish" /\ ~prunes[p].disturbed
    BY <1>8
  <2>2. m \notin prunes[p].messages
    BY <1>1 DEF DoomedByAny
  <2>3. FilesOn(prunes[p].messages)' =
          {g \in Present(files)' : files'[g] \in prunes[p].messages}
    BY <1>8 DEF FilesOn
  <2>4. FilesOn(prunes[p].messages)' = FilesOn(prunes[p].messages)
    BY <1>6, <2>2, <2>3 DEF FilesOn
  <2> QED
    BY <1>2, <1>8, <2>1, <2>4 DEF ReportIsTrue
<1> QED
  BY <1>9, <1>10, <1>11, <1>12, <1>13 DEF IInv, NotesOK

(* Time only takes what a prune holds further into the past.               *)
LEMMA DayKeeps ==
  ASSUME IInv, DayPasses
  PROVE  IInv'
<1>1. /\ TypeOK /\ IdsNameInserts /\ TrailKept /\ DoomedIsOld
      /\ DoomedApart /\ MeasureHolds /\ ReportIsTrue
  BY DEF IInv
<1>2. /\ clock' = clock + 1 /\ clock \in Nat
      /\ messages' = messages /\ files' = files /\ events' = events /\ prunes' = prunes
      /\ notes' = notes /\ revisions' = revisions /\ calls' = calls /\ trimmed' = trimmed
  BY <1>1 DEF DayPasses, notesVars, rows, TypeOK, NotesTypeOK
<1>3. NotesOK'
  BY <1>1, <1>2, NotesStay
<1>4. TypeOK'
  BY <1>1, <1>2, <1>3 DEF TypeOK, NotesOK, Present, Prune
<1>5. DoomedIsOld'
  <2>1. \A p \in Prunes : prunes[p].cutoff \in Int /\ prunes[p].days \in Int
    BY <1>1, PruneFacts
  <2> QED
    BY <1>1, <1>2, <2>1 DEF DoomedIsOld, Running
<1>6. DoomedApart' /\ MeasureHolds' /\ ReportIsTrue'
  BY <1>1, <1>2 DEF DoomedApart, MeasureHolds, ReportIsTrue, Measured, FilesOn, Old, Present
<1> QED
  BY <1>3, <1>4, <1>5, <1>6 DEF IInv, NotesOK

-----------------------------------------------------------------------------
(* What a commit changes. *)
LEMMA CommitFacts ==
  ASSUME TypeOK, NEW p \in Prunes, Commit(p)
  PROVE  /\ Present(messages)' = Present(messages) \ prunes[p].messages
         /\ Present(events)' = Present(events) \ prunes[p].events
         /\ Present(files)' = Present(files) \ FilesOn(prunes[p].messages)
         /\ \A m \in Messages \ prunes[p].messages : messages'[m] = messages[m]
         /\ \A e \in Events \ prunes[p].events : events'[e] = events[e]
         /\ \A f \in Files \ FilesOn(prunes[p].messages) : files'[f] = files[f]
         /\ \A m \in prunes[p].messages : messages'[m] = Gone
         /\ messages' \in [Messages -> Nat \union {Absent, Gone}]
         /\ events' \in [Events -> Nat \union {Absent, Gone}]
         /\ files' \in [Files -> Present(messages)' \union {Absent, Gone}]
<1>1. /\ messages' = Discard(messages, prunes[p].messages)
      /\ files' = Discard(files, FilesOn(prunes[p].messages))
      /\ events' = Discard(events, prunes[p].events)
  BY DEF Commit
<1>2. /\ messages \in [Messages -> Nat \union {Absent, Gone}]
      /\ files \in [Files -> Present(messages) \union {Absent, Gone}]
      /\ events \in [Events -> Nat \union {Absent, Gone}]
  BY DEF TypeOK
<1>3. prunes[p].messages \subseteq Present(messages) /\ prunes[p].events \subseteq Present(events)
  BY PruneFacts
<1>4. /\ messages' = [m \in Messages |-> IF m \in prunes[p].messages THEN Gone ELSE messages[m]]
      /\ events' = [e \in Events |-> IF e \in prunes[p].events THEN Gone ELSE events[e]]
      /\ files' = [f \in Files |-> IF f \in FilesOn(prunes[p].messages) THEN Gone ELSE files[f]]
  BY <1>1, <1>2 DEF Discard
<1>5. /\ Present(messages) \subseteq Messages /\ Present(events) \subseteq Events
      /\ FilesOn(prunes[p].messages) \subseteq Files
  BY <1>2 DEF Present, FilesOn
<1>6. /\ Present(messages)' = Present(messages) \ prunes[p].messages
      /\ Present(events)' = Present(events) \ prunes[p].events
      /\ Present(files)' = Present(files) \ FilesOn(prunes[p].messages)
  BY <1>2, <1>3, <1>4, <1>5 DEF Present
<1>7. \A f \in Files \ FilesOn(prunes[p].messages) :
        files[f] \in {Absent, Gone} \/ files[f] \in Present(messages) \ prunes[p].messages
  BY <1>2 DEF FilesOn, Present
<1>8. files' \in [Files -> Present(messages)' \union {Absent, Gone}]
  BY <1>4, <1>6, <1>7
<1> QED
  BY <1>2, <1>3, <1>4, <1>5, <1>6, <1>8

(* A commit ends its prune and disturbs those that have measured. *)
LEMMA CommitPrunes ==
  ASSUME TypeOK, NEW p \in Prunes, Commit(p)
  PROVE  /\ prunes'[p] = Ended(p)
         /\ \A q \in Prunes \ {p} :
              /\ prunes'[q].at = prunes[q].at
              /\ prunes'[q].days = prunes[q].days
              /\ prunes'[q].cutoff = prunes[q].cutoff
              /\ prunes'[q].freed = prunes[q].freed
              /\ prunes'[q].revisions = prunes[q].revisions
              /\ prunes'[q].events = prunes[q].events
              /\ prunes'[q].messages = prunes[q].messages
              /\ prunes'[q].disturbed = (prunes[q].disturbed \/ Measured(q))
              /\ prunes'[q] = [prunes[q] EXCEPT
                                 !.disturbed = prunes[q].disturbed \/ Measured(q)]
<1>1. prunes' = [q \in Prunes |->
                   IF q = p THEN Ended(p)
                   ELSE [prunes[q] EXCEPT !.disturbed = @ \/ Measured(q)]]
  BY DEF Commit
<1>2. prunes'[p] = Ended(p)
  BY <1>1
<1>3. ASSUME NEW q \in Prunes \ {p}
      PROVE  /\ prunes'[q].at = prunes[q].at
             /\ prunes'[q].days = prunes[q].days
             /\ prunes'[q].cutoff = prunes[q].cutoff
             /\ prunes'[q].freed = prunes[q].freed
             /\ prunes'[q].revisions = prunes[q].revisions
             /\ prunes'[q].events = prunes[q].events
             /\ prunes'[q].messages = prunes[q].messages
             /\ prunes'[q].disturbed = (prunes[q].disturbed \/ Measured(q))
             /\ prunes'[q] = [prunes[q] EXCEPT
                                !.disturbed = prunes[q].disturbed \/ Measured(q)]
  <2> DEFINE d == prunes[q].disturbed \/ Measured(q)
  <2>1. prunes'[q] = [prunes[q] EXCEPT !.disturbed = d] /\ prunes[q] \in Prune
    BY <1>1 DEF TypeOK
  <2> HIDE DEF d
  <2>2. /\ prunes'[q].at = prunes[q].at
        /\ prunes'[q].days = prunes[q].days
        /\ prunes'[q].cutoff = prunes[q].cutoff
        /\ prunes'[q].freed = prunes[q].freed
        /\ prunes'[q].revisions = prunes[q].revisions
        /\ prunes'[q].events = prunes[q].events
        /\ prunes'[q].messages = prunes[q].messages
        /\ prunes'[q].disturbed = d
    BY <2>1 DEF Prune
  <2> QED
    BY <2>1, <2>2 DEF d
<1> QED
  BY <1>2, <1>3

(* A commit takes only what its own prune has doomed.                      *)
LEMMA CommitKeeps ==
  ASSUME IInv, NEW p \in Prunes, Commit(p)
  PROVE  IInv'
<1>1. /\ TypeOK /\ IdsNameInserts /\ TrailKept /\ DoomedIsOld
      /\ DoomedApart /\ MeasureHolds /\ ReportIsTrue
  BY DEF IInv
<1>2. /\ clock' = clock /\ notes' = notes /\ calls' = calls
      /\ revisions' = revisions \ prunes[p].revisions
      /\ trimmed' = trimmed \union {r.value : r \in prunes[p].revisions}
      /\ LiveIds' = LiveIds
  BY DEF Commit, LiveIds
<1>3. prunes[p].revisions \subseteq revisions
  BY <1>1, PruneFacts
<1>4. NotesTypeOK' /\ trimmed' \subseteq Calls
  BY <1>1, <1>2, <1>3, RevisionFacts DEF TypeOK, NotesTypeOK
<1>5. IdsNameInserts'
  BY <1>1, <1>2 DEF IdsNameInserts
<1>6. TrailKept'
  <2> SUFFICES ASSUME NEW c \in Calls, calls[c] # Idle, calls[c].note \in LiveIds
               PROVE  InTrail(c)' \/ calls[c].at \in {"written", "lost"} \/ c \in trimmed'
    BY <1>2 DEF TrailKept
  <2>1. InTrail(c) \/ calls[c].at \in {"written", "lost"} \/ c \in trimmed
    BY <1>1 DEF TrailKept
  <2>2. InTrail(c) => InTrail(c)' \/ c \in trimmed'
    BY <1>2 DEF InTrail
  <2> QED
    BY <1>2, <2>1, <2>2
<1>7. \A q \in Prunes \ {p} :
        /\ prunes[q].revisions \subseteq revisions'
        /\ prunes[q].events \subseteq Present(events)'
        /\ prunes[q].messages \subseteq Present(messages)'
  <2> SUFFICES ASSUME NEW q \in Prunes \ {p}
               PROVE  /\ prunes[q].revisions \subseteq revisions'
                      /\ prunes[q].events \subseteq Present(events)'
                      /\ prunes[q].messages \subseteq Present(messages)'
    OBVIOUS
  <2>1. /\ prunes[q].messages \intersect prunes[p].messages = {}
        /\ prunes[q].events \intersect prunes[p].events = {}
        /\ prunes[q].revisions \intersect prunes[p].revisions = {}
    BY <1>1 DEF DoomedApart
  <2>2. /\ prunes[q].revisions \subseteq revisions
        /\ prunes[q].events \subseteq Present(events)
        /\ prunes[q].messages \subseteq Present(messages)
    BY <1>1, PruneFacts
  <2>3. /\ Present(messages)' = Present(messages) \ prunes[p].messages
        /\ Present(events)' = Present(events) \ prunes[p].events
    BY <1>1, CommitFacts
  <2> QED
    BY <1>2, <2>1, <2>2, <2>3
<1>8. ASSUME NEW q \in Prunes PROVE prunes'[q] \in Prune'
  <2>1. CASE q = p
    <3>1. Unstarted \in PruneOver(revisions', Present(events)', Present(messages)')
      BY DEF Unstarted, PruneOver, Steps
    <3>2. Ended(p) \in PruneOver(revisions', Present(events)', Present(messages)')
      BY <1>1, <3>1, PruneFacts DEF PruneOver, Ended, Steps
    <3> QED
      BY <1>1, <2>1, <3>2, CommitPrunes, PruneIsOver
  <2>2. CASE q # p
    <3> DEFINE d == prunes[q].disturbed \/ Measured(q)
    <3>1. d \in BOOLEAN /\ prunes[q] \in PruneOver(revisions, Present(events), Present(messages))
      BY <1>1, PruneIsOver DEF TypeOK
    <3>2. prunes[q] \in PruneOver(revisions', Present(events)', Present(messages)')
      BY <1>7, <2>2, <3>1, PruneMoves
    <3>3. prunes'[q] = [prunes[q] EXCEPT !.disturbed = d]
      BY <1>1, <2>2, CommitPrunes
    <3> HIDE DEF d
    <3>4. prunes'[q] \in PruneOver(revisions', Present(events)', Present(messages)')
      BY <3>1, <3>2, <3>3 DEF PruneOver
    <3> QED
      BY <3>4, PruneIsOver
  <2> QED
    BY <2>1, <2>2
<1>9. TypeOK'
  <2>1. prunes' = [q \in Prunes |-> prunes'[q]]
    BY DEF Commit
  <2>2. prunes' \in [Prunes -> Prune']
    BY <1>8, <2>1
  <2> QED
    BY <1>1, <1>4, <2>2, CommitFacts DEF TypeOK
<1>10. prunes'[p].at = "ended" /\ prunes'[p].messages = {} /\ prunes'[p].events = {}
       /\ prunes'[p].revisions = {}
  BY <1>1, CommitPrunes DEF Ended, Unstarted
<1>11. DoomedIsOld'
  <2> SUFFICES ASSUME NEW q \in Prunes
               PROVE  /\ Running(q)' => prunes'[q].days \in 1..MaxDays
                                         /\ prunes'[q].cutoff + prunes'[q].days <= clock
                      /\ \A m \in prunes'[q].messages : messages'[m] < prunes'[q].cutoff
                      /\ \A e \in prunes'[q].events : events'[e] < prunes'[q].cutoff
                      /\ \A r \in prunes'[q].revisions : r.at < prunes'[q].cutoff
    BY <1>2 DEF DoomedIsOld
  <2>1. CASE q = p
    BY <1>10, <2>1 DEF Running
  <2>2. CASE q # p
    <3>1. \A m \in prunes[q].messages : messages'[m] = messages[m]
      BY <1>1, <1>7, <2>2, CommitFacts, PresentFacts
    <3>2. \A e \in prunes[q].events : events'[e] = events[e]
      BY <1>1, <1>7, <2>2, CommitFacts, PresentFacts
    <3>3. /\ prunes'[q].at = prunes[q].at /\ prunes'[q].days = prunes[q].days
          /\ prunes'[q].cutoff = prunes[q].cutoff
          /\ prunes'[q].revisions = prunes[q].revisions
          /\ prunes'[q].events = prunes[q].events
          /\ prunes'[q].messages = prunes[q].messages
      BY <1>1, <2>2, CommitPrunes
    <3> QED
      BY <1>1, <3>1, <3>2, <3>3 DEF DoomedIsOld, Running
  <2> QED
    BY <2>1, <2>2
<1>12. DoomedApart'
  <2> SUFFICES ASSUME NEW q \in Prunes, NEW o \in Prunes, q # o
               PROVE  /\ prunes'[q].messages \intersect prunes'[o].messages = {}
                      /\ prunes'[q].events \intersect prunes'[o].events = {}
                      /\ prunes'[q].revisions \intersect prunes'[o].revisions = {}
    BY DEF DoomedApart
  <2>1. CASE q = p \/ o = p
    BY <1>10, <2>1
  <2>2. CASE q # p /\ o # p
    <3>1. /\ prunes'[q].messages = prunes[q].messages
          /\ prunes'[q].events = prunes[q].events
          /\ prunes'[q].revisions = prunes[q].revisions
          /\ prunes'[o].messages = prunes[o].messages
          /\ prunes'[o].events = prunes[o].events
          /\ prunes'[o].revisions = prunes[o].revisions
      BY <1>1, <2>2, CommitPrunes
    <3> QED
      BY <1>1, <3>1 DEF DoomedApart
  <2> QED
    BY <2>1, <2>2
<1>13. MeasureHolds'
  <2> SUFFICES ASSUME NEW q \in Prunes, Measured(q)' PROVE prunes'[q].disturbed
    BY DEF MeasureHolds
  <2>1. q # p
    BY <1>10 DEF Measured
  <2>2. prunes'[q].at = prunes[q].at
        /\ prunes'[q].disturbed = (prunes[q].disturbed \/ Measured(q))
    BY <1>1, <2>1, CommitPrunes
  <2>3. Measured(q)
    BY <2>2 DEF Measured
  <2> QED
    BY <2>2, <2>3
<1>14. ReportIsTrue'
  <2> SUFFICES ASSUME NEW q \in Prunes, prunes'[q].at = "finish", ~prunes'[q].disturbed
               PROVE  prunes'[q].freed = Cardinality(FilesOn(prunes[q].messages)')
    BY DEF ReportIsTrue
  <2>1. q # p
    BY <1>10
  <2>2. /\ prunes[q].at = "finish" /\ ~prunes[q].disturbed
        /\ prunes'[q].freed = prunes[q].freed
        /\ prunes'[q].messages = prunes[q].messages
    BY <1>1, <2>1, CommitPrunes
  <2>3. FilesOn(prunes[q].messages)' =
          {f \in Present(files)' : files'[f] \in prunes[q].messages}
    BY <2>2 DEF FilesOn
  <2>4. \A f \in FilesOn(prunes[q].messages) : f \notin FilesOn(prunes[p].messages)
    BY <1>1, <2>1 DEF DoomedApart, FilesOn
  <2>5. FilesOn(prunes[q].messages)' = FilesOn(prunes[q].messages)
    BY <1>1, <2>3, <2>4, CommitFacts, PresentFacts DEF FilesOn
  <2> QED
    BY <1>1, <2>2, <2>5 DEF ReportIsTrue
<1> QED
  BY <1>5, <1>6, <1>9, <1>11, <1>12, <1>13, <1>14 DEF IInv

-----------------------------------------------------------------------------
(* Nothing is there, and no prune has begun.                               *)
LEMMA InvInit == Init => IInv
<1> SUFFICES ASSUME Init PROVE IInv
  OBVIOUS
<1>1. /\ clock = 0 /\ notes = [k \in NoteKeys |-> NoNote] /\ revisions = {}
      /\ calls = [c \in Calls |-> Idle]
      /\ messages = [m \in Messages |-> Absent]
      /\ files = [f \in Files |-> Absent]
      /\ events = [e \in Events |-> Absent]
      /\ prunes = [p \in Prunes |-> Unstarted]
      /\ trimmed = {}
  BY DEF Init, NotesInit
<1>2. TypeOK
  BY <1>1, UnstartedFacts DEF TypeOK, NotesTypeOK
<1>3. \A p \in Prunes : /\ prunes[p].at = "idle" /\ prunes[p].messages = {}
                        /\ prunes[p].events = {} /\ prunes[p].revisions = {}
  BY <1>1 DEF Unstarted
<1>4. IdsNameInserts /\ TrailKept
  BY <1>1 DEF IdsNameInserts, TrailKept
<1>5. DoomedIsOld /\ DoomedApart /\ MeasureHolds /\ ReportIsTrue
  BY <1>3 DEF DoomedIsOld, DoomedApart, MeasureHolds, ReportIsTrue, Running, Measured
<1> QED
  BY <1>2, <1>4, <1>5 DEF IInv

(* Every step keeps the invariant.                                         *)
LEMMA InvStep == IInv /\ [Next]_vars => IInv'
<1> SUFFICES ASSUME IInv, [Next]_vars PROVE IInv'
  OBVIOUS
<1>1. ASSUME NEW m \in Messages, NEW fs \in SUBSET Files, Post(m, fs) PROVE IInv'
  BY <1>1, PostKeeps
<1>2. ASSUME NEW m \in Messages, NEW f \in Files, Attach(f, m) PROVE IInv'
  BY <1>2, AttachKeeps
<1>3. ASSUME NEW e \in Events, LogTaskEvent(e) PROVE IInv'
  BY <1>3, LogKeeps
<1>4. CASE WriteNotes
  BY <1>4, WriteNotesKeeps
<1>5. ASSUME NEW p \in Prunes, Commit(p) PROVE IInv'
  BY <1>5, CommitKeeps
<1>6. CASE DayPasses
  BY <1>6, DayKeeps
<1>7. CASE UNCHANGED vars
  <2>1. /\ clock' = clock /\ UNCHANGED <<notesVars, prunes, trimmed>>
        /\ messages' = messages /\ files' = files /\ events' = events
    BY <1>7 DEF vars, rows
  <2>2. /\ Present(messages)' = Present(messages)
        /\ Present(files)' = Present(files)
    BY <2>1 DEF Present
  <2>3. TypeOK
    BY DEF IInv
  <2> QED
    BY <2>1, <2>2, <2>3, ArrivalsKeep DEF TypeOK
<1> QED
  BY <1>1, <1>2, <1>3, <1>4, <1>5, <1>6, <1>7, PruneStepsKeep DEF Next

(* The inductive invariant holds throughout.                               *)
THEOREM InvHolds == Spec => []IInv
BY InvInit, InvStep, PTL DEF Spec

(* No row outlives the row it cascades from, and what a prune holds doomed *)
(* is there until it ends.                                                 *)
THEOREM TypeCorrect == Spec => []TypeOK
<1>1. IInv => TypeOK
  BY DEF IInv
<1> QED
  BY <1>1, InvHolds, PTL

(* A bad overwrite of a note is recoverable, by however many writers, and  *)
(* whatever is deleted or pruned meanwhile.                                *)
THEOREM OverwritesAreKept == Spec => []TrailKept
<1>1. IInv => TrailKept
  BY DEF IInv
<1> QED
  BY <1>1, InvHolds, PTL

(* A prune reports the bytes that go. *)
THEOREM ReportsAreTrue == Spec => []ReportIsTrue
<1>1. IInv => ReportIsTrue
  BY DEF IInv
<1> QED
  BY <1>1, InvHolds, PTL

-----------------------------------------------------------------------------
(* What one step may make go. *)
OnlyOldGo ==
  /\ \A m \in Present(messages) :
       messages'[m] = Gone => \E p \in Prunes : Wanted(p, messages[m])
  /\ \A e \in Present(events) :
       events'[e] = Gone => \E p \in Prunes : Wanted(p, events[e])
  /\ \A r \in revisions \ revisions' :
       r.note \notin LiveIds' \/ \E p \in Prunes : Wanted(p, r.at)
  /\ \A f \in Present(files) :
       files'[f] = Gone => messages'[files[f]] = Gone

(* A step that leaves every row that is there. *)
LEMMA NothingGoes ==
  ASSUME TypeOK,
         \A m \in Present(messages) : messages'[m] = messages[m],
         \A e \in Present(events) : events'[e] = events[e],
         \A f \in Present(files) : files'[f] = files[f],
         \A r \in revisions \ revisions' : r.note \notin LiveIds'
  PROVE  OnlyOldGo
BY DEF OnlyOldGo, Present

(* What a commit takes was doomed for its age.                             *)
LEMMA CommitTakesOld ==
  ASSUME IInv, NEW p \in Prunes, Commit(p)
  PROVE  OnlyOldGo
<1>1. TypeOK /\ DoomedIsOld
  BY DEF IInv
<1>2. /\ prunes[p].at = "finish" /\ ~prunes[p].dry
      /\ revisions' = revisions \ prunes[p].revisions
  BY DEF Commit
<1>3. prunes'[p].at = "ended"
  BY <1>1, CommitPrunes DEF Ended, Unstarted
<1>4. prunes[p].days \in Int /\ prunes[p].cutoff \in Int /\ clock \in Int
      /\ prunes[p].cutoff + prunes[p].days <= clock
  BY <1>1, <1>2, PruneFacts DEF DoomedIsOld, Running, TypeOK, NotesTypeOK
<1>5. \A at \in Int : at < prunes[p].cutoff => Wanted(p, at)
  BY <1>2, <1>3, <1>4 DEF Wanted
<1>6. ASSUME NEW m \in Present(messages), messages'[m] = Gone
      PROVE  m \in prunes[p].messages /\ Wanted(p, messages[m])
  <2>1. m \in prunes[p].messages
    BY <1>1, <1>6, CommitFacts, PresentFacts DEF Present
  <2>2. messages[m] \in Int /\ messages[m] < prunes[p].cutoff
    BY <1>1, <2>1, PresentFacts DEF DoomedIsOld
  <2> QED
    BY <1>5, <2>1, <2>2
<1>7. ASSUME NEW e \in Present(events), events'[e] = Gone PROVE Wanted(p, events[e])
  <2>1. e \in prunes[p].events
    BY <1>1, <1>7, CommitFacts, PresentFacts DEF Present
  <2>2. events[e] \in Int /\ events[e] < prunes[p].cutoff
    BY <1>1, <2>1, PresentFacts DEF DoomedIsOld
  <2> QED
    BY <1>5, <2>2
<1>8. ASSUME NEW r \in revisions \ revisions' PROVE Wanted(p, r.at)
  <2>1. r.at \in Int
    BY <1>1, RevisionFacts
  <2>2. r.at < prunes[p].cutoff
    BY <1>1, <1>2 DEF DoomedIsOld
  <2> QED
    BY <1>5, <2>1, <2>2
<1>9. ASSUME NEW f \in Present(files), files'[f] = Gone PROVE messages'[files[f]] = Gone
  <2>1. f \in FilesOn(prunes[p].messages)
    BY <1>1, <1>9, CommitFacts, PresentFacts DEF Present
  <2> QED
    BY <1>1, <2>1, CommitFacts DEF FilesOn
<1> QED
  BY <1>6, <1>7, <1>8, <1>9 DEF OnlyOldGo

(* No other step takes anything but the trail of a deleted note.           *)
LEMMA StepTakesOld == IInv /\ [Next]_vars => OnlyOldGo \/ UNCHANGED vars
<1> SUFFICES ASSUME IInv, Next PROVE OnlyOldGo
  OBVIOUS
<1>0. TypeOK
  BY DEF IInv
<1>1. ASSUME NEW m \in Messages, NEW fs \in SUBSET Files, Post(m, fs) PROVE OnlyOldGo
  <2>1. \A x \in Present(messages) : messages'[x] = messages[x]
    BY <1>0, <1>1 DEF Post, Present, TypeOK
  <2>2. \A f \in Present(files) : files'[f] = files[f]
    BY <1>0, <1>1 DEF Post, Present, TypeOK
  <2>3. events' = events /\ revisions' = revisions
    BY <1>1 DEF Post, notesVars
  <2> QED
    BY <1>0, <2>1, <2>2, <2>3, NothingGoes
<1>2. ASSUME NEW m \in Messages, NEW f \in Files, Attach(f, m) PROVE OnlyOldGo
  <2>1. \A x \in Present(files) : files'[x] = files[x]
    BY <1>0, <1>2 DEF Attach, Present, TypeOK
  <2>2. messages' = messages /\ events' = events /\ revisions' = revisions
    BY <1>2 DEF Attach, notesVars
  <2> QED
    BY <1>0, <2>1, <2>2, NothingGoes
<1>3. ASSUME NEW e \in Events, LogTaskEvent(e) PROVE OnlyOldGo
  <2>1. \A x \in Present(events) : events'[x] = events[x]
    BY <1>0, <1>3 DEF LogTaskEvent, Present, TypeOK
  <2>2. messages' = messages /\ files' = files /\ revisions' = revisions
    BY <1>3 DEF LogTaskEvent, notesVars
  <2> QED
    BY <1>0, <2>1, <2>2, NothingGoes
<1>4. CASE WriteNotes
  <2>1. messages' = messages /\ files' = files /\ events' = events /\ NotesStep
    BY <1>4 DEF WriteNotes, rows, NotesStep
  <2>2. \A r \in revisions \ revisions' : r.note \notin LiveIds'
    <3>1. CASE revisions \subseteq revisions'
      BY <3>1
    <3>2. ASSUME NEW k \in NoteKeys, DeleteNote(k)
          PROVE  \A r \in revisions \ revisions' : r.note \notin LiveIds'
      BY <2>1, <3>2, DeleteKeeps DEF IInv
    <3> QED
      BY <1>4, <3>1, <3>2
      DEF WriteNotes, Upsert, KeepRevision, SetNoteFails, AnswerSet, SetNoteDies
  <2> QED
    BY <1>0, <2>1, <2>2, NothingGoes
<1>5. ASSUME NEW p \in Prunes, Commit(p) PROVE OnlyOldGo
  BY <1>5, CommitTakesOld
<1>6. ASSUME UNCHANGED rows, revisions' = revisions PROVE OnlyOldGo
  BY <1>0, <1>6, NothingGoes DEF rows
<1>7. CASE DayPasses
  BY <1>6, <1>7 DEF DayPasses, notesVars
<1>8. ASSUME NEW p \in Prunes,
             \/ \E days \in Windows, dry \in BOOLEAN : Begin(p, days, dry)
             \/ Measure(p)
             \/ DropRevisions(p)
             \/ DropEvents(p)
             \/ DropMessages(p)
             \/ RollBack(p)
      PROVE  OnlyOldGo
  BY <1>6, <1>8
  DEF Begin, Measure, DropRevisions, DropEvents, DropMessages, RollBack, notesVars
<1> QED
  BY <1>1, <1>2, <1>3, <1>4, <1>5, <1>7, <1>8 DEF Next

(* Only a prune that was wanted takes a row, and only one older than its   *)
(* window; a revision goes with its note too, and a file with its message. *)
THEOREM PrunesTakeOnlyOld == Spec => OnlyOldGoes
<1>1. IInv /\ [Next]_vars => [OnlyOldGo]_vars
  BY StepTakesOld
<1>2. Spec => [][OnlyOldGo]_vars
  BY <1>1, InvHolds, PTL DEF Spec
<1> QED
  BY <1>2 DEF OnlyOldGoes, OnlyOldGo
=============================================================================
