------------------------------- MODULE Notes -------------------------------
(***************************************************************************)
(* The team's notes and the trail of their values: src/store/notes.rs.     *)
(* set_note is three statements of their own: the upsert, the INSERT into  *)
(* note_revisions, and the SELECT its answer is made of.  Other calls, and *)
(* delete_note, run between them, and the call may die there.  Reading,    *)
(* listing and searching change nothing.                                   *)
(*                                                                         *)
(* A value is named by the call that wrote it, and the id of a row of      *)
(* notes by the call whose upsert inserted it.                             *)
(***************************************************************************)
EXTENDS Integers, FiniteSets

CONSTANTS NoteKeys,   \* (scope, key) pairs
          Calls,      \* calls of set_note and delete_note
          NoNote,     \* there is no row under a key
          Idle,       \* a call that has not begun
          MaxClock    \* bound on the clock

Stages == {"written", "kept", "ended", "lost"}
Setting == [at : Stages, key : NoteKeys, note : Calls]
Row == [id : Calls, value : Calls]

ASSUME NotesAssumption ==
  /\ NoNote \notin Row
  /\ Idle \notin Setting
  /\ MaxClock \in Nat

VARIABLES clock,      \* in days
          notes,      \* the row under each key
          revisions,  \* the rows of note_revisions
          calls       \* how far each call of set_note has come

notesVars == <<notes, revisions, calls>>

-----------------------------------------------------------------------------
LiveIds == {notes[k].id : k \in {x \in NoteKeys : notes[x] # NoNote}}

NotesInit ==
  /\ clock = 0
  /\ notes = [k \in NoteKeys |-> NoNote]
  /\ revisions = {}
  /\ calls = [c \in Calls |-> Idle]

(* INSERT ... ON CONFLICT DO UPDATE ... RETURNING id. *)
Upsert(c, k) ==
  LET row == IF notes[k] = NoNote THEN [id |-> c, value |-> c]
                                  ELSE [notes[k] EXCEPT !.value = c] IN
  /\ calls[c] = Idle
  /\ notes' = [notes EXCEPT ![k] = row]
  /\ calls' = [calls EXCEPT ![c] = [at |-> "written", key |-> k, note |-> row.id]]
  /\ UNCHANGED revisions

(* Variant: the revision is a copy of the row, whatever it holds by now. *)
CopyRevision(c) ==
  /\ calls[c] # Idle
  /\ calls[c].at = "written"
  /\ calls[c].note \in LiveIds
  /\ revisions' = revisions \union
       {[note |-> calls[c].note, value |-> notes[calls[c].key].value, at |-> clock]}
  /\ calls' = [calls EXCEPT ![c].at = "kept"]
  /\ UNCHANGED notes

(* The value the call wrote goes to the trail of the row it was given. *)
KeepRevision(c) ==
  /\ calls[c] # Idle
  /\ calls[c].at = "written"
  /\ calls[c].note \in LiveIds
  /\ revisions' = revisions \union
       {[note |-> calls[c].note, value |-> c, at |-> clock]}
  /\ calls' = [calls EXCEPT ![c].at = "kept"]
  /\ UNCHANGED notes

(* The row was deleted meanwhile: the foreign key refuses the revision. *)
SetNoteFails(c) ==
  /\ calls[c] # Idle
  /\ calls[c].at = "written"
  /\ calls[c].note \notin LiveIds
  /\ calls' = [calls EXCEPT ![c].at = "lost"]
  /\ UNCHANGED <<notes, revisions>>

(* get_note: the answer shows whatever the key holds by now, or an error. *)
AnswerSet(c) ==
  /\ calls[c] # Idle
  /\ calls[c].at = "kept"
  /\ calls' = [calls EXCEPT ![c].at = "ended"]
  /\ UNCHANGED <<notes, revisions>>

(* The call is cut between the upsert and the revision. *)
SetNoteDies(c) ==
  /\ calls[c] # Idle
  /\ calls[c].at = "written"
  /\ calls' = [calls EXCEPT ![c].at = "lost"]
  /\ UNCHANGED <<notes, revisions>>

(* Variant: the revisions stay behind when their note is deleted. *)
DeleteRowOnly(k) ==
  /\ notes[k] # NoNote
  /\ notes' = [notes EXCEPT ![k] = NoNote]
  /\ UNCHANGED <<revisions, calls>>

(* delete_note; the revisions cascade from the row. *)
DeleteNote(k) ==
  /\ notes[k] # NoNote
  /\ notes' = [notes EXCEPT ![k] = NoNote]
  /\ revisions' = {r \in revisions : r.note # notes[k].id}
  /\ UNCHANGED calls

-----------------------------------------------------------------------------
(* The value a call wrote can be found in the trail of the row it wrote. *)
InTrail(c) == \E r \in revisions : r.note = calls[c].note /\ r.value = c

NotesTypeOK ==
  /\ clock \in Nat
  /\ notes \in [NoteKeys -> Row \union {NoNote}]
  /\ revisions \subseteq [note : LiveIds, value : Calls, at : 0..clock]
  /\ calls \in [Calls -> Setting \union {Idle}]
=============================================================================
