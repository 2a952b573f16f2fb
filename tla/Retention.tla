----------------------------- MODULE Retention -----------------------------
(***************************************************************************)
(* `team prune`: src/store/quota.rs (prune) and src/admin.rs (team_prune), *)
(* over the rows it trims: messages with the files cascading from them,    *)
(* task events, and the revisions of Notes, which go on being written and  *)
(* deleted meanwhile.                                                      *)
(*                                                                         *)
(* A prune is one READ COMMITTED transaction of four statements.  Its      *)
(* now() is the moment it began; what it deletes is doomed until it ends,  *)
(* and whoever needs a doomed row waits.                                   *)
(***************************************************************************)
EXTENDS Notes

CONSTANTS Messages, Files, Events,   \* rows that may be inserted
          Prunes,                    \* runs of the command
          Windows,                   \* values of --older-than-days
          MaxDays,                   \* i32::MAX
          Absent, Gone               \* a row before its insert and after

Steps == {"idle", "measure", "revisions", "events", "messages", "finish", "ended"}

ASSUME RetentionAssumption ==
  /\ IsFiniteSet(Files)
  /\ Absent # Gone
  /\ {Absent, Gone} \intersect (Messages \union Nat) = {}
  /\ Windows \subseteq Int
  /\ MaxDays \in Nat

VARIABLES messages,   \* created_at of each message
          files,      \* the message each attachment hangs on
          events,     \* created_at of each task event
          prunes,     \* the transaction of each prune
          trimmed     \* the calls whose revision was pruned

rows == <<messages, files, events>>
vars == <<clock, notesVars, rows, prunes, trimmed>>

-----------------------------------------------------------------------------
Present(t) == {x \in DOMAIN t : t[x] \notin {Absent, Gone}}
FilesOn(ms) == {f \in Present(files) : files[f] \in ms}

(* The days as the 32 bits make_interval is given hold them. *)
AsI32(days) == ((days + MaxDays + 1) % (2 * (MaxDays + 1))) - (MaxDays + 1)

(* Variant: any window above the floor is cast. *)
AcceptedUnbounded(days) == days >= 1

(* Below one day, and above what i32::try_from takes, a prune is refused. *)
Accepted(days) == days >= 1 /\ days <= MaxDays

Old(t, p) == {x \in Present(t) : t[x] < prunes[p].cutoff}
OldRevisions(p) == {r \in revisions : r.at < prunes[p].cutoff}

(* What another transaction has deleted and not yet committed. *)
Doomed(field, p) == UNION {prunes[q][field] : q \in Prunes \ {p}}
DoomedByAny(field) == UNION {prunes[q][field] : q \in Prunes}

Unstarted ==
  [at |-> "idle", days |-> 0, cutoff |-> 0, dry |-> FALSE, freed |-> 0,
   revisions |-> {}, events |-> {}, messages |-> {}, disturbed |-> FALSE]

(* A prune between its measurement and its last DELETE. *)
Measured(p) == prunes[p].at \in {"revisions", "events", "messages"}

Init ==
  /\ NotesInit
  /\ messages = [m \in Messages |-> Absent]
  /\ files = [f \in Files |-> Absent]
  /\ events = [e \in Events |-> Absent]
  /\ prunes = [p \in Prunes |-> Unstarted]
  /\ trimmed = {}

-----------------------------------------------------------------------------
(* What the team does meanwhile.  post_message, with or without files. *)
Post(m, fs) ==
  /\ messages[m] = Absent
  /\ \A f \in fs : files[f] = Absent
  /\ messages' = [messages EXCEPT ![m] = clock]
  /\ files' = [f \in Files |-> IF f \in fs THEN m ELSE files[f]]
  /\ UNCHANGED <<clock, notesVars, events, prunes, trimmed>>

(* attach_to_message: its foreign key waits for a message that is doomed. *)
Attach(f, m) ==
  /\ files[f] = Absent
  /\ m \in Present(messages) \ DoomedByAny("messages")
  /\ files' = [files EXCEPT ![f] = m]
  /\ prunes' = [p \in Prunes |->
                  [prunes[p] EXCEPT !.disturbed =
                     @ \/ (Measured(p) /\ m \in Old(messages, p))]]
  /\ UNCHANGED <<clock, notesVars, messages, events, trimmed>>

LogTaskEvent(e) ==
  /\ events[e] = Absent
  /\ events' = [events EXCEPT ![e] = clock]
  /\ UNCHANGED <<clock, notesVars, messages, files, prunes, trimmed>>

(* delete_note waits for revisions that are doomed. *)
WriteNotes ==
  /\ \/ \E c \in Calls :
          \/ \E k \in NoteKeys : Upsert(c, k)
          \/ KeepRevision(c)
          \/ SetNoteFails(c)
          \/ AnswerSet(c)
          \/ SetNoteDies(c)
     \/ \E k \in NoteKeys :
          /\ DeleteNote(k)
          /\ \A r \in DoomedByAny("revisions") : r.note # notes[k].id
  /\ UNCHANGED <<clock, rows, prunes, trimmed>>

-----------------------------------------------------------------------------
(* The bounds on the days, and BEGIN. *)
Begin(p, days, dry) ==
  /\ prunes[p].at = "idle"
  /\ Accepted(days)
  /\ prunes' = [prunes EXCEPT ![p] =
                  [Unstarted EXCEPT !.at = "measure", !.days = days, !.dry = dry,
                                    !.cutoff = clock - AsI32(days)]]
  /\ UNCHANGED <<clock, notesVars, rows, trimmed>>

(* Variant: every file on a message is measured. *)
MeasureAll(p) ==
  /\ prunes[p].at = "measure"
  /\ prunes' = [prunes EXCEPT
       ![p].at = "revisions", ![p].freed = Cardinality(Present(files))]
  /\ UNCHANGED <<clock, notesVars, rows, trimmed>>

(* The bytes of the files on old messages, by a statement of its own. *)
Measure(p) ==
  /\ prunes[p].at = "measure"
  /\ prunes' = [prunes EXCEPT
       ![p].at = "revisions", ![p].freed = Cardinality(FilesOn(Old(messages, p)))]
  /\ UNCHANGED <<clock, notesVars, rows, trimmed>>

(* A DELETE waits for rows another prune has deleted, and then skips them. *)
DropRevisions(p) ==
  /\ prunes[p].at = "revisions"
  /\ OldRevisions(p) \intersect Doomed("revisions", p) = {}
  /\ prunes' = [prunes EXCEPT ![p].at = "events", ![p].revisions = OldRevisions(p)]
  /\ UNCHANGED <<clock, notesVars, rows, trimmed>>

DropEvents(p) ==
  /\ prunes[p].at = "events"
  /\ Old(events, p) \intersect Doomed("events", p) = {}
  /\ prunes' = [prunes EXCEPT ![p].at = "messages", ![p].events = Old(events, p)]
  /\ UNCHANGED <<clock, notesVars, rows, trimmed>>

DropMessages(p) ==
  /\ prunes[p].at = "messages"
  /\ Old(messages, p) \intersect Doomed("messages", p) = {}
  /\ prunes' = [prunes EXCEPT ![p].at = "finish", ![p].messages = Old(messages, p)]
  /\ UNCHANGED <<clock, notesVars, rows, trimmed>>

Discard(t, xs) == [x \in DOMAIN t |-> IF x \in xs THEN Gone ELSE t[x]]
Ended(p) == [Unstarted EXCEPT !.at = "ended", !.dry = prunes[p].dry]

(* COMMIT: what was doomed is gone, the files with their messages.  Other  *)
(* prunes that have measured will find less than they measured.            *)
Commit(p) ==
  /\ prunes[p].at = "finish"
  /\ ~prunes[p].dry
  /\ messages' = Discard(messages, prunes[p].messages)
  /\ files' = Discard(files, FilesOn(prunes[p].messages))
  /\ events' = Discard(events, prunes[p].events)
  /\ revisions' = revisions \ prunes[p].revisions
  /\ trimmed' = trimmed \union {r.value : r \in prunes[p].revisions}
  /\ prunes' = [q \in Prunes |->
                  IF q = p THEN Ended(p)
                  ELSE [prunes[q] EXCEPT !.disturbed = @ \/ Measured(q)]]
  /\ UNCHANGED <<clock, notes, calls>>

(* ROLLBACK: of a dry run at its end, or of a prune a statement of which   *)
(* failed or whose operator is gone, anywhere.                             *)
RollBack(p) ==
  /\ prunes[p].at \notin {"idle", "ended"}
  /\ prunes' = [prunes EXCEPT ![p] = Ended(p)]
  /\ UNCHANGED <<clock, notesVars, rows, trimmed>>

DayPasses ==
  /\ clock < MaxClock
  /\ clock' = clock + 1
  /\ UNCHANGED <<notesVars, rows, prunes, trimmed>>

Next ==
  \/ \E m \in Messages :
       \/ \E fs \in SUBSET Files : Post(m, fs)
       \/ \E f \in Files : Attach(f, m)
  \/ \E e \in Events : LogTaskEvent(e)
  \/ WriteNotes
  \/ \E p \in Prunes :
       \/ \E days \in Windows, dry \in BOOLEAN : Begin(p, days, dry)
       \/ Measure(p)
       \/ DropRevisions(p)
       \/ DropEvents(p)
       \/ DropMessages(p)
       \/ Commit(p)
       \/ RollBack(p)
  \/ DayPasses

Spec == Init /\ [][Next]_vars

-----------------------------------------------------------------------------
Prune ==
  [at : Steps, days : Int, cutoff : Int, dry : BOOLEAN, freed : Nat,
   revisions : SUBSET revisions, events : SUBSET Present(events),
   messages : SUBSET Present(messages), disturbed : BOOLEAN]

(* No row outlives the row it cascades from: revisions belong to notes     *)
(* that are there, files to messages that are there, and what a prune      *)
(* holds doomed is there until it ends.                                    *)
TypeOK ==
  /\ NotesTypeOK
  /\ messages \in [Messages -> Nat \union {Absent, Gone}]
  /\ files \in [Files -> Present(messages) \union {Absent, Gone}]
  /\ events \in [Events -> Nat \union {Absent, Gone}]
  /\ prunes \in [Prunes -> Prune]
  /\ trimmed \subseteq Calls

(* A bad overwrite is recoverable: every value ever written to a note that *)
(* still exists is in its trail, unless its writer has not come to the     *)
(* INSERT (set_note is not one transaction) or died before it, or the      *)
(* revision was pruned for its age.                                        *)
TrailKept ==
  \A c \in Calls :
    calls[c] # Idle /\ calls[c].note \in LiveIds =>
      InTrail(c) \/ calls[c].at \in {"written", "lost"} \/ c \in trimmed

(* Prune p commits in this step, and wanted rows of that age gone. *)
Wanted(p, at) ==
  /\ prunes[p].at = "finish" /\ prunes'[p].at = "ended"
  /\ ~prunes[p].dry
  /\ clock - at > prunes[p].days

(* Whatever the window given, and however prunes, writers and failures     *)
(* interleave, a message or an event goes only by a prune that was not a   *)
(* dry run and when it is older than that window; a revision only so or    *)
(* with its note; a file only with its message.                            *)
OnlyOldGoes ==
  [][/\ \A m \in Present(messages) :
          messages'[m] = Gone => \E p \in Prunes : Wanted(p, messages[m])
     /\ \A e \in Present(events) :
          events'[e] = Gone => \E p \in Prunes : Wanted(p, events[e])
     /\ \A r \in revisions \ revisions' :
          r.note \notin LiveIds' \/ \E p \in Prunes : Wanted(p, r.at)
     /\ \A f \in Present(files) :
          files'[f] = Gone => messages'[files[f]] = Gone]_vars

(* The bytes a prune reports are those that go, or that a dry run would    *)
(* have freed, unless a file was attached to an old message or another     *)
(* prune committed after they were measured.                               *)
ReportIsTrue ==
  \A p \in Prunes :
    prunes[p].at = "finish" /\ ~prunes[p].disturbed =>
      prunes[p].freed = Cardinality(FilesOn(prunes[p].messages))
=============================================================================
