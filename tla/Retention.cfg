SPECIFICATION Spec
CONSTANTS
  NoteKeys = {n1}
  Calls = {c1, c2}
  NoNote = NoNote
  Idle = Idle
  MaxClock = 2
  Messages = {m1}
  Files = {f1}
  Events = {e1}
  Prunes = {p1, p2}
  Windows = {0, 1, 4}
  MaxDays = 3
  Absent = Absent
  Gone = Gone
SYMMETRY Symmetry
INVARIANTS TypeOK TrailKept ReportIsTrue
PROPERTY OnlyOldGoes
CHECK_DEADLOCK FALSE
