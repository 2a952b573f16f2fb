----------------------------- MODULE StopDrain -----------------------------
(***************************************************************************)
(* The plugin's Stop hook, plugin/scripts/stop-drain.sh: when a window of  *)
(* `me` comes to the end of a turn it looks for a question a teammate is   *)
(* blocked on, and holds the window open for the oldest it has not raised. *)
(*                                                                         *)
(* The hook calls the bus without X-Crew-Session (bus-call.sh), so what it *)
(* reads is what the shared session reads: a question addressed to a named *)
(* session of `me` is not in its feed.  What it has raised it keeps in a   *)
(* file of its window.  The client kills a hook that takes too long, at    *)
(* any of its steps.                                                       *)
(*                                                                         *)
(* Messages are numbered by their ids, which commit in order here.         *)
(***************************************************************************)
EXTENDS Integers, Sequences, FiniteSetsExt

CONSTANTS Windows,     \* windows of `me`, each with a session_id of its own
          FeedSize,    \* 50: the limit the hook reads with
          FileSize,    \* 200: the ids the file keeps
          MaxLog,      \* bound on the messages posted
          MaxFaults    \* bound on the hooks that fail or are killed

ASSUME StopDrainAssumption ==
  /\ FeedSize \in Nat \ {0}
  /\ FileSize \in Nat
  /\ FeedSize <= FileSize
  /\ {MaxLog, MaxFaults} \subseteq Nat

(* What the hook can tell of a message.  `re` is reply_to.                 *)
(*   question  a teammate's direct message marked as a question            *)
(*   hidden    one addressed to a named session of `me`                    *)
(*   mine      what `me` sent: a reply to message `re`, or anything (0)    *)
(*   chatter   anything else the shared session of `me` reads              *)
Kinds == {"question", "hidden", "mine", "chatter"}
Message == [kind : Kinds, re : Nat]

VARIABLES log,      \* the messages of the team, by id
          hook,     \* per window: the hook that runs, or that none does
          file,     \* the ids in the window's file
          raised,   \* what the window was held open for since its file is whole
          swallowed,\* what a killed hook had marked and not raised
          faults    \* counts towards MaxFaults

hookVars == <<log, hook, file, raised, swallowed, faults>>

Resting == [at |-> "rest", upTo |-> 0, id |-> 0, keep |-> {}]

-----------------------------------------------------------------------------
Newest(s, n) == {i \in s : Cardinality({j \in s : j > i}) < n}

(* Variant: the scope is `inbox`, which leaves out what `me` sent. *)
ReceivedOnly(n) == {i \in 1..n : log[i].kind \in {"question", "chatter"}}

(* Scope `all` of the shared session, among the first n messages. *)
Visible(n) == {i \in 1..n : log[i].kind # "hidden"}

Feed(n) == Newest(Visible(n), FeedSize)

Answered(n) == {log[i].re : i \in {j \in Feed(n) : log[j].kind = "mine"}}

Pending(w, n) ==
  {i \in Feed(n) : log[i].kind = "question" /\ i \notin Answered(n) \union file[w]}

(* Variants: only the newest id is remembered; or all of them are. *)
HighWaterMark(ids) == Newest(ids, 1)
Everything(ids) == ids

(* The greatest ids, as many as the file keeps. *)
Bounded(ids) == Newest(ids, FileSize)

-----------------------------------------------------------------------------
HookInit ==
  /\ log = <<>>
  /\ hook = [w \in Windows |-> Resting]
  /\ file = [w \in Windows |-> {}]
  /\ raised = [w \in Windows |-> {}]
  /\ swallowed = [w \in Windows |-> {}]
  /\ faults = 0

Post(m) ==
  /\ Len(log) < MaxLog
  /\ m.re \in 0..Len(log)
  /\ m.kind # "mine" => m.re = 0
  /\ log' = Append(log, m)
  /\ UNCHANGED <<hook, file, raised, swallowed, faults>>

(* A turn ends and the hook reads the feed. *)
ReadFeed(w) ==
  /\ hook[w].at = "rest"
  /\ hook' = [hook EXCEPT ![w] = [Resting EXCEPT !.at = "read", !.upTo = Len(log)]]
  /\ UNCHANGED <<log, file, raised, swallowed, faults>>

(* No question is pending: nothing is printed and the window goes quiet. *)
GoQuiet(w) ==
  /\ hook[w].at = "read"
  /\ Pending(w, hook[w].upTo) = {}
  /\ hook' = [hook EXCEPT ![w] = Resting]
  /\ UNCHANGED <<log, file, raised, swallowed, faults>>

(* Variant: every pending question is marked with the one that is raised. *)
ChooseAndMarkAll(w) ==
  /\ hook[w].at = "read"
  /\ Pending(w, hook[w].upTo) # {}
  /\ hook' = [hook EXCEPT
       ![w].at = "writing", ![w].id = Min(Pending(w, hook[w].upTo)),
       ![w].keep = Bounded(file[w] \union Pending(w, hook[w].upTo))]
  /\ file' = [file EXCEPT ![w] = {}]
  /\ UNCHANGED <<log, raised, swallowed, faults>>

(* The oldest is taken, and the file opened for writing, which empties it. *)
Choose(w) ==
  /\ hook[w].at = "read"
  /\ Pending(w, hook[w].upTo) # {}
  /\ LET id == Min(Pending(w, hook[w].upTo)) IN
     hook' = [hook EXCEPT ![w].at = "writing", ![w].id = id,
                          ![w].keep = Bounded(file[w] \union {id})]
  /\ file' = [file EXCEPT ![w] = {}]
  /\ UNCHANGED <<log, raised, swallowed, faults>>

Mark(w) ==
  /\ hook[w].at = "writing"
  /\ file' = [file EXCEPT ![w] = hook[w].keep]
  /\ hook' = [hook EXCEPT ![w].at = "marked"]
  /\ UNCHANGED <<log, raised, swallowed, faults>>

(* The decision to block is printed, and the turn goes on. *)
Raise(w) ==
  /\ hook[w].at = "marked"
  /\ raised' = [raised EXCEPT ![w] = @ \union {hook[w].id}]
  /\ hook' = [hook EXCEPT ![w] = Resting]
  /\ UNCHANGED <<log, file, swallowed, faults>>

(* The bus does not answer, or the client kills the hook.  What the file   *)
(* held is lost if it was being written, and what was marked is not raised. *)
Fail(w) ==
  /\ hook[w].at # "rest"
  /\ faults < MaxFaults
  /\ faults' = faults + 1
  /\ raised' = [raised EXCEPT ![w] = IF hook[w].at = "writing" THEN {} ELSE @]
  /\ swallowed' = [swallowed EXCEPT
       ![w] = IF hook[w].at = "marked" THEN @ \union {hook[w].id} ELSE @]
  /\ hook' = [hook EXCEPT ![w] = Resting]
  /\ UNCHANGED <<log, file>>

HookStep(w) == ReadFeed(w) \/ GoQuiet(w) \/ Choose(w) \/ Mark(w) \/ Raise(w)

HookNext ==
  \/ \E m \in [kind : Kinds, re : 0..MaxLog] : Post(m)
  \/ \E w \in Windows : HookStep(w) \/ Fail(w)

(* The windows go on coming to the ends of turns, and a hook that is not   *)
(* killed runs to its end.                                                 *)
HookFairness == \A w \in Windows : WF_hookVars(HookStep(w))

HookSpec == HookInit /\ [][HookNext]_hookVars /\ HookFairness

-----------------------------------------------------------------------------
Hook == [at : {"rest", "read", "writing", "marked"}, upTo : 0..Len(log),
         id : 0..Len(log), keep : SUBSET (1..Len(log))]

(* The types, and that the file keeps no more than FileSize ids. *)
HookTypeOK ==
  /\ log \in Seq(Message)
  /\ Len(log) <= MaxLog
  /\ hook \in [Windows -> Hook]
  /\ file \in [Windows -> SUBSET (1..Len(log))]
  /\ \A w \in Windows : Cardinality(file[w]) <= FileSize
  /\ raised \in [Windows -> SUBSET (1..Len(log))]
  /\ swallowed \in [Windows -> SUBSET (1..Len(log))]
  /\ faults \in 0..MaxFaults

(* Each question is only ever blocked on once in a window, though the file *)
(* forgets old ids and the oldest question, not the newest, is taken; but  *)
(* for a hook killed while it was writing the file.                        *)
RaisedOnce ==
  \A w \in Windows : hook[w].at = "marked" => hook[w].id \notin raised[w]

(* Never one you have already replied to: when a question is raised, every *)
(* reply to it that any window of `me` sent came after the feed was read,  *)
(* though the hook sees only a part of what was sent.                      *)
RaisedWasOpen ==
  \A w \in Windows : hook[w].at = "marked" =>
    \A i \in 1..Len(log) :
      log[i].kind = "mine" /\ log[i].re = hook[w].id => i > hook[w].upTo

(* A question to `me` is raised in every window that goes on working,      *)
(* unless it is answered, or pushed out of the feed by newer messages, or  *)
(* marked by a hook that was killed before it raised it.                   *)
QuestionsSurface ==
  \A q \in 1..MaxLog, w \in Windows :
    q <= Len(log) /\ log[q].kind = "question" ~>
      \/ q \in raised[w] \union swallowed[w]
      \/ q \notin Feed(Len(log))
      \/ \E i \in 1..Len(log) : log[i].kind = "mine" /\ log[i].re = q
=============================================================================
