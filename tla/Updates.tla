------------------------------ MODULE Updates ------------------------------
(***************************************************************************)
(* How a waiting call learns that something happened: the triggers notify  *)
(* at commit, one listener per server process takes the notifications off  *)
(* its connection and publishes them on the EventHub, and wait_for_updates *)
(* and ask_agent sleep on their receivers of it.  src/events.rs,           *)
(* src/tools/events.rs, ask_agent of src/tools/messaging.rs and            *)
(* find_answer of src/store/messaging.rs.                                  *)
(*                                                                         *)
(* A notification can be lost (the connection breaks) and a receiver can   *)
(* fall behind, so both tools also look into the database; the question is *)
(* whether between the two anything slips.  Messages commit in the order   *)
(* of their ids here (Messages has them differ), none is pruned during a   *)
(* call, and reading is the move of the caller's cursor.                   *)
(***************************************************************************)
EXTENDS Integers, Sequences, FiniteSets

CONSTANTS Agents, Sessions,
          AnySession,   \* recipient_session IS NULL
          Channels,
          None,
          Events,       \* the changes that notify, one each
          Messages,     \* those that are messages; the rest: tasks, locks, notes
          From,         \* From[e]: the sender of a message, <<agent, session>>
          To,           \* To[e]: a channel, or <<agent, session>>
          Announced,    \* the messages posted with `announce`
          ReplyTo,      \* ReplyTo[e]: the message it replies to, or None
          Clients,      \* callers of the two tools
          Identity,     \* Identity[c]: <<agent, session>>
          HomeChannel,  \* HomeChannel[c]: the channel named after c's session, or None
          KindFilters,  \* the kinds callers ask for
          AskTo,        \* AskTo[c]: whom c asks, an address, or None
          Question,     \* Question[c]: the message that asks it
          Capacity,     \* of the broadcast channel: 256
          MaxFaults     \* bound on the connections and the lookups that fail

Identities == Agents \X Sessions
Direct == Agents \X (Sessions \union {AnySession})

ASSUME UpdatesAssumption ==
  /\ Messages \subseteq Events
  /\ From \in [Messages -> Identities]
  /\ To \in [Messages -> Channels \union Direct]
  /\ Channels \intersect Direct = {}
  /\ None \notin Channels \union Direct \union Messages
  /\ Announced \subseteq {e \in Messages : To[e] \in Channels}
  /\ ReplyTo \in [Messages -> Messages \union {None}]
  /\ Identity \in [Clients -> Identities]
  /\ HomeChannel \in [Clients -> Channels \union {None}]
  /\ KindFilters \subseteq SUBSET {"message", "other"}
  /\ AskTo \in [Clients -> Direct \union {None}]
  /\ \A c \in Clients : AskTo[c] # None =>
       /\ AskTo[c] # Identity[c]
       /\ Question[c] \in Messages
       /\ From[Question[c]] = Identity[c] /\ To[Question[c]] = AskTo[c]
       /\ ReplyTo[Question[c]] = None
       /\ \A d \in Clients \ {c} : Question[d] # Question[c]
  /\ IsFiniteSet(Events)
  /\ Capacity \in Nat \ {0}
  /\ MaxFaults \in Nat

VARIABLES id,      \* id[e]: its place among the commits, 0 before
          wire,    \* notifications on the listener's connection
          up,      \* the listener is connected
          lost,    \* events whose notification never reached the hub
          faults,  \* how often the connection broke or a lookup failed
          queue,   \* queue[c]: what c's receiver has yet to take
          lagged,  \* lagged[c]: the receiver lost events it had not taken
          cursor,  \* cursor[i]: the read cursor of identity i, scope all
          call     \* call[c]: the call c is in

bus == <<wire, up, lost, faults>>
vars == <<id, bus, queue, lagged, cursor, call>>

-----------------------------------------------------------------------------
Stages == {"idle", "check", "checked", "wait", "grace", "woke", "timed out",
           "post", "look", "looked", "block", "last look", "answered", "unanswered"}

IdleCall == [at |-> "idle", focus |-> None, kinds |-> {}, dropped |-> {}, failed |-> {}]

Committed == {e \in Events : id[e] > 0}
KindOf(e) == IF e \in Messages THEN "message" ELSE "other"
IsDirect(e) == e \in Messages /\ To[e] \in Direct

(* Addressed to this session by name, or to the person. *)
ForSession(e, i) == To[e][1] = i[1] /\ To[e][2] \in {i[2], AnySession}

(* BusEvent::visible_to: direct messages only for their recipient, and for  *)
(* every session of their sender.                                           *)
VisibleTo(e, i) == IsDirect(e) => From[e][1] = i[1] \/ ForSession(e, i)

(* in_focus *)
InFocus(e, focus) ==
  e \in Announced \/ focus = None \/ ~(e \in Messages /\ To[e] \in Channels) \/ To[e] = focus

(* The wake filter of wait_for_updates: not what this session sent itself.  *)
Wakes(e, c) ==
  /\ VisibleTo(e, Identity[c])
  /\ KindOf(e) \in call[c].kinds
  /\ InFocus(e, call[c].focus)
  /\ ~(e \in Messages /\ From[e] = Identity[c])

(* The filter of its grace window: nor what any session of the agent sent.  *)
Batched(e, c) == Wakes(e, c) /\ ~(e \in Messages /\ From[e][1] = Identity[c][1])

(* unread_anything *)
Backlog(c) ==
  {e \in Messages \intersect Committed :
     /\ id[e] > cursor[Identity[c]]
     /\ From[e] # Identity[c]
     /\ IF To[e] \in Channels
        THEN call[c].focus \in {None, To[e]} \/ e \in Announced
        ELSE ForSession(e, Identity[c])}

(* The WHERE clause of find_answer. *)
Answers(c) ==
  {e \in Messages \intersect Committed :
     /\ IsDirect(e)
     /\ From[e][1] = AskTo[c][1]
     /\ AskTo[c][2] \in {AnySession, From[e][2]}
     /\ ForSession(e, Identity[c])
     /\ id[e] > id[Question[c]]}

(* Variant: only what names this session wakes the ask. *)
NamesMe(e, c) ==
  /\ IsDirect(e)
  /\ From[e][1] = AskTo[c][1]
  /\ To[e] = Identity[c]
  /\ id[e] > id[Question[c]]

(* The events for which ask_agent looks into the database again. *)
LooksLikeAnswer(e, c) ==
  /\ IsDirect(e)
  /\ From[e][1] = AskTo[c][1]
  /\ ForSession(e, Identity[c])
  /\ id[e] > id[Question[c]]

(* Variant: the receiver is made after the check. *)
SubscribedLate(c) == call[c].at \notin {"idle", "check", "checked"}

(* The receiver lives from hub.subscribe() to the end of the call. *)
Subscribed(c) == call[c].at # "idle"

Elements(s) == {s[i] : i \in 1..Len(s)}

-----------------------------------------------------------------------------
Init ==
  /\ id = [e \in Events |-> 0]
  /\ wire = <<>> /\ up = TRUE /\ lost = {} /\ faults = 0
  /\ queue = [c \in Clients |-> <<>>]
  /\ lagged = [c \in Clients |-> FALSE]
  /\ cursor = [i \in Identities |-> 0]
  /\ call = [c \in Clients |-> IdleCall]

(* The commit of e, and the NOTIFY of its trigger. *)
Commit(e) ==
  /\ id[e] = 0
  /\ e \in Messages => ReplyTo[e] \in Committed \union {None}
  /\ id' = [id EXCEPT ![e] = Cardinality(Committed) + 1]
  /\ wire' = IF up THEN Append(wire, e) ELSE wire
  /\ lost' = IF up THEN lost ELSE lost \union {e}
  /\ UNCHANGED <<up, faults>>

(* Somebody posts, or changes a task, a lock or a note. *)
Emit(e) ==
  /\ \A c \in Clients : AskTo[c] # None => e # Question[c]
  /\ Commit(e)
  /\ UNCHANGED <<queue, lagged, cursor, call>>

(* The connection breaks; what was on it is lost. *)
Disconnect ==
  /\ up
  /\ faults < MaxFaults
  /\ up' = FALSE
  /\ faults' = faults + 1
  /\ wire' = <<>>
  /\ lost' = lost \union Elements(wire)
  /\ UNCHANGED <<id, queue, lagged, cursor, call>>

(* run_pg_listener attaches again. *)
Reconnect ==
  /\ ~up
  /\ up' = TRUE
  /\ UNCHANGED <<id, wire, lost, faults, queue, lagged, cursor, call>>

(* Variant: the queue of a receiver has no end. *)
PublishAnyway ==
  /\ wire # <<>>
  /\ wire' = Tail(wire)
  /\ queue' = [c \in Clients |->
                IF Subscribed(c) THEN Append(queue[c], Head(wire)) ELSE queue[c]]
  /\ UNCHANGED <<id, up, lost, faults, lagged, cursor, call>>

(* EventHub::publish: a receiver that is Capacity behind loses its oldest.  *)
Publish ==
  LET Full(c) == Len(queue[c]) = Capacity IN
  /\ wire # <<>>
  /\ wire' = Tail(wire)
  /\ queue' = [c \in Clients |->
                IF ~Subscribed(c) THEN queue[c]
                ELSE Append(IF Full(c) THEN Tail(queue[c]) ELSE queue[c], Head(wire))]
  /\ lagged' = [c \in Clients |-> lagged[c] \/ (Subscribed(c) /\ Full(c))]
  /\ UNCHANGED <<id, up, lost, faults, cursor, call>>

(* read_messages of any client of i moves its cursor up. *)
Read(i) ==
  /\ \E e \in Messages \intersect Committed :
       /\ id[e] > cursor[i]
       /\ cursor' = [cursor EXCEPT ![i] = id[e]]
  /\ UNCHANGED <<id, bus, queue, lagged, call>>

-----------------------------------------------------------------------------
Go(c, stage) == call' = [call EXCEPT ![c].at = stage]

(* c takes the oldest event off its receiver. *)
Take(c) ==
  /\ ~lagged[c]
  /\ queue[c] # <<>>
  /\ queue' = [queue EXCEPT ![c] = Tail(@)]
  /\ UNCHANGED <<id, bus, lagged, cursor>>

(* c is told once that it fell behind. *)
TakeLag(c) ==
  /\ lagged[c]
  /\ lagged' = [lagged EXCEPT ![c] = FALSE]
  /\ UNCHANGED <<id, bus, queue, cursor>>

Stay == UNCHANGED <<id, bus, queue, lagged, cursor>>

(* wait_for_updates, up to hub.subscribe(); without all_channels and with a *)
(* channel of the session's name it focuses on that.                        *)
StartWait(c, kinds, focus) ==
  /\ call[c].at = "idle"
  /\ focus \in {None, HomeChannel[c]}
  /\ call' = [call EXCEPT ![c] = [IdleCall EXCEPT !.at = "check", !.kinds = kinds,
                                                  !.focus = focus]]
  /\ Stay

(* The query of unread_anything; what it finds is reported at once.         *)
CheckUnread(c) ==
  /\ call[c].at = "check"
  /\ Go(c, IF Backlog(c) # {} /\ "message" \in call[c].kinds THEN "woke" ELSE "checked")
  /\ Stay

(* The query came back with nothing, and the call goes to sleep.            *)
Sleep(c) ==
  /\ call[c].at \in {"checked", "looked"}
  /\ Go(c, IF call[c].at = "checked" THEN "wait" ELSE "block")
  /\ Stay

(* rx.recv(): the first event that concerns the caller opens the grace      *)
(* window, any other is dropped; after a lag the caller is told to look.    *)
Receive(c) ==
  /\ call[c].at = "wait"
  /\ \/ /\ Take(c)
        /\ Go(c, IF Wakes(Head(queue[c]), c) THEN "grace" ELSE "wait")
     \/ TakeLag(c) /\ Go(c, "woke")

(* describe cannot read the message, and the event is dropped like one that *)
(* does not concern the caller.                                             *)
FailToDescribe(c) ==
  /\ call[c].at \in {"wait", "grace"}
  /\ faults < MaxFaults
  /\ ~lagged[c] /\ queue[c] # <<>>
  /\ Head(queue[c]) \in Messages
  /\ IF call[c].at = "wait" THEN Wakes(Head(queue[c]), c) ELSE Batched(Head(queue[c]), c)
  /\ queue' = [queue EXCEPT ![c] = Tail(@)]
  /\ call' = [call EXCEPT ![c].failed = @ \union {Head(queue[c])}]
  /\ faults' = faults + 1
  /\ UNCHANGED <<id, wire, up, lost, lagged, cursor>>

(* What arrives within 150 ms joins the reply or is dropped; a lag ends it. *)
ReceiveMore(c) ==
  /\ call[c].at = "grace"
  /\ \/ /\ Take(c)
        /\ call' = [call EXCEPT ![c].dropped =
                      IF Batched(Head(queue[c]), c) THEN @ ELSE @ \union {Head(queue[c])}]
     \/ TakeLag(c) /\ Go(c, "woke")

(* The deadline passes, or the grace window ends. *)
EndWait(c) ==
  /\ call[c].at \in {"wait", "grace"}
  /\ Go(c, IF call[c].at = "grace" THEN "woke" ELSE "timed out")
  /\ Stay

-----------------------------------------------------------------------------
(* ask_agent, up to hub.subscribe(): with a question to post, or resuming   *)
(* the wait for one that was.                                               *)
StartAsk(c) ==
  /\ call[c].at = "idle"
  /\ AskTo[c] # None
  /\ call' = [call EXCEPT ![c] =
                [IdleCall EXCEPT !.at = IF id[Question[c]] = 0 THEN "post" ELSE "look"]]
  /\ Stay

PostQuestion(c) ==
  /\ call[c].at = "post"
  /\ Commit(Question[c])
  /\ Go(c, "look")
  /\ UNCHANGED <<queue, lagged, cursor>>

(* find_answer *)
LookForAnswer(c) ==
  /\ call[c].at = "look"
  /\ Go(c, IF Answers(c) # {} THEN "answered" ELSE "looked")
  /\ Stay

(* A direct message that may be the answer, or a lag, is a reason to look.  *)
ReceiveForAsk(c) ==
  /\ call[c].at = "block"
  /\ \/ /\ Take(c)
        /\ Go(c, IF LooksLikeAnswer(Head(queue[c]), c) THEN "look" ELSE "block")
     \/ TakeLag(c) /\ Go(c, "look")

(* Variant: the deadline is the end. *)
GiveUp(c) ==
  /\ call[c].at = "block"
  /\ Go(c, "unanswered")
  /\ Stay

(* The deadline passes. *)
ExpireAsk(c) ==
  /\ call[c].at = "block"
  /\ Go(c, "last look")
  /\ Stay

(* One last look: the answer may have raced the deadline. *)
LastLook(c) ==
  /\ call[c].at = "last look"
  /\ Go(c, IF Answers(c) # {} THEN "answered" ELSE "unanswered")
  /\ Stay

(* The call returns, or is cancelled anywhere, and its receiver goes.       *)
EndCall(c) ==
  /\ call[c].at # "idle"
  /\ call' = [call EXCEPT ![c] = IdleCall]
  /\ queue' = [queue EXCEPT ![c] = <<>>]
  /\ lagged' = [lagged EXCEPT ![c] = FALSE]
  /\ UNCHANGED <<id, bus, cursor>>

Next ==
  \/ \E e \in Events : Emit(e)
  \/ Disconnect \/ Reconnect \/ Publish
  \/ \E c \in Clients : \/ Read(Identity[c])
                        \/ \E kinds \in KindFilters, focus \in Channels \union {None} :
                             StartWait(c, kinds, focus)
                        \/ CheckUnread(c) \/ Sleep(c) \/ Receive(c)
                        \/ FailToDescribe(c) \/ ReceiveMore(c) \/ EndWait(c)
                        \/ StartAsk(c) \/ PostQuestion(c) \/ LookForAnswer(c)
                        \/ ReceiveForAsk(c) \/ ExpireAsk(c) \/ LastLook(c)
                        \/ EndCall(c)

(* An ask that was posted moves on: its queries return, and its sleep has   *)
(* a deadline.                                                              *)
AskStep(c) ==
  LookForAnswer(c) \/ (call[c].at = "looked" /\ Sleep(c)) \/ ReceiveForAsk(c)
  \/ ExpireAsk(c) \/ LastLook(c)

Fairness == \A c \in Clients : WF_vars(AskStep(c))

Spec == Init /\ [][Next]_vars /\ Fairness

-----------------------------------------------------------------------------
VariableTypes ==
  /\ id \in [Events -> Nat]
  /\ wire \in Seq(Events) /\ up \in BOOLEAN /\ lost \subseteq Events /\ faults \in 0..MaxFaults
  /\ queue \in [Clients -> Seq(Events)]
  /\ lagged \in [Clients -> BOOLEAN]
  /\ cursor \in [Identities -> Nat]
  /\ call \in [Clients -> [at : Stages, focus : Channels \union {None},
                           kinds : SUBSET {"message", "other"},
                           dropped : SUBSET Events, failed : SUBSET Events]]

(* A receiver exists during a call and holds no more than Capacity events;  *)
(* a notification is lost, or on its way, or published.                     *)
BusShape ==
  /\ \A c \in Clients : /\ Len(queue[c]) <= Capacity
                        /\ ~Subscribed(c) => queue[c] = <<>> /\ ~lagged[c]
                        /\ Elements(queue[c]) \subseteq Committed \ (lost \union Elements(wire))
  /\ \A i, j \in 1..Len(wire) : wire[i] = wire[j] => i = j
  /\ Elements(wire) \union lost \subseteq Committed
  /\ Elements(wire) \intersect lost = {}
  /\ ~up => wire = <<>>

(* The types of the variables and the shape of hub and receivers. *)
TypeOK == VariableTypes /\ BusShape

(* c is about to be told of e, or to look; or e got lost on the way to c.   *)
Coming(e, c) ==
  \/ lagged[c]
  \/ e \in Elements(wire) \union Elements(queue[c])
  \/ e \in lost \union call[c].failed

(* "Subscribe before checking the database so nothing slips between the     *)
(* check and the wait": while wait_for_updates sleeps, every unread message *)
(* it is to report is on its way to it, unless the connection or a lookup   *)
(* failed.                                                                  *)
NothingSlips ==
  \A c \in Clients : call[c].at = "wait" /\ "message" \in call[c].kinds =>
    \A e \in Backlog(c) : Coming(e, c)

(* "An answer arriving in between still wakes us": ask_agent does not sleep *)
(* on an answer that find_answer would return, unless its notification was  *)
(* lost; the filter on events and the query must agree for that.            *)
AnswerWakes ==
  \A c \in Clients : call[c].at = "block" =>
    \A e \in Answers(c) : Coming(e, c)

(* A lost notification delays an answer to the deadline and no longer: who  *)
(* asks and does not hang up gets an answer that came while he slept,       *)
(* whatever was lost, dropped as irrelevant or raced the deadline.          *)
AnswerArrives ==
  \A c \in Clients :
    call[c].at = "block" /\ Answers(c) # {} ~> call[c].at \in {"answered", "idle"}

(* What the comment in wait_for_updates says of its filter: "Your own       *)
(* messages are not news to you - but "you" is this session, not the        *)
(* person".  The grace window breaks it: it faults what other sessions of    *)
(* the caller's own agent sent.                                             *)
SiblingsAreNews ==
  \A c \in Clients, e \in Events : e \in call[c].dropped => ~Wakes(e, c)
=============================================================================
