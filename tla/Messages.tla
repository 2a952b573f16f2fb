------------------------------ MODULE Messages ------------------------------
(***************************************************************************)
(* The messages of one team and who has read them: post_message and        *)
(* read_messages of src/store/messaging.rs over the tables messages and    *)
(* read_cursors.                                                           *)
(*                                                                         *)
(* post_message is a transaction: its INSERT draws the id of the message   *)
(* from a sequence, its COMMIT makes it visible, and other posts draw and  *)
(* commit in between.  An incremental read (only_new) is three statements  *)
(* on the connection pool: it reads the cursor of its view, selects the    *)
(* newest messages above it, and moves the cursor up to the newest.        *)
(* Re-reading history (only_new = false) and search change nothing and are *)
(* left out.                                                               *)
(***************************************************************************)
EXTENDS Integers, FiniteSets

CONSTANTS Agents,
          Sessions,     \* the X-Crew-Session labels
          Shared,       \* the session of a client that names none
          AnySession,   \* recipient_session IS NULL: every session of the agent
          Channels,
          Posts,        \* calls of post_message
          From,         \* From[p]: its sender, <<agent, session>>
          To,           \* To[p]: a channel, or <<agent, session>>
          Clients,      \* processes that read
          Identity,     \* Identity[c]: <<agent, session>>; two may share one
          Views,        \* the <<scope, all_sessions>> clients read
          Limits,       \* the limits they ask for
          MaxLimit,     \* MAX_LIMIT
          MaxCalls      \* bound on the reads in flight at once

Identities == Agents \X Sessions
Direct == Agents \X ((Sessions \ {Shared}) \union {AnySession})
Scopes == {"all", "inbox"} \union Channels

ASSUME MessagesAssumption ==
  /\ From \in [Posts -> Identities]
  /\ To \in [Posts -> Channels \union Direct]
  /\ Shared \in Sessions
  /\ Channels \intersect Direct = {}
  /\ {"all", "inbox"} \intersect Channels = {}
  /\ Identity \in [Clients -> Identities]
  /\ Views \subseteq Scopes \X BOOLEAN
  /\ Limits \subseteq Int
  /\ MaxLimit \in Nat \ {0}
  /\ IsFiniteSet(Posts)

VARIABLES stage,    \* stage[p]: how far post_message has come
          id,       \* messages.id, 0 before it is drawn
          drawn,    \* the last id drawn from the sequence
          cursor,   \* read_cursors.last_message_id, 0 without a row
          read,     \* read[c]: the incremental read c has in flight
          fate,     \* fate[w][p]: what the reads of window w did with p
          late      \* messages that committed after one with a higher id

posts == <<stage, id, drawn, late>>
vars == <<posts, cursor, read, fate>>

-----------------------------------------------------------------------------
Stages == {"unsent", "inserted", "posted", "pruned", "failed"}
Fates == {"none", "shown", "left out", "lost"}

(* A window onto the messages: whose it is, its scope, its session, and     *)
(* whether it takes in the direct messages of the other sessions.           *)
Windows == Agents \X Scopes \X Sessions \X BOOLEAN
WindowOf(c, v) == <<Identity[c][1], v[1], Identity[c][2], v[2]>>

Keys == Agents \X Scopes \X {"", "/s/", "/a/"} \X Sessions

(* Variant: the two views of a session share a cursor. *)
SharedKey(w) ==
  <<w[1], w[2], IF w[3] = Shared THEN "" ELSE "/s/", w[3]>>

(* cursor_scope_for: the row of read_cursors that belongs to a window. *)
Key(w) ==
  <<w[1], w[2], IF w[4] THEN "/a/" ELSE IF w[3] = Shared THEN "" ELSE "/s/", w[3]>>

Posted == {p \in Posts : stage[p] = "posted"}
Committed == {p \in Posts : stage[p] \in {"posted", "pruned"}}

(* p is a direct message to agent a: to session s, to all of them, or, in   *)
(* the view across sessions, to any.                                        *)
Addressed(p, a, s, wide) ==
  /\ To[p] \in Direct
  /\ To[p][1] = a
  /\ wide \/ To[p][2] \in {AnySession, s}

(* The WHERE clauses of read_messages. *)
Visible(w, p) ==
  CASE w[2] = "all"      -> \/ To[p] \in Channels
                            \/ Addressed(p, w[1], w[3], w[4])
                            \/ From[p][1] = w[1]
    [] w[2] = "inbox"    -> Addressed(p, w[1], w[3], w[4])
    [] w[2] \in Channels -> To[p] = w[2]

IdleRead == [at |-> "idle", window |-> <<>>, limit |-> 0, since |-> 0, upto |-> 0,
             rows |-> {}, rest |-> {}]

Idle(c) == read[c].at = "idle"

(* limit.clamp(1, MAX_LIMIT) *)
ClampLimit(n) == IF n < 1 THEN 1 ELSE IF n > MaxLimit THEN MaxLimit ELSE n

(* Variant: the cursor is set to what was read last. *)
Overwrite(old, new) == new

(* GREATEST(read_cursors.last_message_id, EXCLUDED.last_message_id) *)
Greatest(old, new) == IF old < new THEN new ELSE old

-----------------------------------------------------------------------------
Init ==
  /\ stage = [p \in Posts |-> "unsent"]
  /\ id = [p \in Posts |-> 0]
  /\ drawn = 0
  /\ late = {}
  /\ cursor = [k \in Keys |-> 0]
  /\ read = [c \in Clients |-> IdleRead]
  /\ fate = [w \in Windows |-> [p \in Posts |-> "none"]]

(* Variant: the id is one more than that of the newest message. *)
CountMessage(p) ==
  /\ stage[p] = "unsent"
  /\ stage' = [stage EXCEPT ![p] = "inserted"]
  /\ \E n \in {0} \union {id[q] : q \in Posted} :
       /\ \A q \in Posted : id[q] <= n
       /\ id' = [id EXCEPT ![p] = n + 1]
       /\ drawn' = IF drawn < n + 1 THEN n + 1 ELSE drawn
  /\ UNCHANGED <<late, cursor, read, fate>>

(* INSERT INTO messages: BIGSERIAL draws the id. *)
InsertMessage(p) ==
  /\ stage[p] = "unsent"
  /\ stage' = [stage EXCEPT ![p] = "inserted"]
  /\ drawn' = drawn + 1
  /\ id' = [id EXCEPT ![p] = drawn + 1]
  /\ UNCHANGED <<late, cursor, read, fate>>

(* COMMIT, with the attachments: from here on the message is there. *)
CommitMessage(p) ==
  /\ stage[p] = "inserted"
  /\ stage' = [stage EXCEPT ![p] = "posted"]
  /\ late' = late \union (IF \E q \in Committed : id[q] > id[p] THEN {p} ELSE {})
  /\ UNCHANGED <<id, drawn, cursor, read, fate>>

(* An attachment is refused, or the call ends otherwise; the id is spent.   *)
FailPost(p) ==
  /\ stage[p] = "inserted"
  /\ stage' = [stage EXCEPT ![p] = "failed"]
  /\ UNCHANGED <<id, drawn, late, cursor, read, fate>>

(* team prune --apply: messages older than the days it is told are deleted. *)
PruneMessages(old) ==
  /\ old # {}
  /\ stage' = [p \in Posts |-> IF p \in old THEN "pruned" ELSE stage[p]]
  /\ UNCHANGED <<id, drawn, late, cursor, read, fate>>

(* read_messages: SELECT last_message_id FROM read_cursors. *)
ReadCursor(c, v, n) ==
  LET w == WindowOf(c, v) IN
  /\ Idle(c)
  /\ Cardinality({d \in Clients : ~Idle(d)}) < MaxCalls
  /\ read' = [read EXCEPT ![c] = [IdleRead EXCEPT !.at = "select", !.window = w,
                                                  !.limit = ClampLimit(n),
                                                  !.since = cursor[Key(w)]]]
  /\ UNCHANGED <<posts, cursor, fate>>

(* The newest `limit` messages above the cursor; without any, or with       *)
(* nothing new, the cursor stays and the reply follows.                     *)
SelectRows(c) ==
  LET r == read[c]
      new == {p \in Posted : Visible(r.window, p) /\ id[p] > r.since} IN
  /\ r.at = "select"
  /\ \E rows \in SUBSET new, upto \in {r.since} \union {id[p] : p \in new} :
       /\ Cardinality(rows) = r.limit \/ (rows = new /\ Cardinality(new) <= r.limit)
       /\ \A p \in rows, q \in new \ rows : id[q] < id[p]
       /\ \A p \in rows : id[p] <= upto
       /\ IF rows = {} THEN upto = r.since ELSE \E p \in rows : id[p] = upto
       /\ read' = [read EXCEPT ![c] =
                     [r EXCEPT !.at = IF rows = {} THEN "reply" ELSE "advance",
                               !.upto = upto, !.rows = rows, !.rest = new \ rows]]
  /\ UNCHANGED <<posts, cursor, fate>>

(* The upsert of the cursor: what the limit left out lies below it now.     *)
AdvanceCursor(c) ==
  LET r == read[c] IN
  /\ r.at = "advance"
  /\ cursor' = [cursor EXCEPT ![Key(r.window)] = Greatest(@, r.upto)]
  /\ fate' = [fate EXCEPT ![r.window] = [p \in Posts |->
                IF p \in r.rest /\ @[p] = "none" THEN "left out" ELSE @[p]]]
  /\ read' = [read EXCEPT ![c].at = "reply"]
  /\ UNCHANGED posts

(* The client gets the messages. *)
Reply(c) ==
  LET r == read[c] IN
  /\ r.at = "reply"
  /\ fate' = [fate EXCEPT ![r.window] = [p \in Posts |->
                IF p \in r.rows THEN "shown" ELSE @[p]]]
  /\ read' = [read EXCEPT ![c] = IdleRead]
  /\ UNCHANGED <<posts, cursor>>

(* The call ends between two statements, or its reply does not arrive: if   *)
(* the cursor moved, what it moved past is lost on the client.              *)
Abort(c) ==
  LET r == read[c] IN
  /\ ~Idle(c)
  /\ fate' = [fate EXCEPT ![r.window] = [p \in Posts |->
                IF r.at = "reply" /\ p \in r.rows /\ @[p] = "none" THEN "lost" ELSE @[p]]]
  /\ read' = [read EXCEPT ![c] = IdleRead]
  /\ UNCHANGED <<posts, cursor>>

Next ==
  \/ \E p \in Posts : InsertMessage(p) \/ CommitMessage(p) \/ FailPost(p)
  \/ \E old \in SUBSET Posted : PruneMessages(old)
  \/ \E c \in Clients : \/ \E v \in Views, n \in Limits : ReadCursor(c, v, n)
                        \/ SelectRows(c)
                        \/ AdvanceCursor(c)
                        \/ Reply(c)
                        \/ Abort(c)

Spec == Init /\ [][Next]_vars

-----------------------------------------------------------------------------
ReadType == [at : {"idle", "select", "advance", "reply"}, window : Windows \union {<<>>},
             limit : Nat, since : Nat, upto : Nat,
             rows : SUBSET Posts, rest : SUBSET Posts]

VariableTypes ==
  /\ stage \in [Posts -> Stages]
  /\ id \in [Posts -> Nat]
  /\ drawn \in Nat
  /\ late \subseteq Committed
  /\ cursor \in [Keys -> Nat]
  /\ read \in [Clients -> ReadType]
  /\ fate \in [Windows -> [Posts -> Fates]]

(* Ids are drawn once each; a cursor is at 0 or at a message that was there *)
(* to be read in its window, even if it was pruned since, and only such     *)
(* messages are in anybody's hands.                                         *)
MailShape ==
  /\ \A p \in Posts : (id[p] = 0 <=> stage[p] = "unsent") /\ id[p] <= drawn
  /\ \A p, q \in Posts : id[p] = id[q] /\ p # q => id[p] = 0
  /\ \A w \in Windows : cursor[Key(w)] = 0
       \/ \E p \in Committed : cursor[Key(w)] = id[p] /\ Visible(w, p)
  /\ \A c \in Clients :
       /\ ~Idle(c) => read[c].window \in Windows
       /\ \A p \in read[c].rows \union read[c].rest : p \in Committed /\ Visible(read[c].window, p)

(* The type of every variable and the shape of ids, cursors and reads.      *)
TypeOK == VariableTypes /\ MailShape

(* "Messages at or below this id will not be returned again": what a window *)
(* has shown stays below its cursor, although two clients may read through  *)
(* one window at once and the slower one read less.                         *)
ShownIsRead ==
  \A w \in Windows, p \in Posts : fate[w][p] = "shown" => id[p] <= cursor[Key(w)]

(* The reply that is on its way to a client has p in it. *)
OnItsWay(w, p) ==
  \E c \in Clients : read[c].at = "reply" /\ read[c].window = w /\ p \in read[c].rows

(* A cursor passes a message nobody was shown in only three ways: a read    *)
(* was limited, a reply was lost, or the message committed after one with a *)
(* higher id.  In particular no other session, and no other view of one's   *)
(* own, ever marks one's messages read.                                     *)
NothingElseSkipped ==
  \A w \in Windows : \A p \in Posted :
    Visible(w, p) /\ id[p] <= cursor[Key(w)] =>
      fate[w][p] # "none" \/ p \in late \/ OnItsWay(w, p)
=============================================================================
