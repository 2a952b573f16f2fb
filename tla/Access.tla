------------------------------- MODULE Access -------------------------------
(***************************************************************************)
(* Who is let in: the middleware `require_bearer` and `resolve_token` of   *)
(* src/auth.rs, the dashboard's login and pages (src/dashboard), and the   *)
(* operator's commands on agents and tokens (src/admin.rs), which run in   *)
(* other processes meanwhile.                                              *)
(*                                                                         *)
(* A token is looked up once, at the start of a call; the call then runs   *)
(* under the identity it was given.  The dashboard looks a token up once   *)
(* and then trusts a signed grant until it expires.  Whether the limiter   *)
(* admits a call is open here: RateLimiter is about that.  last_used_at,   *)
(* which only token_list shows, is left out.                               *)
(***************************************************************************)
EXTENDS Integers

CONSTANTS Tokens,       \* the bearer tokens presented
          Agents,       \* agents.id
          AgentOf,      \* the agent of each token, Nobody for one never issued
          Nobody,       \* no agent
          Slots,        \* the tool calls in progress at once
          Quiet,        \* nothing is going on, or no cookie is held
          GrantTtl,     \* GRANT_TTL_SECS: 3600
          MaxChanges,   \* bound on how often agents are disabled and added
          MaxTime       \* bound on the clock

NoTime == -1
Instants == Nat \union {NoTime}
Call == [at : {"arrived", "charged", "serving"}, key : Tokens, since : Nat]
Grant == [key : Tokens, proved : Nat, issued : Nat]
Page == [at : {"proved", "shown"}, key : Tokens, proved : Nat, issued : Instants,
         checked : Instants]

ASSUME AccessAssumption ==
  /\ Nobody \notin Agents
  /\ AgentOf \in [Tokens -> Agents \union {Nobody}]
  /\ Quiet \notin Call \union Grant \union Page
  /\ GrantTtl \in Nat \ {0}
  /\ {MaxChanges, MaxTime} \subseteq Nat

VARIABLES now,         \* the clock, in ticks
          issued,      \* tokens with a row in api_tokens
          revoked,     \* those with revoked_at
          disabled,    \* agents with disabled_at
          changes,     \* counts towards MaxChanges
          lastUsable,  \* when a token that is not usable was so last
          calls,       \* per request: how far it has come
          cookie,      \* the grant a browser holds
          page         \* the browser's login or page in progress

credentials == <<issued, revoked, disabled, changes, lastUsable>>
dashboard == <<cookie, page>>
vars == <<now, credentials, calls, dashboard>>

-----------------------------------------------------------------------------
(* What the operator means by a token in force. *)
Usable(k) == k \in issued \ revoked /\ AgentOf[k] \notin disabled

LastUsable(k) == IF Usable(k) THEN now ELSE lastUsable[k]

(* The tokens that stop being usable with a step are remembered. *)
NoteLosses ==
  lastUsable' = [k \in Tokens |->
                   IF Usable(k) /\ ~Usable(k)' THEN now ELSE lastUsable[k]]

(* Variants: the lookup does not read disabled_at, or revoked_at. *)
ResolvesIfIssued(k) == k \in issued \ revoked
ResolvesIfEnabled(k) == k \in issued /\ AgentOf[k] \notin disabled

(* What resolve_token accepts: an unrevoked row, of an enabled agent. *)
Resolves(k) ==
  /\ k \in issued
  /\ k \notin revoked
  /\ AgentOf[k] \notin disabled

(* Variant: a grant is accepted at the instant at which it expires. *)
ValidThrough(g) == now <= g.issued + GrantTtl

(* grant::verify: refused once expiry <= now; expiry is issued + GRANT_TTL. *)
Valid(g) == now < g.issued + GrantTtl

HoldsGrant == cookie # Quiet /\ Valid(cookie)

-----------------------------------------------------------------------------
Init ==
  /\ now = 0
  /\ issued = {}
  /\ revoked = {}
  /\ disabled = {}
  /\ changes = 0
  /\ lastUsable = [k \in Tokens |-> NoTime]
  /\ calls = [r \in Slots |-> Quiet]
  /\ cookie = Quiet
  /\ page = Quiet

(* A request with a bearer token reaches the middleware. *)
Present(r, k) ==
  /\ calls[r] = Quiet
  /\ calls' = [calls EXCEPT ![r] = [at |-> "arrived", key |-> k, since |-> now]]
  /\ UNCHANGED <<now, credentials, dashboard>>

(* The limiter has room for the call and the session header is usable. *)
Charge(r) ==
  /\ calls[r] # Quiet
  /\ calls[r].at = "arrived"
  /\ calls' = [calls EXCEPT ![r].at = "charged"]
  /\ UNCHANGED <<now, credentials, dashboard>>

(* 429 from the limiter: no query was made. *)
TooMany(r) ==
  /\ calls[r] # Quiet
  /\ calls[r].at = "arrived"
  /\ calls' = [calls EXCEPT ![r] = Quiet]
  /\ UNCHANGED <<now, credentials, dashboard>>

(* 400 for a session header that no session could have: none either. *)
RefuseSession(r) ==
  /\ calls[r] # Quiet
  /\ calls[r].at = "arrived"
  /\ calls' = [calls EXCEPT ![r] = Quiet]
  /\ UNCHANGED <<now, credentials, dashboard>>

(* The lookup finds the token usable; the handler runs with its identity. *)
Authenticate(r) ==
  /\ calls[r] # Quiet
  /\ calls[r].at = "charged"
  /\ Resolves(calls[r].key)
  /\ calls' = [calls EXCEPT ![r].at = "serving"]
  /\ UNCHANGED <<now, credentials, dashboard>>

(* The token is not accepted, or the lookup fails: the call ends there. *)
Reject(r) ==
  /\ calls[r] # Quiet
  /\ calls[r].at = "charged"
  /\ calls' = [calls EXCEPT ![r] = Quiet]
  /\ UNCHANGED <<now, credentials, dashboard>>

(* The handler answers; nothing looked at the token again. *)
Answer(r) ==
  /\ calls[r] # Quiet
  /\ calls[r].at = "serving"
  /\ calls' = [calls EXCEPT ![r] = Quiet]
  /\ UNCHANGED <<now, credentials, dashboard>>

-----------------------------------------------------------------------------
(* dashboard::login, up to resolve_token; not behind the limiter. *)
Login(k) ==
  /\ page = Quiet
  /\ Resolves(k)
  /\ page' = [at |-> "proved", key |-> k, proved |-> now,
              issued |-> NoTime, checked |-> NoTime]
  /\ UNCHANGED <<now, credentials, calls, cookie>>

(* grant::issue reads the clock anew; the browser replaces its cookie. *)
IssueGrant ==
  /\ page # Quiet
  /\ page.at = "proved"
  /\ cookie' = [key |-> page.key, proved |-> page.proved, issued |-> now]
  /\ page' = Quiet
  /\ UNCHANGED <<now, credentials, calls>>

(* dashboard::render with a grant that verifies. *)
ShowByGrant ==
  /\ page = Quiet
  /\ HoldsGrant
  /\ page' = [at |-> "shown", key |-> cookie.key, proved |-> cookie.proved,
              issued |-> cookie.issued, checked |-> now]
  /\ UNCHANGED <<now, credentials, calls, cookie>>

(* dashboard::render without one: a bearer token, looked up each time. *)
ShowByToken(k) ==
  /\ page = Quiet
  /\ ~HoldsGrant
  /\ Resolves(k)
  /\ page' = [at |-> "shown", key |-> k, proved |-> now,
              issued |-> now, checked |-> now]
  /\ UNCHANGED <<now, credentials, calls, cookie>>

(* build_page has run its queries and the page is sent. *)
SendPage ==
  /\ page # Quiet
  /\ page.at = "shown"
  /\ page' = Quiet
  /\ UNCHANGED <<now, credentials, calls, cookie>>

-----------------------------------------------------------------------------
(* token_issue, alone or as the end of agent_add. *)
IssueToken(k) ==
  /\ AgentOf[k] # Nobody
  /\ k \notin issued
  /\ issued' = issued \union {k}
  /\ UNCHANGED <<now, revoked, disabled, changes, lastUsable,
                 calls, dashboard>>

(* Variant: a revocation of an unknown id leaves a row. *)
RevokeAnyId(k) ==
  /\ revoked' = revoked \union {k}
  /\ UNCHANGED <<issued, disabled, changes>>
  /\ NoteLosses
  /\ UNCHANGED <<now, calls, dashboard>>

(* token_revoke. *)
RevokeToken(k) ==
  /\ k \in issued
  /\ revoked' = revoked \union {k}
  /\ UNCHANGED <<issued, disabled, changes>>
  /\ NoteLosses
  /\ UNCHANGED <<now, calls, dashboard>>

(* agent_disable. *)
DisableAgent(a) ==
  /\ changes < MaxChanges
  /\ changes' = changes + 1
  /\ disabled' = disabled \union {a}
  /\ UNCHANGED <<issued, revoked>>
  /\ NoteLosses
  /\ UNCHANGED <<now, calls, dashboard>>

(* agent_add of an agent that exists: ON CONFLICT ... disabled_at = NULL.  *)
(* Its tokens of before, unless revoked, are usable again.                 *)
AddAgent(a) ==
  /\ changes < MaxChanges
  /\ changes' = changes + 1
  /\ disabled' = disabled \ {a}
  /\ UNCHANGED <<now, issued, revoked, lastUsable, calls,
                 dashboard>>

TimePasses ==
  /\ now < MaxTime
  /\ now' = now + 1
  /\ UNCHANGED <<credentials, calls, dashboard>>

Next ==
  \/ TimePasses
  \/ \E r \in Slots :
       \/ \E k \in Tokens : Present(r, k)
       \/ Charge(r)
       \/ TooMany(r)
       \/ RefuseSession(r)
       \/ Authenticate(r)
       \/ Reject(r)
       \/ Answer(r)
  \/ \E k \in Tokens : Login(k) \/ ShowByToken(k) \/ IssueToken(k) \/ RevokeToken(k)
  \/ IssueGrant
  \/ ShowByGrant
  \/ SendPage
  \/ \E a \in Agents : DisableAgent(a) \/ AddAgent(a)

(* A handler that runs ends: its queries return, its waits have deadlines. *)
Fairness == \A r \in Slots : WF_vars(Answer(r))

Spec == Init /\ [][Next]_vars /\ Fairness

-----------------------------------------------------------------------------
(* The types, and that no token is revoked that was never issued.  *)
TypeOK ==
  /\ now \in 0..MaxTime
  /\ issued \subseteq Tokens
  /\ revoked \subseteq issued
  /\ disabled \subseteq Agents
  /\ changes \in 0..MaxChanges
  /\ lastUsable \in [Tokens -> Instants]
  /\ calls \in [Slots -> Call \union {Quiet}]
  /\ cookie \in Grant \union {Quiet}
  /\ page \in Page \union {Quiet}

(* A call that runs was let in with a token that was usable at some        *)
(* moment after the call arrived, however it waited for the limiter and    *)
(* whatever the operator has revoked, disabled or added since.             *)
ServedWasUsable ==
  \A r \in Slots :
    calls[r] # Quiet /\ calls[r].at = "serving" =>
      LastUsable(calls[r].key) >= calls[r].since

(* A dashboard page outlives the token it rests on by less than the hour   *)
(* of a grant and the time its login took between looking the token up     *)
(* and signing the grant.                                                  *)
PagesEnd ==
  page # Quiet /\ page.at = "shown" =>
    page.checked - LastUsable(page.key) < GrantTtl + (page.issued - page.proved)

(* Once a token is revoked, the calls made with it come to an end, and none *)
(* runs under it ever again, whatever the operator does to its agent.      *)
RevokedFallsSilent ==
  \A k \in Tokens :
    k \in revoked ~>
      [](\A r \in Slots :
           calls[r] # Quiet => ~(calls[r].at = "serving" /\ calls[r].key = k))
=============================================================================
