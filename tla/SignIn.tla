------------------------------- MODULE SignIn -------------------------------
(***************************************************************************)
(* Sign-in links and sessions of one Citizen.  A link request works after   *)
(* its response (look up, issue, mail), a click consumes the token and then *)
(* makes a session, each request checks its session before it acts, and     *)
(* whatever changes or removes the Citizen's address ends its tokens and    *)
(* sessions in the same transaction.  Every SQL function is one step; all   *)
(* else can come between two of them.                                       *)
(***************************************************************************)
EXTENDS Naturals, FiniteSetsExt

CONSTANTS
  Addresses, \* the addresses the principal may have
  Tokens,    \* links that come to be made
  Sessions,  \* session ids that come to be made
  Asks,      \* link requests at work at the same time
  Reqs,      \* clicks, and requests with a session cookie, at work at the same time
  TokenTtl,  \* how long a link lives, in ticks
  ShortIdle, \* the idle window of the first look-up, an org admin's
  Idle,      \* the idle window of this principal's kind
  Absolute,  \* how long a session can live at all
  Cap,       \* SESSION_CAP
  Unset,     \* no address, token or session
  MaxNow,    \* bound: the clock
  MaxChanges, \* bound: changes of the address
  MaxFaults  \* bound: answers lost, isolates that go

ASSUME SignInAssumption ==
  /\ {TokenTtl, Cap, ShortIdle, Idle, Absolute} \subseteq Nat \ {0}
  /\ ShortIdle <= Idle /\ Idle <= Absolute
  /\ MaxNow \in Nat /\ MaxChanges \in Nat /\ MaxFaults \in Nat
  /\ Unset \notin Addresses \cup Tokens \cup Sessions

VARIABLES
  now,
  address, \* the address on the principal's row, Unset when there is no row
  token,   \* auth_tokens
  session, \* auth_sessions
  ask,     \* sendMagic, after the response
  req,     \* handleVerify, and handlers behind requireSession
  mail,    \* links that reached a mailbox
  to,      \* history: the address the link of a token was made for
  from,    \* history: the token a session was made with
  raced,   \* history: tokens and sessions whose request had begun before a kill
  seen,    \* history: when a session was last presented and found
  changes, faults

history == <<to, from, raced, seen>>
vars == <<now, address, token, session, ask, req, mail, history, changes, faults>>

NoToken == [used |-> FALSE, expires |-> 0]
NoSession == [created |-> 0, idle |-> 0, absolute |-> 0]
None == [pc |-> "idle", address |-> Unset, token |-> Unset, session |-> Unset, purpose |-> "", crossed |-> FALSE]

Init ==
  /\ now = 0 /\ address \in Addresses
  /\ token = [t \in Tokens |-> NoToken] /\ session = [s \in Sessions |-> NoSession]
  /\ ask = [a \in Asks |-> None] /\ req = [r \in Reqs |-> None]
  /\ mail = {}
  /\ to = [t \in Tokens |-> Unset] /\ from = [s \in Sessions |-> Unset]
  /\ raced = {} /\ seen = [s \in Sessions |-> 0]
  /\ changes = 0 /\ faults = 0

Fail == faults < MaxFaults /\ faults' = faults + 1
Exists == address # Unset
LiveTokens == {t \in Tokens : token[t] # NoToken}
LiveSessions == {s \in Sessions : session[s] # NoSession}

-----------------------------------------------------------------------------
(* The SQL functions.                                                       *)

\* auth_token_issue, its tidying included.
Issued(t) ==
  [u \in Tokens |-> IF u = t THEN [used |-> FALSE, expires |-> now + TokenTtl]
                    ELSE IF token[u].expires <= now THEN NoToken ELSE token[u]]

\* Mutant of Consumed: read and answered, but not marked.
ConsumedUnmarked(t) == token

\* auth_token_consume: the row stays, marked.
Consumable(t) == token[t] # NoToken /\ ~token[t].used /\ token[t].expires > now
Consumed(t) == [token EXCEPT ![t].used = TRUE]

\* auth_session_create.  Of several made in one tick any may be the older.
Kept(rows, n) == kSubset(IF Cardinality(rows) > n THEN n ELSE Cardinality(rows), rows)

AfterCreate(s) ==
  LET with == [session EXCEPT ![s] = [created |-> now, idle |-> now + Idle, absolute |-> now + Absolute]]
      rows == LiveSessions \cup {s}
  IN  {[x \in Sessions |-> IF x \in keep THEN with[x] ELSE NoSession] :
         keep \in {k \in Kept(rows, Cap) : \A x \in k, y \in rows \ k : with[x].created >= with[y].created}}

\* Mutant of Expired: only the absolute end counts.
ExpiredAbsolutely(s) == session[s].absolute <= now

Expired(s) == session[s].idle <= now \/ session[s].absolute <= now

\* auth_session_check: the row is locked, and deleted when it has expired.
Checked(s, window) ==
  LET until == session[s].absolute
  IN  IF Expired(s) THEN [session EXCEPT ![s] = NoSession]
      ELSE [session EXCEPT ![s].idle = IF now + window < until THEN now + window ELSE until]

Cross(f) == [x \in DOMAIN f |-> IF f[x] = None THEN None ELSE [f[x] EXCEPT !.crossed = TRUE]]

\* Mutant of Kill: tokens not yet used are left.
KillSessions ==
  /\ session' = [s \in Sessions |-> NoSession]
  /\ ask' = Cross(ask)
  /\ UNCHANGED token

\* _auth_kill_principal.  What is in flight has begun before it.
Kill ==
  /\ token' = [t \in Tokens |-> NoToken] /\ session' = [s \in Sessions |-> NoSession]
  /\ ask' = Cross(ask)

-----------------------------------------------------------------------------
(* POST /auth/magic, after its response.                                    *)

\* auth_principals_for_email: only the principal's own address finds it.
LookUp(a) ==
  /\ ask[a] = None /\ Exists
  /\ ask' = [ask EXCEPT ![a] = [None EXCEPT !.pc = "issue", !.address = address]]
  /\ UNCHANGED <<now, address, token, session, req, mail, history, changes, faults>>

Issue(a, t) ==
  /\ ask[a].pc = "issue" /\ Exists /\ to[t] = Unset
  /\ token' = Issued(t)
  /\ to' = [to EXCEPT ![t] = ask[a].address]
  /\ raced' = IF ask[a].crossed THEN raced \cup {t} ELSE raced
  /\ ask' = [ask EXCEPT ![a] = [@ EXCEPT !.pc = "mail", !.token = t]]
  /\ UNCHANGED <<now, address, session, req, mail, from, seen, changes, faults>>

\* The principal is gone: the function raises, and nothing is mailed.
IssueRaises(a) ==
  /\ ask[a].pc = "issue" /\ ~Exists
  /\ ask' = [ask EXCEPT ![a] = None]
  /\ UNCHANGED <<now, address, token, session, req, mail, history, changes, faults>>

Mail(a) ==
  /\ ask[a].pc = "mail"
  /\ mail' = mail \cup {ask[a].token}
  /\ ask' = [ask EXCEPT ![a] = None]
  /\ UNCHANGED <<now, address, token, session, req, history, changes, faults>>

AskCrash(a) ==
  /\ ask[a] # None /\ Fail
  /\ ask' = [ask EXCEPT ![a] = None]
  /\ UNCHANGED <<now, address, token, session, req, mail, history, changes>>

-----------------------------------------------------------------------------
(* POST /auth/verify.                                                       *)

Free(r) == req[r] = None
Done(r) == req' = [req EXCEPT ![r] = None]

Verify(r, t) ==
  /\ Free(r) /\ t \in mail /\ Consumable(t) /\ Exists
  /\ token' = Consumed(t)
  /\ req' = [req EXCEPT ![r] = [None EXCEPT !.pc = "create", !.token = t]]
  /\ UNCHANGED <<now, address, session, ask, mail, history, changes, faults>>

Create(r, s) ==
  /\ req[r].pc = "create" /\ Exists /\ from[s] = Unset
  /\ session' \in AfterCreate(s)
  /\ from' = [from EXCEPT ![s] = req[r].token]
  /\ seen' = [seen EXCEPT ![s] = now]
  /\ raced' = IF req[r].crossed THEN raced \cup {s} ELSE raced
  /\ Done(r)
  /\ UNCHANGED <<now, address, token, ask, mail, to, changes, faults>>

CreateRaises(r) ==
  /\ req[r].pc = "create" /\ ~Exists
  /\ Done(r)
  /\ UNCHANGED <<now, address, token, session, ask, mail, history, changes, faults>>

\* The answer of a call is lost, or the isolate goes: the token is spent all the same.
Crash(r) ==
  /\ ~Free(r) /\ Fail
  /\ Done(r)
  /\ UNCHANGED <<now, address, token, session, ask, mail, history, changes>>

-----------------------------------------------------------------------------
(* requireSession, and what is done behind it.                              *)

Purposes == {"read", "signout", "everywhere"}

\* What a look-up of the session s leads to; next is where a request found alive goes on.
LookAt(r, s, window, next) ==
  /\ session' = IF s \in LiveSessions THEN Checked(s, window) ELSE session
  /\ IF s \in LiveSessions /\ ~Expired(s)
     THEN /\ seen' = [seen EXCEPT ![s] = now]
          /\ req' = [req EXCEPT ![r] = next]
     ELSE Done(r) /\ UNCHANGED seen
  /\ UNCHANGED <<now, address, token, ask, mail, to, from, raced, changes, faults>>

Present(r, s, purpose) ==
  /\ Free(r) /\ s \in LiveSessions
  /\ LookAt(r, s, ShortIdle, [None EXCEPT !.pc = "again", !.session = s, !.purpose = purpose])

\* Mutant of Again: what was read before is written back.
AgainUpserts(r) ==
  /\ req[r].pc = "again"
  /\ session' = [session EXCEPT ![req[r].session] = [created |-> now, idle |-> now + Idle, absolute |-> now + Absolute]]
  /\ Done(r)
  /\ UNCHANGED <<now, address, token, ask, mail, history, changes, faults>>

\* A kind with a longer window is looked up a second time with it.
Again(r) ==
  /\ req[r].pc = "again"
  /\ LookAt(r, req[r].session, Idle, IF req[r].purpose = "read" THEN None ELSE [req[r] EXCEPT !.pc = req[r].purpose])

\* auth_session_delete.
SignOut(r) ==
  /\ req[r].pc = "signout"
  /\ session' = [session EXCEPT ![req[r].session] = NoSession]
  /\ Done(r)
  /\ UNCHANGED <<now, address, token, ask, mail, history, changes, faults>>

\* auth_session_delete_all: nothing when the session is gone by now.
SignOutEverywhere(r) ==
  /\ req[r].pc = "everywhere"
  /\ IF req[r].session \in LiveSessions
     THEN Kill /\ req' = Cross([req EXCEPT ![r] = None])
     ELSE Done(r) /\ UNCHANGED <<token, session, ask>>
  /\ UNCHANGED <<now, address, mail, history, changes, faults>>

-----------------------------------------------------------------------------
(* The principal's row, and time.                                           *)

\* The webhook or the superadmin writes another address, or deletes the row.
Change(x) ==
  /\ Exists /\ x # address
  /\ changes < MaxChanges /\ changes' = changes + 1
  /\ address' = x
  /\ Kill /\ req' = Cross(req)
  /\ UNCHANGED <<now, mail, history, faults>>

\* The row comes back with the next webhook.
Return(x) ==
  /\ ~Exists
  /\ address' = x
  /\ UNCHANGED <<now, token, session, ask, req, mail, history, changes, faults>>

\* auth_revoke_principal.
Revoke ==
  /\ Kill /\ req' = Cross(req)
  /\ UNCHANGED <<now, address, mail, history, changes, faults>>

\* auth_sweep, hourly.
Sweep ==
  /\ token' = [t \in Tokens |-> IF token[t].expires <= now THEN NoToken ELSE token[t]]
  /\ session' = [s \in Sessions |-> IF Expired(s) THEN NoSession ELSE session[s]]
  /\ UNCHANGED <<now, address, ask, req, mail, history, changes, faults>>

Tick == now < MaxNow /\ now' = now + 1 /\ UNCHANGED <<address, token, session, ask, req, mail, history, changes, faults>>

Next ==
  \/ \E a \in Asks : LookUp(a) \/ (\E t \in Tokens : Issue(a, t)) \/ IssueRaises(a) \/ Mail(a) \/ AskCrash(a)
  \/ \E r \in Reqs :
       \/ \E t \in Tokens : Verify(r, t)
       \/ \E s \in Sessions : Create(r, s) \/ \E purpose \in Purposes : Present(r, s, purpose)
       \/ CreateRaises(r) \/ Crash(r) \/ Again(r) \/ SignOut(r) \/ SignOutEverywhere(r)
  \/ \E x \in Addresses : Change(x) \/ Return(x)
  \/ Change(Unset) \/ Revoke \/ Sweep \/ Tick

Spec == Init /\ [][Next]_vars

-----------------------------------------------------------------------------
(* Properties.                                                              *)

TypeOK ==
  /\ now \in 0..MaxNow /\ address \in Addresses \cup {Unset}
  /\ token \in [Tokens -> [used : BOOLEAN, expires : 0..MaxNow + TokenTtl]]
  /\ session \in [Sessions -> [created : 0..MaxNow, idle : 0..MaxNow + Idle, absolute : 0..MaxNow + Absolute]]
  /\ Cardinality(LiveSessions) <= Cap
  /\ mail \subseteq Tokens /\ raced \subseteq Tokens \cup Sessions
  /\ to \in [Tokens -> Addresses \cup {Unset}] /\ from \in [Sessions -> Tokens \cup {Unset}]
  /\ seen \in [Sessions -> 0..MaxNow]

\* Whatever path changes an address, the old address's tokens and sessions die with it
\* (20261012_b12_4a_auth.sql:268-269), but for those whose request had looked the principal
\* up, or consumed its token, before the change and came to the next call after it.
OldAddressOut ==
  /\ \A t \in LiveTokens : to[t] = address \/ t \in raced
  /\ \A s \in LiveSessions : to[from[s]] = address \/ {s, from[s]} \cap raced # {}

\* One link makes one session at most, however often and at once it is clicked
\* (auth_token_consume).
LinkOnce == \A s, u \in Sessions : s # u /\ from[s] # Unset => from[s] # from[u]

\* A session that ended, in whatever way, is not found again: no check in flight slides it
\* back into the table (auth_session_check).
EndedStays == [][\A s \in Sessions : from[s] # Unset /\ s \notin LiveSessions => session'[s] = NoSession]_vars

\* No look-up finds a session that was not presented for longer than its idle window, or
\* that is older than it may become, whichever windows the look-ups before it set.
IdleEnds ==
  [][\A s \in LiveSessions :
       seen'[s] # seen[s] => now < seen[s] + Idle /\ now < session[s].created + Absolute]_vars
=============================================================================
