---------------------------- MODULE CitizenProofs ----------------------------
(* Machine-checked facts about a Citizen: the links and sessions of SignIn,   *)
(* for every number of addresses, links, sessions and requests, every window  *)
(* and every fault; and the row of Subscriber, for every number of            *)
(* subscriptions, handlers, events and faults and every length of a period.   *)
EXTENDS SignIn, Subscriber, TLAPS

-----------------------------------------------------------------------------
(* SignIn                                                                   *)

Row == [used : BOOLEAN, expires : Nat]
SessionRow == [created : Nat, idle : Nat, absolute : Nat]
Call == [pc : {"idle", "issue", "mail", "create", "again", "signout", "everywhere"},
         address : Addresses \cup {Unset}, token : Tokens \cup {Unset},
         session : Sessions \cup {Unset}, purpose : Purposes \cup {""}, crossed : BOOLEAN]

\* What each label of a call holds.
CallOK(c) ==
  /\ c \in Call /\ (c.pc = "idle" => c = None)
  /\ c.pc = "issue" => c.address \in Addresses
  /\ c.pc \in {"mail", "create"} => c.token \in Tokens
  /\ c.pc \in {"again", "signout", "everywhere"} => c.session \in Sessions
  /\ c.pc = "again" => c.purpose \in Purposes

TypeInv ==
  /\ now \in 0..MaxNow /\ address \in Addresses \cup {Unset}
  /\ token \in [Tokens -> Row] /\ session \in [Sessions -> SessionRow]
  /\ ask = [a \in Asks |-> ask[a]] /\ \A a \in Asks : CallOK(ask[a])
  /\ req = [r \in Reqs |-> req[r]] /\ \A r \in Reqs : CallOK(req[r])
  /\ mail \subseteq Tokens
  /\ to \in [Tokens -> Addresses \cup {Unset}] /\ from \in [Sessions -> Tokens \cup {Unset}]
  /\ seen \in [Sessions -> Nat]

-----------------------------------------------------------------------------
(* Types                                                                    *)

LEMMA Windows == {TokenTtl, Cap, ShortIdle, Idle, Absolute, MaxNow} \subseteq Nat /\ ShortIdle <= Idle
                 /\ Idle <= Absolute /\ ShortIdle > 0 /\ Idle > 0 /\ Absolute > 0
                 /\ Unset \notin Addresses /\ Unset \notin Tokens /\ Unset \notin Sessions
  BY SignInAssumption, SMT

LEMMA NoneOK == CallOK(None) /\ None.pc = "idle"
  BY DEF None, CallOK, Call

LEMMA CrossOK ==
  ASSUME NEW S, NEW f, f = [x \in S |-> f[x]], \A x \in S : CallOK(f[x])
  PROVE  /\ Cross(f) = [x \in S |-> Cross(f)[x]]
         /\ \A x \in S : CallOK(Cross(f)[x])
         /\ \A x \in S : /\ Cross(f)[x].pc = f[x].pc /\ Cross(f)[x].token = f[x].token
                         /\ Cross(f)[x].pc # "idle" => Cross(f)[x].crossed
  <1>1. DOMAIN f = S OBVIOUS
  <1>2. \A x \in S : Cross(f)[x] = IF f[x] = None THEN None ELSE [f[x] EXCEPT !.crossed = TRUE]
    BY <1>1 DEF Cross
  <1>3. Cross(f) = [x \in S |-> Cross(f)[x]] BY <1>1 DEF Cross
  <1>4. ASSUME NEW x \in S
        PROVE  /\ CallOK(Cross(f)[x])
               /\ Cross(f)[x].pc = f[x].pc /\ Cross(f)[x].token = f[x].token
               /\ Cross(f)[x].pc # "idle" => Cross(f)[x].crossed
    <2>1. CASE f[x] = None BY <1>2, <2>1, NoneOK
    <2>2. CASE f[x] # None
      <3>1. Cross(f)[x] = [f[x] EXCEPT !.crossed = TRUE] BY <1>2, <2>2
      <3>2. f[x].pc # "idle" /\ f[x] \in Call BY <2>2 DEF CallOK
      <3> QED BY <3>1, <3>2 DEF CallOK, Call
    <2> QED BY <2>1, <2>2
  <1> QED BY <1>3, <1>4

\* One call goes to another state.
LEMMA AskMoved ==
  ASSUME TypeInv, NEW a \in Asks, NEW c, CallOK(c), ask' = [ask EXCEPT ![a] = c]
  PROVE  ask' = [x \in Asks |-> ask'[x]] /\ \A x \in Asks : CallOK(ask'[x])
  BY DEF TypeInv

LEMMA ReqMoved ==
  ASSUME TypeInv, NEW r \in Reqs, NEW c, CallOK(c), req' = [req EXCEPT ![r] = c]
  PROVE  req' = [x \in Reqs |-> req'[x]] /\ \A x \in Reqs : CallOK(req'[x])
  BY DEF TypeInv

LEMMA NoRows == NoToken \in Row /\ NoSession \in SessionRow
  BY DEF NoToken, Row, NoSession, SessionRow

LEMMA KillTyped ==
  ASSUME TypeInv, Kill
  PROVE  /\ token' \in [Tokens -> Row] /\ session' \in [Sessions -> SessionRow]
         /\ ask' = [x \in Asks |-> ask'[x]] /\ \A x \in Asks : CallOK(ask'[x])
  <1>1. ask' = [x \in Asks |-> ask'[x]] /\ \A x \in Asks : CallOK(ask'[x])
    BY CrossOK DEF TypeInv, Kill
  <1> QED BY <1>1, NoRows DEF Kill

\* auth_session_create keeps rows, deletes rows, and makes one.
LEMMA AfterCreateRows ==
  ASSUME TypeInv, NEW s \in Sessions, NEW after \in AfterCreate(s)
  PROVE  /\ after \in [Sessions -> SessionRow]
         /\ \A x \in Sessions \ {s} : after[x] = session[x] \/ after[x] = NoSession
         /\ after[s] = [created |-> now, idle |-> now + Idle, absolute |-> now + Absolute] \/ after[s] = NoSession
  <1> DEFINE newRow == [created |-> now, idle |-> now + Idle, absolute |-> now + Absolute]
             with == [session EXCEPT ![s] = newRow]
             rows == LiveSessions \cup {s}
  <1>1. PICK keep \in {k \in Kept(rows, Cap) : \A x \in k, y \in rows \ k : with[x].created >= with[y].created} :
          after = [x \in Sessions |-> IF x \in keep THEN with[x] ELSE NoSession]
    BY DEF AfterCreate
  <1>2. now \in Nat /\ now + Idle \in Nat /\ now + Absolute \in Nat BY Windows, SMT DEF TypeInv
  <1>3. newRow \in SessionRow BY <1>2 DEF SessionRow
  <1> HIDE DEF newRow
  <1>4. with \in [Sessions -> SessionRow] /\ with[s] = newRow /\ \A x \in Sessions \ {s} : with[x] = session[x]
    BY <1>3 DEF TypeInv
  <1> HIDE DEF with
  <1>5. after = [x \in Sessions |-> IF x \in keep THEN with[x] ELSE NoSession] BY <1>1 DEF with
  <1>6. \A x \in Sessions : after[x] = with[x] \/ after[x] = NoSession BY <1>5
  <1>7. after \in [Sessions -> SessionRow] BY <1>4, <1>5, NoRows
  <1> QED BY <1>4, <1>6, <1>7 DEF newRow

\* auth_session_check deletes the row, or keeps its ends within the windows.
LEMMA CheckedRows ==
  ASSUME TypeInv, NEW s \in Sessions, NEW window \in {ShortIdle, Idle}
  PROVE  /\ Checked(s, window) \in [Sessions -> SessionRow]
         /\ \A x \in Sessions \ {s} : Checked(s, window)[x] = session[x]
         /\ Expired(s) => Checked(s, window)[s] = NoSession
         /\ ~Expired(s) => /\ Checked(s, window)[s].created = session[s].created
                           /\ Checked(s, window)[s].absolute = session[s].absolute
                           /\ Checked(s, window)[s].idle <= now + Idle
  <1> DEFINE until == session[s].absolute
             end == IF now + window < until THEN now + window ELSE until
  <1>1. now \in Nat /\ until \in Nat /\ window \in Nat /\ Idle \in Nat /\ window <= Idle
    BY Windows, SMT DEF TypeInv, SessionRow
  <1>2. end \in Nat /\ end <= now + Idle
    <2> HIDE DEF until
    <2> QED BY <1>1, SMT
  <1>3. CASE Expired(s)
    <2>1. Checked(s, window) = [session EXCEPT ![s] = NoSession] BY <1>3 DEF Checked
    <2> QED BY <1>3, <2>1, NoRows DEF TypeInv
  <1>4. CASE ~Expired(s)
    <2>1. Checked(s, window) = [session EXCEPT ![s] = [session[s] EXCEPT !.idle = end]]
      BY <1>4 DEF Checked, TypeInv
    <2> HIDE DEF end, until
    <2>2. [session[s] EXCEPT !.idle = end] \in SessionRow
      BY <1>2 DEF TypeInv, SessionRow
    <2>3. /\ Checked(s, window)[s] = [session[s] EXCEPT !.idle = end]
          /\ \A x \in Sessions \ {s} : Checked(s, window)[x] = session[x]
      BY <2>1 DEF TypeInv
    <2>4. /\ [session[s] EXCEPT !.idle = end].idle = end
          /\ [session[s] EXCEPT !.idle = end].created = session[s].created
          /\ [session[s] EXCEPT !.idle = end].absolute = session[s].absolute
      BY DEF TypeInv, SessionRow
    <2>5. Checked(s, window) \in [Sessions -> SessionRow] BY <2>1, <2>2 DEF TypeInv
    <2> QED BY <1>2, <1>4, <2>3, <2>4, <2>5
  <1> QED BY <1>3, <1>4

LEMMA IssuedRows ==
  ASSUME TypeInv, NEW t \in Tokens
  PROVE  /\ Issued(t) \in [Tokens -> Row]
         /\ \A u \in Tokens \ {t} : Issued(t)[u] = token[u] \/ Issued(t)[u] = NoToken
  <1>1. now + TokenTtl \in Nat BY Windows, SMT DEF TypeInv
  <1>2. [used |-> FALSE, expires |-> now + TokenTtl] \in Row BY <1>1 DEF Row
  <1> QED BY <1>2, NoRows DEF Issued, TypeInv

LEMMA ConsumedRows ==
  ASSUME TypeInv, NEW t \in Tokens
  PROVE  /\ Consumed(t) \in [Tokens -> Row] /\ Consumed(t)[t].used
         /\ \A u \in Tokens \ {t} : Consumed(t)[u] = token[u]
  <1>1. [token[t] EXCEPT !.used = TRUE] \in Row /\ [token[t] EXCEPT !.used = TRUE].used
    BY DEF TypeInv, Row
  <1> QED BY <1>1 DEF Consumed, TypeInv

LEMMA LookTyped ==
  ASSUME TypeInv, NEW r \in Reqs, NEW s \in Sessions, NEW window \in {ShortIdle, Idle},
         NEW next, CallOK(next), LookAt(r, s, window, next)
  PROVE  TypeInv'
  <1>1. session' \in [Sessions -> SessionRow]
    BY CheckedRows DEF LookAt, TypeInv
  <1>2. req' = [x \in Reqs |-> req'[x]] /\ \A x \in Reqs : CallOK(req'[x])
    <2>1. req' = [req EXCEPT ![r] = next] \/ req' = [req EXCEPT ![r] = None] BY DEF LookAt, Done
    <2> QED BY <2>1, NoneOK, ReqMoved
  <1>3. seen' \in [Sessions -> Nat]
    <2>1. now \in Nat BY DEF TypeInv
    <2>2. seen' = seen \/ seen' = [seen EXCEPT ![s] = now] BY DEF LookAt
    <2> QED BY <2>1, <2>2 DEF TypeInv
  <1> QED BY <1>1, <1>2, <1>3 DEF LookAt, TypeInv

LEMMA AskTyped ==
  ASSUME TypeInv, NEW a \in Asks,
         LookUp(a) \/ (\E t \in Tokens : Issue(a, t)) \/ IssueRaises(a) \/ Mail(a) \/ AskCrash(a)
  PROVE  TypeInv'
  <1> USE DEF history
  <1>0. CallOK(ask[a]) BY DEF TypeInv
  <1>1. CASE LookUp(a)
    <2>1. CallOK([None EXCEPT !.pc = "issue", !.address = address])
      BY <1>1 DEF LookUp, Exists, TypeInv, None, CallOK, Call
    <2> QED BY <1>1, <2>1, AskMoved DEF LookUp, TypeInv
  <1>2. ASSUME NEW t \in Tokens, Issue(a, t) PROVE TypeInv'
    <2>1. CallOK([ask[a] EXCEPT !.pc = "mail", !.token = t]) BY <1>0 DEF CallOK, Call
    <2>2. ask' = [x \in Asks |-> ask'[x]] /\ \A x \in Asks : CallOK(ask'[x])
      BY <1>2, <2>1, AskMoved DEF Issue
    <2>3. token' \in [Tokens -> Row] BY <1>2, IssuedRows DEF Issue
    <2>4. to' \in [Tokens -> Addresses \cup {Unset}]
      <3>1. ask[a].address \in Addresses BY <1>0, <1>2 DEF Issue, CallOK
      <3> QED BY <1>2, <3>1 DEF Issue, TypeInv
    <2> QED BY <1>2, <2>2, <2>3, <2>4 DEF Issue, TypeInv
  <1>3. CASE IssueRaises(a) BY <1>3, NoneOK, AskMoved DEF IssueRaises, TypeInv
  <1>4. CASE Mail(a)
    <2>1. mail' \subseteq Tokens BY <1>0, <1>4 DEF Mail, TypeInv, CallOK
    <2> QED BY <1>4, <2>1, NoneOK, AskMoved DEF Mail, TypeInv
  <1>5. CASE AskCrash(a) BY <1>5, NoneOK, AskMoved DEF AskCrash, TypeInv
  <1> QED BY <1>1, <1>2, <1>3, <1>4, <1>5

Serve(r) ==
  \/ \E t \in Tokens : Verify(r, t)
  \/ \E s \in Sessions : Create(r, s) \/ \E purpose \in Purposes : Present(r, s, purpose)
  \/ CreateRaises(r) \/ Crash(r) \/ Again(r) \/ SignOut(r) \/ SignOutEverywhere(r)

LEMMA ReqTyped ==
  ASSUME TypeInv, NEW r \in Reqs, Serve(r)
  PROVE  TypeInv'
  <1> USE DEF history
  <1>0. CallOK(req[r]) BY DEF TypeInv
  <1>1. ASSUME NEW t \in Tokens, Verify(r, t) PROVE TypeInv'
    <2>1. CallOK([None EXCEPT !.pc = "create", !.token = t]) BY DEF None, CallOK, Call
    <2>2. req' = [x \in Reqs |-> req'[x]] /\ \A x \in Reqs : CallOK(req'[x])
      BY <1>1, <2>1, ReqMoved DEF Verify
    <2> QED BY <1>1, <2>2, ConsumedRows DEF Verify, TypeInv
  <1>2. ASSUME NEW s \in Sessions, Create(r, s) PROVE TypeInv'
    <2>1. session' \in [Sessions -> SessionRow] BY <1>2, AfterCreateRows DEF Create
    <2>2. from' \in [Sessions -> Tokens \cup {Unset}] BY <1>0, <1>2 DEF Create, TypeInv, CallOK
    <2>3. seen' \in [Sessions -> Nat] BY <1>2 DEF Create, TypeInv
    <2> QED BY <1>2, <2>1, <2>2, <2>3, NoneOK, ReqMoved DEF Create, Done, TypeInv
  <1>3. ASSUME NEW s \in Sessions, NEW purpose \in Purposes, Present(r, s, purpose) PROVE TypeInv'
    <2>1. CallOK([None EXCEPT !.pc = "again", !.session = s, !.purpose = purpose])
      BY DEF None, CallOK, Call, Purposes
    <2> QED BY <1>3, <2>1, LookTyped DEF Present
  <1>4. CASE CreateRaises(r) BY <1>4, NoneOK, ReqMoved DEF CreateRaises, Done, TypeInv
  <1>5. CASE Crash(r) BY <1>5, NoneOK, ReqMoved DEF Crash, Done, TypeInv
  <1>6. CASE Again(r)
    <2>1. req[r].session \in Sessions BY <1>0, <1>6 DEF Again, CallOK
    <2>2. CallOK(IF req[r].purpose = "read" THEN None ELSE [req[r] EXCEPT !.pc = req[r].purpose])
      <3>1. CASE req[r].purpose = "read" BY <3>1, NoneOK
      <3>2. CASE req[r].purpose \in {"signout", "everywhere"}
        BY <1>0, <2>1, <3>2 DEF CallOK, Call
      <3> QED BY <1>0, <1>6, <3>1, <3>2 DEF Again, CallOK, Purposes
    <2> QED BY <1>6, <2>1, <2>2, LookTyped DEF Again
  <1>7. CASE SignOut(r)
    <2>1. session' \in [Sessions -> SessionRow] BY <1>7, NoRows DEF SignOut, TypeInv
    <2> QED BY <1>7, <2>1, NoneOK, ReqMoved DEF SignOut, Done, TypeInv
  <1>8. CASE SignOutEverywhere(r)
    <2>1. CASE req[r].session \in LiveSessions
      <3>1. Kill /\ req' = Cross([req EXCEPT ![r] = None]) BY <1>8, <2>1 DEF SignOutEverywhere
      <3> DEFINE f == [req EXCEPT ![r] = None]
      <3>2. f = [x \in Reqs |-> f[x]] /\ \A x \in Reqs : CallOK(f[x]) BY NoneOK DEF TypeInv
      <3> HIDE DEF f
      <3>3. req' = [x \in Reqs |-> req'[x]] /\ \A x \in Reqs : CallOK(req'[x])
        <4>1. req' = Cross(f) BY <3>1 DEF f
        <4> QED BY <3>2, <4>1, CrossOK
      <3> QED BY <1>8, <3>1, <3>3, KillTyped DEF SignOutEverywhere, TypeInv
    <2>2. CASE req[r].session \notin LiveSessions
      BY <1>8, <2>2, NoneOK, ReqMoved DEF SignOutEverywhere, Done, TypeInv
    <2> QED BY <2>1, <2>2
  <1> QED BY <1>1, <1>2, <1>3, <1>4, <1>5, <1>6, <1>7, <1>8 DEF Serve

Rest ==
  \/ \E x \in Addresses : Change(x) \/ Return(x)
  \/ Change(Unset) \/ Revoke \/ Sweep \/ Tick

LEMMA RestTyped ==
  ASSUME TypeInv, Rest
  PROVE  TypeInv'
  <1> USE DEF history
  <1>r. req' = Cross(req) => req' = [x \in Reqs |-> req'[x]] /\ \A x \in Reqs : CallOK(req'[x])
    BY CrossOK DEF TypeInv
  <1>1. ASSUME NEW x \in Addresses \cup {Unset}, Change(x) PROVE TypeInv'
    BY <1>1, <1>r, KillTyped DEF Change, TypeInv
  <1>2. ASSUME NEW x \in Addresses, Return(x) PROVE TypeInv' BY <1>2 DEF Return, TypeInv
  <1>3. CASE Revoke BY <1>3, <1>r, KillTyped DEF Revoke, TypeInv
  <1>4. CASE Sweep BY <1>4, NoRows DEF Sweep, TypeInv
  <1>5. CASE Tick
    <2>1. now' \in 0..MaxNow BY <1>5, Windows, SMT DEF Tick, TypeInv
    <2> QED BY <1>5, <2>1 DEF Tick, TypeInv
  <1> QED BY <1>1, <1>2, <1>3, <1>4, <1>5 DEF Rest

LEMMA TypesKept == Spec => []TypeInv
  <1>1. Init => TypeInv
    <2> SUFFICES ASSUME Init PROVE TypeInv OBVIOUS
    <2>1. now \in 0..MaxNow BY Windows, SMT DEF Init
    <2> QED BY <2>1, NoRows, NoneOK DEF Init, TypeInv
  <1>2. TypeInv /\ [Next]_vars => TypeInv'
    <2> SUFFICES ASSUME TypeInv, [Next]_vars PROVE TypeInv' OBVIOUS
    <2>1. CASE UNCHANGED vars BY <2>1 DEF vars, history, TypeInv
    <2>2. ASSUME NEW a \in Asks,
                 LookUp(a) \/ (\E t \in Tokens : Issue(a, t)) \/ IssueRaises(a) \/ Mail(a) \/ AskCrash(a)
          PROVE  TypeInv'
      BY <2>2, AskTyped
    <2>3. ASSUME NEW r \in Reqs, Serve(r) PROVE TypeInv' BY <2>3, ReqTyped
    <2>4. CASE Rest BY <2>4, RestTyped
    <2> QED BY <2>1, <2>2, <2>3, <2>4 DEF Next, Serve, Rest
  <1> QED BY <1>1, <1>2, PTL DEF Spec

-----------------------------------------------------------------------------
(* One link, one session                                                    *)

Asking(a) == LookUp(a) \/ (\E t \in Tokens : Issue(a, t)) \/ IssueRaises(a) \/ Mail(a) \/ AskCrash(a)

LEMMA Steps ==
  ASSUME [Next]_vars
  PROVE  UNCHANGED vars \/ (\E a \in Asks : Asking(a)) \/ (\E r \in Reqs : Serve(r)) \/ Rest
  BY DEF Next, Asking, Serve, Rest

\* What any step may make of the links: a link is made once, and once it is used or gone
\* it does not come back.
TokenStep ==
  \A t \in Tokens :
    /\ to[t] # Unset => to'[t] = to[t] /\ (token'[t] = token[t] \/ token'[t] = NoToken \/ token'[t].used)
    /\ token'[t] # NoToken => token[t] # NoToken \/ to'[t] # Unset

LEMMA TokensGo ==
  ASSUME TypeInv, [Next]_vars
  PROVE  TokenStep
  <1> USE DEF history
  <1>1. CASE UNCHANGED <<token, to>> BY <1>1 DEF TokenStep
  <1>2. CASE to' = to /\ \A t \in Tokens : token'[t] = token[t] \/ token'[t] = NoToken
    BY <1>2 DEF TokenStep
  <1>3. ASSUME NEW a \in Asks, NEW t \in Tokens, Issue(a, t) PROVE TokenStep
    <2>1. to' = [to EXCEPT ![t] = ask[a].address] /\ to[t] = Unset /\ token' = Issued(t) BY <1>3 DEF Issue
    <2>2. ask[a].address \in Addresses BY <1>3 DEF Issue, TypeInv, CallOK
    <2>3. to'[t] # Unset /\ \A u \in Tokens \ {t} : to'[u] = to[u] BY <2>1, <2>2, Windows DEF TypeInv
    <2> QED BY <2>1, <2>3, IssuedRows DEF TokenStep
  <1>4. ASSUME NEW r \in Reqs, NEW t \in Tokens, Verify(r, t) PROVE TokenStep
    BY <1>4, ConsumedRows DEF Verify, Consumable, TokenStep
  <1>5. Kill /\ to' = to => TokenStep BY <1>2 DEF Kill
  <1>6. CASE \E a \in Asks : Asking(a)
    BY <1>1, <1>3, <1>6 DEF Asking, LookUp, IssueRaises, Mail, AskCrash
  <1>7. CASE \E r \in Reqs : Serve(r)
    BY <1>1, <1>4, <1>5, <1>7 DEF Serve, Create, Present, LookAt, CreateRaises, Crash, Again, SignOut, SignOutEverywhere
  <1>8. CASE Rest
    <2>1. CASE Sweep BY <1>2, <2>1 DEF Sweep
    <2> QED BY <1>1, <1>5, <1>8, <2>1 DEF Rest, Change, Return, Revoke, Tick
  <1> QED BY <1>1, <1>6, <1>7, <1>8, Steps DEF vars

\* A link that was made, and is used or gone.
Spent(t) == to[t] # Unset /\ (token[t] = NoToken \/ token[t].used)

\* A link that a click has consumed is spent, is that click's or its session's alone, and so is
\* never consumed again.
LinkInv ==
  /\ LinkOnce
  /\ \A t \in Tokens : token[t] # NoToken => to[t] # Unset
  /\ \A s \in Sessions : from[s] # Unset => Spent(from[s])
  /\ \A r \in Reqs : req[r].pc = "create" => Spent(req[r].token) /\ \A s \in Sessions : from[s] # req[r].token
  /\ \A r, q \in Reqs : r # q /\ req[r].pc = "create" /\ req[q].pc = "create" => req[r].token # req[q].token

\* No step makes a call that is about to make a session, but Verify.
NoNewCreate == \A r \in Reqs : req'[r].pc = "create" => req[r].pc = "create" /\ req'[r].token = req[r].token

LEMMA CallsGo ==
  ASSUME TypeInv, [Next]_vars,
         ~(\E r \in Reqs, t \in Tokens : Verify(r, t))
  PROVE  NoNewCreate
  <1> USE DEF history
  <1>1. CASE req' = req BY <1>1 DEF NoNewCreate
  <1>2. ASSUME NEW r \in Reqs, NEW c, c.pc # "create", req' = [req EXCEPT ![r] = c] PROVE NoNewCreate
    BY <1>2 DEF TypeInv, NoNewCreate
  <1>3. \A r \in Reqs : Done(r) => NoNewCreate BY <1>2, NoneOK DEF Done
  <1>4. CASE req' = Cross(req)
    BY <1>4, CrossOK DEF TypeInv, NoNewCreate
  <1>5. CASE \E a \in Asks : Asking(a)
    BY <1>1, <1>5 DEF Asking, LookUp, Issue, IssueRaises, Mail, AskCrash
  <1>6. ASSUME NEW r \in Reqs, Serve(r) PROVE NoNewCreate
    <2>0. CallOK(req[r]) BY DEF TypeInv
    <2>1. ASSUME NEW s, NEW window, NEW next, next.pc # "create", LookAt(r, s, window, next) PROVE NoNewCreate
      BY <1>2, <1>3, <2>1 DEF LookAt
    <2>2. ASSUME NEW s, NEW purpose, Present(r, s, purpose) PROVE NoNewCreate
      <3>1. [None EXCEPT !.pc = "again", !.session = s, !.purpose = purpose].pc = "again" BY DEF None
      <3> QED BY <2>1, <2>2, <3>1 DEF Present
    <2>3. CASE Again(r)
      <3>1. (IF req[r].purpose = "read" THEN None ELSE [req[r] EXCEPT !.pc = req[r].purpose]).pc # "create"
        <4>1. req[r].purpose \in Purposes /\ req[r] \in Call BY <2>0, <2>3 DEF CallOK, Again
        <4> QED BY <4>1, NoneOK DEF Purposes, Call
      <3> QED BY <2>1, <2>3, <3>1 DEF Again
    <2>4. CASE SignOutEverywhere(r)
      <3> DEFINE f == [req EXCEPT ![r] = None]
      <3>1. CASE req' = Cross(f)
        <4>1. f = [x \in Reqs |-> f[x]] /\ \A x \in Reqs : CallOK(f[x]) BY NoneOK DEF TypeInv
        <4>2. \A x \in Reqs : f[x] = req[x] \/ f[x] = None BY DEF TypeInv
        <4> HIDE DEF f
        <4>3. \A x \in Reqs : req'[x].pc = f[x].pc /\ req'[x].token = f[x].token BY <3>1, <4>1, CrossOK
        <4> QED BY <4>2, <4>3, NoneOK DEF NoNewCreate
      <3> QED BY <1>3, <2>4, <3>1 DEF SignOutEverywhere
    <2> QED BY <1>3, <1>6, <2>2, <2>3, <2>4 DEF Serve, Create, CreateRaises, Crash, SignOut
  <1>7. CASE Rest
    BY <1>1, <1>4, <1>7 DEF Rest, Change, Return, Revoke, Sweep, Tick
  <1> QED BY <1>1, <1>5, <1>6, <1>7, Steps DEF vars

LEMMA LinksKept == Spec => []LinkInv
  <1>1. Init => LinkInv
    <2> SUFFICES ASSUME Init PROVE LinkInv OBVIOUS
    <2>1. \A r \in Reqs : req[r].pc = "idle" BY NoneOK DEF Init
    <2> QED BY <2>1 DEF Init, LinkInv, LinkOnce
  <1>2. TypeInv /\ LinkInv /\ [Next]_vars => LinkInv'
    <2> SUFFICES ASSUME TypeInv, LinkInv, [Next]_vars PROVE LinkInv' OBVIOUS
    <2>1. TokenStep BY TokensGo
    <2>2. \A t \in Tokens : Spent(t) => to'[t] # Unset /\ (token'[t] = NoToken \/ token'[t].used)
      BY <2>1 DEF TokenStep, Spent
    <2>3. \A t \in Tokens : token'[t] # NoToken => to'[t] # Unset
      BY <2>1 DEF TokenStep, LinkInv
    <2>4. CASE \E r \in Reqs, t \in Tokens : Verify(r, t)
      <3>1. PICK r \in Reqs, t \in Tokens : Verify(r, t) BY <2>4
      <3>2. ~Spent(t) /\ to[t] # Unset /\ from' = from /\ to' = to
        BY <3>1 DEF Verify, Consumable, Spent, LinkInv, history
      <3>3. to'[t] # Unset /\ token'[t].used
        BY <3>1, <3>2, ConsumedRows DEF Verify
      <3>4. req'[r].pc = "create" /\ req'[r].token = t /\ \A q \in Reqs \ {r} : req'[q] = req[q]
        BY <3>1 DEF Verify, None, TypeInv
      <3>5. \A q \in Reqs : req[q].pc = "create" => req[q].token # t
        BY <3>2 DEF LinkInv
      <3>6. \A s \in Sessions : from[s] # t BY <3>2, Windows DEF LinkInv
      <3>7. \A q \in Reqs : req'[q].pc = "create" => req'[q].token \in Tokens
        BY <3>4 DEF TypeInv, CallOK
      <3>8. \A s \in Sessions : from'[s] # Unset => from'[s] \in Tokens BY <3>2 DEF TypeInv
      <3> QED BY <2>2, <2>3, <3>2, <3>3, <3>4, <3>5, <3>6, <3>7, <3>8 DEF LinkInv, LinkOnce, Spent
    <2>5. CASE ~(\E r \in Reqs, t \in Tokens : Verify(r, t)) /\ from' = from
      <3>1. NoNewCreate BY <2>5, CallsGo
      <3>2. \A q \in Reqs : req'[q].pc = "create" => req'[q].token \in Tokens
        BY <3>1 DEF NoNewCreate, TypeInv, CallOK
      <3>3. \A s \in Sessions : from'[s] # Unset => from'[s] \in Tokens BY <2>5 DEF TypeInv
      <3> QED BY <2>2, <2>3, <2>5, <3>1, <3>2, <3>3 DEF LinkInv, LinkOnce, Spent, NoNewCreate
    <2>6. ASSUME NEW r \in Reqs, NEW s \in Sessions, Create(r, s) PROVE LinkInv'
      <3>1. from[s] = Unset /\ from' = [from EXCEPT ![s] = req[r].token] /\ req[r].pc = "create"
        BY <2>6 DEF Create
      <3>2. req[r].token \in Tokens BY <3>1 DEF TypeInv, CallOK
      <3>3. \A q \in Reqs : req'[q].pc = "create" => q # r /\ req'[q] = req[q]
        BY <2>6, NoneOK DEF Create, Done, TypeInv
      <3>4. from'[s] = req[r].token /\ \A u \in Sessions \ {s} : from'[u] = from[u]
        BY <3>1 DEF TypeInv
      <3>5. \A q \in Reqs : req'[q].pc = "create" => req'[q].token \in Tokens
        BY <3>3 DEF TypeInv, CallOK
      <3>6. \A u \in Sessions : from'[u] # Unset => from'[u] \in Tokens BY <3>2, <3>4 DEF TypeInv
      <3>7. LinkOnce' BY <3>1, <3>4 DEF LinkInv, LinkOnce
      <3>8. \A q \in Reqs : req'[q].pc = "create" => \A u \in Sessions : from'[u] # req'[q].token
        BY <3>1, <3>3, <3>4 DEF LinkInv
      <3>9. \A u \in Sessions : from'[u] # Unset => Spent(from'[u])
        BY <3>1, <3>4 DEF LinkInv
      <3> QED BY <2>2, <2>3, <3>3, <3>5, <3>6, <3>7, <3>8, <3>9 DEF LinkInv, Spent
    <2>7. \/ from' = from \/ \E r \in Reqs, s \in Sessions : Create(r, s)
      BY Steps DEF Asking, Serve, Rest, history, vars, LookUp, Issue, IssueRaises, Mail, AskCrash, Verify, Present,
                   LookAt, CreateRaises, Crash, Again, SignOut, SignOutEverywhere, Change, Return, Revoke, Sweep, Tick
    <2> QED BY <2>4, <2>5, <2>6, <2>7
  <1> QED BY <1>1, <1>2, TypesKept, PTL DEF Spec

\* One link makes one session at most, however often and by however many at once it is
\* clicked (auth_token_consume, LinkOnce).
THEOREM OneSessionPerLink == Spec => []LinkOnce
  <1>1. LinkInv => LinkOnce BY DEF LinkInv
  <1> QED BY <1>1, LinksKept, PTL

-----------------------------------------------------------------------------
(* How a session ends                                                       *)

\* A row that is kept was slid no further than one idle window past the last time it was
\* found, and carries the absolute end it was made with.
SessionInv ==
  \A s \in Sessions :
    session[s] # NoSession =>
      /\ from[s] # Unset
      /\ session[s].idle <= seen[s] + Idle
      /\ session[s].absolute = session[s].created + Absolute

\* What a step may make of one session's row.
Untouched(s) == session'[s] = session[s] /\ seen'[s] = seen[s]
Deleted(s) == session'[s] = NoSession /\ seen'[s] = seen[s]
Found(s) ==
  /\ session[s] # NoSession /\ ~Expired(s) /\ seen'[s] = now
  /\ session'[s].created = session[s].created /\ session'[s].absolute = session[s].absolute
  /\ session'[s].idle <= now + Idle
Made(s) ==
  /\ from[s] = Unset /\ from'[s] # Unset /\ seen'[s] = now
  /\ session'[s] \in {NoSession, [created |-> now, idle |-> now + Idle, absolute |-> now + Absolute]}
SessionStep == \A s \in Sessions : (from'[s] = from[s] /\ (Untouched(s) \/ Deleted(s) \/ Found(s))) \/ Made(s)

LEMMA LookStep ==
  ASSUME TypeInv, NEW r \in Reqs, NEW s \in Sessions, NEW window \in {ShortIdle, Idle}, NEW next, LookAt(r, s, window, next)
  PROVE  SessionStep
  <1>1. CASE session[s] = NoSession
    BY <1>1 DEF LookAt, LiveSessions, SessionStep, Untouched
  <1>2. CASE session[s] # NoSession
    <2>1. session' = Checked(s, window) /\ from' = from BY <1>2 DEF LookAt, LiveSessions
    <2>2. CASE Expired(s)
      <3>1. seen' = seen BY <2>2 DEF LookAt
      <3> QED BY <2>1, <2>2, <3>1, CheckedRows DEF SessionStep, Untouched, Deleted
    <2>3. CASE ~Expired(s)
      <3>1. seen' = [seen EXCEPT ![s] = now] BY <1>2, <2>3 DEF LookAt, LiveSessions
      <3>2. seen'[s] = now /\ \A x \in Sessions \ {s} : seen'[x] = seen[x] BY <3>1 DEF TypeInv
      <3> QED BY <1>2, <2>1, <2>3, <3>2, CheckedRows DEF SessionStep, Untouched, Found
    <2> QED BY <2>2, <2>3
  <1> QED BY <1>1, <1>2

LEMMA SessionsGo ==
  ASSUME TypeInv, [Next]_vars
  PROVE  SessionStep
  <1> USE DEF history
  <1>1. CASE UNCHANGED <<session, from, seen>> BY <1>1 DEF SessionStep, Untouched
  <1>2. CASE UNCHANGED <<from, seen>> /\ \A s \in Sessions : session'[s] = session[s] \/ session'[s] = NoSession
    BY <1>2 DEF SessionStep, Untouched, Deleted
  <1>3. Kill /\ UNCHANGED <<from, seen>> => SessionStep BY <1>2 DEF Kill
  <1>4. ASSUME NEW r \in Reqs, NEW s \in Sessions, Create(r, s) PROVE SessionStep
    <2>1. session' \in AfterCreate(s) /\ from[s] = Unset BY <1>4 DEF Create
    <2>2. req[r].token \in Tokens BY <1>4 DEF Create, TypeInv, CallOK
    <2>3. from'[s] = req[r].token /\ \A x \in Sessions \ {s} : from'[x] = from[x]
      BY <1>4 DEF Create, TypeInv
    <2>4. seen'[s] = now /\ \A x \in Sessions \ {s} : seen'[x] = seen[x]
      BY <1>4 DEF Create, TypeInv
    <2>5. from'[s] # Unset BY <2>2, <2>3, Windows
    <2>6. /\ \A x \in Sessions \ {s} : session'[x] = session[x] \/ session'[x] = NoSession
          /\ session'[s] = [created |-> now, idle |-> now + Idle, absolute |-> now + Absolute] \/ session'[s] = NoSession
      BY <2>1, AfterCreateRows
    <2> QED BY <2>1, <2>3, <2>4, <2>5, <2>6 DEF SessionStep, Untouched, Deleted, Made
  <1>5. CASE \E a \in Asks : Asking(a)
    BY <1>1, <1>5 DEF Asking, LookUp, Issue, IssueRaises, Mail, AskCrash
  <1>6. ASSUME NEW r \in Reqs, Serve(r) PROVE SessionStep
    <2>1. CASE \E s \in Sessions, purpose \in Purposes : Present(r, s, purpose)
      BY <2>1, LookStep DEF Present
    <2>2. CASE Again(r)
      <3>1. req[r].session \in Sessions BY <2>2 DEF Again, TypeInv, CallOK
      <3> QED BY <2>2, <3>1, LookStep DEF Again
    <2>3. CASE SignOut(r) BY <1>2, <2>3 DEF SignOut, TypeInv
    <2>4. CASE SignOutEverywhere(r) BY <1>1, <1>3, <2>4 DEF SignOutEverywhere
    <2> QED BY <1>1, <1>4, <1>6, <2>1, <2>2, <2>3, <2>4 DEF Serve, Verify, CreateRaises, Crash
  <1>7. CASE Rest
    <2>1. CASE Sweep BY <1>2, <2>1 DEF Sweep
    <2> QED BY <1>1, <1>3, <1>7, <2>1 DEF Rest, Change, Return, Revoke, Tick
  <1> QED BY <1>1, <1>5, <1>6, <1>7, Steps DEF vars

LEMMA SessionsKept == Spec => []SessionInv
  <1>1. Init => SessionInv BY DEF Init, SessionInv
  <1>2. TypeInv /\ TypeInv' /\ SessionInv /\ [Next]_vars => SessionInv'
    <2> SUFFICES ASSUME TypeInv, TypeInv', SessionInv, [Next]_vars, NEW s \in Sessions, session'[s] # NoSession
        PROVE  /\ from'[s] # Unset
               /\ session'[s].idle <= seen'[s] + Idle
               /\ session'[s].absolute = session'[s].created + Absolute
      BY DEF SessionInv
    <2>1. SessionStep BY SessionsGo
    <2>2. CASE from'[s] = from[s] /\ Untouched(s) BY <2>2 DEF Untouched, SessionInv
    <2>3. CASE from'[s] = from[s] /\ Found(s) BY <2>3 DEF Found, SessionInv
    <2>4. CASE Made(s)
      <3>1. now \in Nat /\ Idle \in Nat BY Windows, SMT DEF TypeInv
      <3>2. session'[s] = [created |-> now, idle |-> now + Idle, absolute |-> now + Absolute] BY <2>4 DEF Made
      <3> QED BY <2>4, <3>1, <3>2 DEF Made
    <2> QED BY <2>1, <2>2, <2>3, <2>4 DEF SessionStep, Deleted
  <1> QED BY <1>1, <1>2, TypesKept, PTL DEF Spec

\* A session that ended is not brought back: a check in flight slides only a row
\* it finds (auth_session_check, EndedStays).
THEOREM EndedStaysEnded == Spec => EndedStays
  <1>1. TypeInv /\ [Next]_vars => \A s \in Sessions : from[s] # Unset /\ s \notin LiveSessions => session'[s] = NoSession
    BY SessionsGo DEF SessionStep, Untouched, Deleted, Found, Made, LiveSessions
  <1> QED BY <1>1, TypesKept, PTL DEF Spec, EndedStays

\* No look-up finds a session longer after the one before than the idle window of its kind, or
\* past its absolute end, whatever shorter window a look-up has asked with (IdleEnds).
THEOREM IdleSessionsEnd == Spec => IdleEnds
  <1>1. TypeInv /\ SessionInv /\ [Next]_vars =>
          \A s \in LiveSessions : seen'[s] # seen[s] => now < seen[s] + Idle /\ now < session[s].created + Absolute
    <2> SUFFICES ASSUME TypeInv, SessionInv, [Next]_vars, NEW s \in LiveSessions, seen'[s] # seen[s]
        PROVE  now < seen[s] + Idle /\ now < session[s].created + Absolute
      OBVIOUS
    <2>1. s \in Sessions /\ session[s] # NoSession BY DEF LiveSessions
    <2>2. Found(s) BY <2>1, SessionsGo DEF SessionStep, Untouched, Deleted, Made, SessionInv
    <2>3. ~(session[s].idle <= now) /\ ~(session[s].absolute <= now) BY <2>2 DEF Found, Expired
    <2>4. /\ session[s].idle \in Nat /\ session[s].absolute \in Nat /\ session[s].created \in Nat
          /\ now \in Nat /\ seen[s] \in Nat /\ Idle \in Nat /\ Absolute \in Nat
      BY <2>1, Windows, SMT DEF TypeInv, SessionRow
    <2> QED BY <2>1, <2>3, <2>4, SMT DEF SessionInv
  <1> QED BY <1>1, TypesKept, SessionsKept, PTL DEF Spec, IdleEnds

-----------------------------------------------------------------------------
(* The old address is out                                                   *)

\* What is not the address's own has been crossed by the change of it: the rows by way of
\* their calls, the calls themselves.
AddressInv ==
  /\ \A t \in Tokens : token[t] # NoToken => to[t] = address \/ t \in raced
  /\ \A s \in Sessions : session[s] # NoSession => to[from[s]] = address \/ {s, from[s]} \cap raced # {}
  /\ \A a \in Asks : ask[a].pc = "issue" => ask[a].address = address \/ ask[a].crossed
  /\ \A r \in Reqs : req[r].pc = "create" =>
       to[req[r].token] = address \/ req[r].token \in raced \/ req[r].crossed

\* A step that leaves the address, and makes no row and no call that is about to make one,
\* but such as it has crossed.
SameAddress ==
  /\ address' = address /\ to' = to /\ raced' = raced
  /\ \A t \in Tokens : token'[t] # NoToken => token[t] # NoToken
  /\ \A s \in Sessions : session'[s] # NoSession => session[s] # NoSession /\ from'[s] = from[s]
  /\ \A a \in Asks : ask'[a].pc = "issue" => ask'[a].crossed \/ ask'[a] = ask[a]
  /\ \A r \in Reqs : req'[r].pc = "create" => req'[r].crossed \/ req'[r] = req[r]

LEMMA SameAddressKeeps ==
  ASSUME AddressInv, SameAddress
  PROVE  AddressInv'
  BY DEF AddressInv, SameAddress

\* After a kill no row is left, and every call in flight is crossed.
LEMMA KilledKeeps ==
  ASSUME TypeInv, Kill, NEW f, f = [r \in Reqs |-> f[r]], \A r \in Reqs : CallOK(f[r]), req' = Cross(f)
  PROVE  AddressInv'
  <1>1. \A a \in Asks : ask'[a].pc # "idle" => ask'[a].crossed
    BY CrossOK DEF Kill, TypeInv
  <1>2. \A r \in Reqs : req'[r].pc # "idle" => req'[r].crossed
    BY CrossOK
  <1> QED BY <1>1, <1>2 DEF Kill, AddressInv

LEMMA AskAddress ==
  ASSUME TypeInv, LinkInv, AddressInv, SessionInv, NEW a \in Asks, Asking(a)
  PROVE  AddressInv'
  <1> USE DEF history
  <1>1. CASE LookUp(a)
    <2>1. ask'[a].address = address /\ \A x \in Asks \ {a} : ask'[x] = ask[x]
      BY <1>1 DEF LookUp, TypeInv, None
    <2> QED BY <1>1, <2>1 DEF LookUp, AddressInv
  <1>2. ASSUME NEW t \in Tokens, Issue(a, t) PROVE AddressInv'
    <2>1. ask[a].address = address \/ ask[a].crossed BY <1>2 DEF Issue, AddressInv
    <2>2. raced \subseteq raced' /\ (ask[a].crossed => t \in raced') BY <1>2 DEF Issue
    <2>3. to'[t] = ask[a].address /\ \A u \in Tokens \ {t} : to'[u] = to[u]
      BY <1>2 DEF Issue, TypeInv
    <2>4. \A u \in Tokens \ {t} : token'[u] # NoToken => token[u] # NoToken
      BY <1>2, IssuedRows DEF Issue
    <2>5. \A s \in Sessions : session[s] # NoSession => from[s] \in Tokens \ {t}
      BY <1>2 DEF Issue, SessionInv, LinkInv, Spent, TypeInv
    <2>6. \A r \in Reqs : req[r].pc = "create" => req[r].token \in Tokens \ {t}
      BY <1>2 DEF Issue, LinkInv, Spent, TypeInv, CallOK
    <2>7. \A x \in Asks : ask'[x].pc = "issue" => ask'[x] = ask[x]
      BY <1>2 DEF Issue, TypeInv, CallOK, Call
    <2>8. UNCHANGED <<address, session, from, req>> BY <1>2 DEF Issue
    <2>9. \A u \in Tokens : token'[u] # NoToken => to'[u] = address' \/ u \in raced'
      BY <2>1, <2>2, <2>3, <2>4, <2>8 DEF AddressInv
    <2>10. \A s \in Sessions : session'[s] # NoSession => to'[from'[s]] = address' \/ {s, from'[s]} \cap raced' # {}
      <3> SUFFICES ASSUME NEW s \in Sessions, session[s] # NoSession
                   PROVE  to'[from[s]] = address \/ s \in raced' \/ from[s] \in raced'
        BY <2>8
      <3> QED BY <2>2, <2>3, <2>5 DEF AddressInv
    <2>11. \A r \in Reqs : req'[r].pc = "create" =>
             to'[req'[r].token] = address' \/ req'[r].token \in raced' \/ req'[r].crossed
      BY <2>2, <2>3, <2>6, <2>8 DEF AddressInv
    <2>12. \A x \in Asks : ask'[x].pc = "issue" => ask'[x].address = address' \/ ask'[x].crossed
      BY <2>7, <2>8 DEF AddressInv
    <2> QED BY <2>9, <2>10, <2>11, <2>12 DEF AddressInv
  <1>3. CASE IssueRaises(a) \/ Mail(a) \/ AskCrash(a)
    <2>1. \A x \in Asks : ask'[x].pc = "issue" => ask'[x] = ask[x]
      BY <1>3, NoneOK DEF IssueRaises, Mail, AskCrash, TypeInv
    <2> QED BY <1>3, <2>1, SameAddressKeeps DEF IssueRaises, Mail, AskCrash, SameAddress
  <1> QED BY <1>1, <1>2, <1>3 DEF Asking

LEMMA ReqAddress ==
  ASSUME TypeInv, LinkInv, AddressInv, NEW r \in Reqs, Serve(r)
  PROVE  AddressInv'
  <1> USE DEF history
  <1>0. CallOK(req[r]) BY DEF TypeInv
  <1>1. ASSUME NEW t \in Tokens, Verify(r, t) PROVE AddressInv'
    <2>1. to[t] = address \/ t \in raced BY <1>1 DEF Verify, Consumable, AddressInv
    <2>2. req'[r].token = t /\ \A q \in Reqs \ {r} : req'[q] = req[q]
      BY <1>1 DEF Verify, None, TypeInv
    <2>3. \A u \in Tokens : token'[u] # NoToken => token[u] # NoToken
      BY <1>1, ConsumedRows DEF Verify, Consumable
    <2> QED BY <1>1, <2>1, <2>2, <2>3 DEF Verify, AddressInv
  <1>2. ASSUME NEW s \in Sessions, Create(r, s) PROVE AddressInv'
    <2>1. to[req[r].token] = address \/ req[r].token \in raced \/ req[r].crossed
      BY <1>2 DEF Create, AddressInv
    <2>2. raced \subseteq raced' /\ (req[r].crossed => s \in raced') BY <1>2 DEF Create
    <2>3. from'[s] = req[r].token /\ \A u \in Sessions \ {s} : from'[u] = from[u]
      BY <1>2 DEF Create, TypeInv
    <2>4. \A u \in Sessions \ {s} : session'[u] # NoSession => session[u] # NoSession
      BY <1>2, AfterCreateRows DEF Create
    <2>5. \A q \in Reqs : req'[q].pc = "create" => req'[q] = req[q]
      BY <1>2, NoneOK DEF Create, Done, TypeInv
    <2>6. UNCHANGED <<address, token, ask, to>> BY <1>2 DEF Create
    <2>7. \A u \in Sessions : session'[u] # NoSession => to'[from'[u]] = address' \/ {u, from'[u]} \cap raced' # {}
      <3> SUFFICES ASSUME NEW u \in Sessions, session'[u] # NoSession
                   PROVE  to[from'[u]] = address \/ u \in raced' \/ from'[u] \in raced'
        BY <2>6
      <3>1. CASE u = s BY <2>1, <2>2, <2>3, <3>1
      <3>2. CASE u # s BY <2>2, <2>3, <2>4, <3>2 DEF AddressInv
      <3> QED BY <3>1, <3>2
    <2>8. \A q \in Reqs : req'[q].pc = "create" =>
            to'[req'[q].token] = address' \/ req'[q].token \in raced' \/ req'[q].crossed
      BY <2>2, <2>5, <2>6 DEF AddressInv
    <2> QED BY <2>2, <2>6, <2>7, <2>8 DEF AddressInv
  <1>3. SameAddress \/ AddressInv' \/ (\E t \in Tokens : Verify(r, t)) \/ (\E s \in Sessions : Create(r, s))
    <2>1. ASSUME NEW c, c.pc # "create", req' = [req EXCEPT ![r] = c], UNCHANGED <<address, token, ask, to, from, raced>>,
                 \A s \in Sessions : session'[s] # NoSession => session[s] # NoSession
          PROVE  SameAddress
      BY <2>1 DEF SameAddress, TypeInv
    <2>2. ASSUME NEW s \in Sessions, NEW window \in {ShortIdle, Idle}, NEW next, next.pc # "create", LookAt(r, s, window, next)
          PROVE  SameAddress
      <3>1. \A u \in Sessions : session'[u] # NoSession => session[u] # NoSession
        BY <2>2, CheckedRows DEF LookAt, LiveSessions
      <3>2. req' = [req EXCEPT ![r] = next] \/ req' = [req EXCEPT ![r] = None] BY <2>2 DEF LookAt, Done
      <3> QED BY <2>1, <2>2, <3>1, <3>2, NoneOK DEF LookAt
    <2>3. ASSUME NEW s \in Sessions, NEW purpose \in Purposes, Present(r, s, purpose) PROVE SameAddress
      <3>1. [None EXCEPT !.pc = "again", !.session = s, !.purpose = purpose].pc = "again" BY DEF None
      <3> QED BY <2>2, <2>3, <3>1 DEF Present
    <2>4. CASE CreateRaises(r) \/ Crash(r)
      BY <2>1, <2>4, NoneOK DEF CreateRaises, Crash, Done
    <2>5. CASE Again(r)
      <3>1. req[r].session \in Sessions BY <1>0, <2>5 DEF Again, CallOK
      <3>2. (IF req[r].purpose = "read" THEN None ELSE [req[r] EXCEPT !.pc = req[r].purpose]).pc # "create"
        <4>1. req[r].purpose \in Purposes /\ req[r] \in Call BY <1>0, <2>5 DEF CallOK, Again
        <4> QED BY <4>1, NoneOK DEF Purposes, Call
      <3> QED BY <2>2, <2>5, <3>1, <3>2 DEF Again
    <2>6. CASE SignOut(r)
      <3>1. \A u \in Sessions : session'[u] # NoSession => session[u] # NoSession BY <2>6 DEF SignOut, TypeInv
      <3> QED BY <2>1, <2>6, <3>1, NoneOK DEF SignOut, Done
    <2>7. CASE SignOutEverywhere(r)
      <3>1. CASE req[r].session \in LiveSessions
        <4> DEFINE f == [req EXCEPT ![r] = None]
        <4>1. f = [x \in Reqs |-> f[x]] /\ \A x \in Reqs : CallOK(f[x]) BY NoneOK DEF TypeInv
        <4>2. Kill /\ req' = Cross(f) BY <2>7, <3>1 DEF SignOutEverywhere
        <4> HIDE DEF f
        <4> QED BY <4>1, <4>2, KilledKeeps
      <3>2. CASE req[r].session \notin LiveSessions
        BY <2>1, <2>7, <3>2, NoneOK DEF SignOutEverywhere, Done
      <3> QED BY <3>1, <3>2
    <2> QED BY <2>3, <2>4, <2>5, <2>6, <2>7 DEF Serve
  <1> QED BY <1>1, <1>2, <1>3, SameAddressKeeps

LEMMA RestAddress ==
  ASSUME TypeInv, LinkInv, AddressInv, SessionInv, Rest
  PROVE  AddressInv'
  <1> USE DEF history
  <1>1. req' = Cross(req) /\ Kill => AddressInv' BY KilledKeeps DEF TypeInv
  <1>2. ASSUME NEW x \in Addresses, Return(x) PROVE AddressInv'
    <2>1. address = Unset /\ Unset \notin Addresses BY <1>2, Windows DEF Return, Exists
    <2>2. \A t \in Tokens : token[t] # NoToken => t \in raced
      BY <2>1 DEF AddressInv, LinkInv
    <2>3. \A s \in Sessions : session[s] # NoSession => {s, from[s]} \cap raced # {}
      BY <2>1 DEF AddressInv, SessionInv, LinkInv, Spent
    <2>4. \A a \in Asks : ask[a].pc = "issue" => ask[a].crossed
      BY <2>1 DEF AddressInv, TypeInv, CallOK
    <2>5. \A r \in Reqs : req[r].pc = "create" => req[r].token \in raced \/ req[r].crossed
      BY <2>1 DEF AddressInv, LinkInv, Spent
    <2> QED BY <1>2, <2>2, <2>3, <2>4, <2>5 DEF Return, AddressInv
  <1>3. CASE Sweep BY <1>3, SameAddressKeeps DEF Sweep, SameAddress
  <1>4. CASE Tick BY <1>4, SameAddressKeeps DEF Tick, SameAddress
  <1> QED BY <1>1, <1>2, <1>3, <1>4 DEF Rest, Change, Revoke

\* Whoever may read the old address holds no link and no session of the principal any more,
\* but for requests the change crossed, however many of each there are (_auth_kill_principal,
\* OldAddressOut).
THEOREM OldAddressHoldsNothing == Spec => []OldAddressOut
  <1>1. Init => AddressInv
    <2> SUFFICES ASSUME Init PROVE AddressInv OBVIOUS
    <2>1. (\A a \in Asks : ask[a].pc = "idle") /\ (\A r \in Reqs : req[r].pc = "idle")
      BY NoneOK DEF Init
    <2> QED BY <2>1 DEF Init, AddressInv
  <1>2. TypeInv /\ LinkInv /\ SessionInv /\ AddressInv /\ [Next]_vars => AddressInv'
    <2> SUFFICES ASSUME TypeInv, LinkInv, SessionInv, AddressInv, [Next]_vars PROVE AddressInv' OBVIOUS
    <2>1. CASE UNCHANGED vars BY <2>1 DEF vars, history, AddressInv
    <2>2. ASSUME NEW a \in Asks, Asking(a) PROVE AddressInv' BY <2>2, AskAddress
    <2>3. ASSUME NEW r \in Reqs, Serve(r) PROVE AddressInv' BY <2>3, ReqAddress
    <2>4. CASE Rest BY <2>4, RestAddress
    <2> QED BY <2>1, <2>2, <2>3, <2>4, Steps
  <1>3. AddressInv => OldAddressOut BY DEF AddressInv, OldAddressOut, LiveTokens, LiveSessions
  <1> QED BY <1>1, <1>2, <1>3, TypesKept, LinksKept, SessionsKept, PTL DEF Spec

-----------------------------------------------------------------------------
(* Subscriber                                                               *)

States == [status : Statuses, price : Prices, end : 0..MaxClock + Period]

\* What happens to a subscription at Stripe.
Moves(s) ==
  \/ Checkout(s) \/ Pay(s) \/ Renew(s) \/ PaymentFails(s) \/ Abandon(s) \/ Cancel(s)
  \/ \E t \in Trials : Trial(s, t)

-----------------------------------------------------------------------------
(* Types                                                                    *)

LEMMA ChangedTyped ==
  ASSUME SubTypeOK, NEW s \in Subs, NEW x \in States, Changed(s, x)
  PROVE  SubTypeOK'
  <1>1. made + 1 \in 1..MaxEvents /\ made' \in 0..MaxEvents
    BY SubscriberAssumption, SMT DEF SubTypeOK, Changed
  <1>2. sub' \in [Subs -> States]
    BY DEF SubTypeOK, Changed, States
  <1>3. events' \subseteq Events
    <2>1. [n |-> made + 1, sub |-> s, deleted |-> x.status = "canceled"] \in Events
      BY <1>1, Zenon DEF Events
    <2> QED BY <2>1 DEF SubTypeOK, Changed
  <1>4. given' \subseteq Subs \X (0..MaxClock + Period)
    <2>1. <<s, x.end>> \in Subs \X (0..MaxClock + Period) BY DEF States
    <2> QED BY <2>1 DEF SubTypeOK, Changed
  <1> QED BY <1>1, <1>2, <1>3, <1>4 DEF SubTypeOK, Changed, States

LEMMA RowOfTyped ==
  ASSUME NEW s \in States
  PROVE  RowOf(s) \in Rows
  <1>1. TierOf(s) \in {"free", "citizen"} BY DEF TierOf
  <1> QED BY <1>1 DEF RowOf, Rows, States

\* A row is typed at every label, and one that a handler fetched is RowOf what it fetched.
LEMMA HandlerTyped ==
  ASSUME SubTypeOK, NEW h \in Handlers, ~At(h, "idle")
  PROVE  /\ handler[h] \in [pc : {"fetch", "upsert"}, event : Events, row : Rows]
         /\ handler[h].event.sub \in Subs /\ handler[h].row \in Rows
  BY DEF SubTypeOK, At, NoHandler, Events

\* A move takes a subscription that is not cancelled to another state it may be in.
LEMMA StripeMoves ==
  ASSUME SubTypeOK, NEW s \in Subs, Moves(s)
  PROVE  /\ sub[s].status # "canceled"
         /\ \E x \in States : x.status # "none" /\ Changed(s, x)
  <1>1. clock + Period \in 0..MaxClock + Period /\ NoEnd \in 0..MaxClock + Period
    BY SubscriberAssumption, SMT DEF SubTypeOK, NoEnd
  <1>2. sub[s] \in States /\ sub[s].end \in 0..MaxClock + Period
    BY DEF SubTypeOK, States
  <1>3. {"incomplete", "active", "trialing", "past_due", "incomplete_expired", "canceled"} \subseteq Statuses \ {"none"}
    BY DEF Statuses
  <1>4. ASSUME NEW status \in Statuses \ {"none"}, NEW end \in 0..MaxClock + Period, Becomes(s, status, end)
        PROVE  \E x \in States : x.status # "none" /\ Changed(s, x)
    <2> DEFINE x == [sub[s] EXCEPT !.status = status, !.end = end]
    <2>1. x \in States /\ x.status # "none" BY <1>2 DEF States
    <2> QED BY <1>4, <2>1 DEF Becomes
  <1>5. CASE Checkout(s) BY <1>1, <1>3, <1>4, <1>5 DEF Checkout
  <1>6. CASE Pay(s) BY <1>1, <1>3, <1>4, <1>6 DEF Pay
  <1>7. CASE Renew(s) BY <1>1, <1>3, <1>4, <1>7 DEF Renew, Due
  <1>8. CASE PaymentFails(s) BY <1>1, <1>3, <1>4, <1>8 DEF PaymentFails, Due
  <1>9. CASE Abandon(s) BY <1>2, <1>3, <1>4, <1>9 DEF Abandon
  <1>10. CASE Cancel(s) BY <1>2, <1>3, <1>4, <1>10 DEF Cancel
  <1>11. ASSUME NEW t \in Trials, Trial(s, t)
         PROVE  sub[s].status # "canceled" /\ \E x \in States : x.status # "none" /\ Changed(s, x)
    <2> DEFINE x == [status |-> "trialing", price |-> t.price, end |-> IF t.dated THEN clock + Period ELSE NoEnd]
    <2>1. t.price \in Prices BY SubscriberAssumption
    <2>2. x \in States /\ x.status # "none" BY <1>1, <1>3, <2>1 DEF States
    <2> QED BY <1>11, <2>2 DEF Trial
  <1> QED BY <1>5, <1>6, <1>7, <1>8, <1>9, <1>10, <1>11 DEF Moves

LEMMA FailTyped ==
  ASSUME SubTypeOK, Fault
  PROVE  failures' \in 0..MaxFailures
  BY SubscriberAssumption, SMT DEF SubTypeOK, Fault

LEMMA HandlerStepTyped ==
  ASSUME SubTypeOK, NEW h \in Handlers,
         Handle(h) \/ FetchFails(h) \/ UpsertFails(h) \/ HandlerCrash(h)
  PROVE  SubTypeOK'
  <1>1. CASE \E e \in events : Deliver(h, e)
    <2>1. Cancelled \in Rows BY SubscriberAssumption, SMT DEF Cancelled, Rows, NoEnd
    <2> QED BY <1>1, <2>1 DEF SubTypeOK, Deliver, stripe
  <1>2. CASE Fetch(h)
    <2>1. ~At(h, "idle") BY <1>2 DEF Fetch, At
    <2>2. RowOf(sub[handler[h].event.sub]) \in Rows
      BY <2>1, HandlerTyped, RowOfTyped DEF SubTypeOK, States
    <2>3. handler'[h] \in [pc : {"fetch", "upsert"}, event : Events, row : Rows]
      BY <1>2, <2>1, <2>2, HandlerTyped DEF Fetch, SubTypeOK
    <2> QED BY <1>2, <2>3 DEF SubTypeOK, Fetch, stripe
  <1>3. CASE Upsert(h)
    BY <1>3, HandlerTyped DEF SubTypeOK, Upsert, End, At
  <1>4. CASE FetchFails(h)
    BY <1>4, FailTyped DEF SubTypeOK, FetchFails, End, stripe
  <1>5. CASE UpsertFails(h)
    <2>1. row' \in Rows BY <1>5, HandlerTyped DEF UpsertFails, At, SubTypeOK
    <2> QED BY <1>5, <2>1, FailTyped DEF SubTypeOK, UpsertFails, End, stripe
  <1>6. CASE HandlerCrash(h)
    BY <1>6, FailTyped DEF SubTypeOK, HandlerCrash, End, stripe
  <1> QED BY <1>1, <1>2, <1>3, <1>4, <1>5, <1>6 DEF Handle

\* The row, the events and the handlers keep their types (SubTypeOK).
THEOREM TypeCorrect == SubSpec => []SubTypeOK
  <1>1. SubInit => SubTypeOK
    <2> SUFFICES ASSUME SubInit PROVE SubTypeOK OBVIOUS
    <2>1. /\ 1 \in 1..MaxClock /\ 0 \in 0..MaxClock + Period /\ 0 \in 0..MaxEvents
          /\ 0 \in 0..MaxFailures
      BY SubscriberAssumption, SMT
    <2>2. NoRow \in Rows BY <2>1 DEF NoRow, NoEnd, Rows
    <2> QED BY <2>1, <2>2 DEF SubInit, SubTypeOK, Statuses, Prices, NoEnd
  <1>2. SubTypeOK /\ [SubNext]_subVars => SubTypeOK'
    <2> SUFFICES ASSUME SubTypeOK, [SubNext]_subVars PROVE SubTypeOK' OBVIOUS
    <2>1. ASSUME NEW s \in Subs, Moves(s) PROVE SubTypeOK'
      BY <2>1, StripeMoves, ChangedTyped
    <2>2. ASSUME NEW h \in Handlers, Handle(h) \/ FetchFails(h) \/ UpsertFails(h) \/ HandlerCrash(h)
          PROVE  SubTypeOK'
      BY <2>2, HandlerStepTyped
    <2>3. CASE Elapse
      <3>1. clock' \in 1..MaxClock BY <2>3, SubscriberAssumption, SMT DEF Elapse, SubTypeOK
      <3> QED BY <2>3, <3>1 DEF Elapse, SubTypeOK, stripe
    <2>4. CASE UNCHANGED subVars
      BY <2>4 DEF subVars, stripe, SubTypeOK
    <2> QED BY <2>1, <2>2, <2>3, <2>4 DEF SubNext, Moves
  <1> QED BY <1>1, <1>2, PTL DEF SubSpec

-----------------------------------------------------------------------------
(* The row settles                                                          *)

\* What r says of s is what Stripe says of it now.
Says(r, s) == r.status = RowOf(sub[s]).status /\ (r.status = "active" => r.tier = TierOf(sub[s]) /\ r.end = sub[s].end)

\* A row that is out of date, written or about to be, leaves an event to be handled after it.
Settling(s) ==
  /\ Says(row, s) \/ events # {}
  /\ \A h \in Handlers :
       handler[h].pc = "upsert" => Says(handler[h].row, s) \/ events \ {handler[h].event} # {}

\* An event is of a subscription there is, and a deletion is the last of its.
Known(e, m, b) == e.n <= m /\ b[e.sub].status # "none" /\ (e.deleted => b[e.sub].status = "canceled")

OneAtATime == \A g, h \in Handlers : ~At(g, "idle") /\ ~At(h, "idle") => g = h

SettleInv ==
  /\ \A e \in events : Known(e, made, sub)
  /\ \A h \in Handlers : ~At(h, "idle") => Known(handler[h].event, made, sub)
  /\ ~overlap => OneAtATime /\ \A s \in Subs : Held = {s} => Settling(s)

\* The event of a change is in nobody's hands yet, so whatever a handler writes, it remains.
LEMMA ChangedSettles ==
  ASSUME SubTypeOK, SettleInv, NEW s \in Subs, sub[s].status # "canceled",
         NEW x, x.status # "none", Changed(s, x)
  PROVE  SettleInv'
  <1>1. PICK e : e = [n |-> made + 1, sub |-> s, deleted |-> x.status = "canceled"] OBVIOUS
  <1>2. e.n = made + 1 /\ e.sub = s /\ (e.deleted => x.status = "canceled") BY <1>1
  <1>3. /\ events' = events \cup {e} /\ made' = made + 1 /\ made \in Nat
        /\ row' = row /\ handler' = handler /\ overlap' = overlap
    BY <1>1 DEF Changed, SubTypeOK
  <1>4. /\ sub'[s].status = x.status
        /\ \A u \in Subs \ {s} : sub'[u] = sub[u]
    BY DEF Changed, SubTypeOK
  <1>5. ASSUME NEW d, d \in Events, Known(d, made, sub) PROVE Known(d, made', sub') /\ d # e
    <2>1. d.n \in Nat /\ d.sub \in Subs BY <1>5 DEF Events
    <2>2. d.n <= made' /\ d # e BY <1>2, <1>3, <1>5, <2>1 DEF Known
    <2>3. sub'[d.sub].status # "none" /\ (d.deleted => sub'[d.sub].status = "canceled")
      BY <1>4, <1>5, <2>1 DEF Known
    <2> QED BY <2>2, <2>3 DEF Known
  <1>6. Known(e, made', sub')
    <2>1. e.n <= made' BY <1>2, <1>3
    <2> QED BY <1>2, <1>4, <2>1 DEF Known
  <1>7. \A d \in events' : Known(d, made', sub') BY <1>3, <1>5, <1>6 DEF SettleInv, SubTypeOK
  <1>8. ASSUME NEW h \in Handlers, ~At(h, "idle") PROVE Known(handler[h].event, made', sub') /\ handler[h].event # e
    <2>1. handler[h].event \in Events BY <1>8, HandlerTyped
    <2>2. Known(handler[h].event, made, sub) BY <1>8 DEF SettleInv
    <2> QED BY <1>5, <2>1, <2>2
  <1>9. \A u \in Subs : Settling(u)' BY <1>3, <1>8 DEF Settling, At
  <1>10. \A h \in Handlers : handler'[h].pc # "idle" => Known(handler'[h].event, made', sub') BY <1>3, <1>8 DEF At
  <1>11. OneAtATime => OneAtATime' BY <1>3 DEF OneAtATime, At
  <1> QED BY <1>3, <1>7, <1>9, <1>10, <1>11 DEF SettleInv, At

\* The one subscription is what an event is of.
LEMMA KnownHeld ==
  ASSUME NEW s \in Subs, Held = {s}, NEW e \in Events, Known(e, made, sub)
  PROVE  e.sub = s /\ sub[s].status # "none" /\ (e.deleted => Says(Cancelled, s)) /\ Says(RowOf(sub[s]), s)
  <1>1. e.sub \in Subs BY DEF Events
  <1>2. e.sub = s /\ sub[s].status # "none" BY <1>1 DEF Known, Held
  <1>3. e.deleted => Says(Cancelled, s) BY <1>2 DEF Known, Says, Cancelled, RowOf
  <1>4. Says(RowOf(sub[s]), s) BY DEF Says, RowOf
  <1> QED BY <1>2, <1>3, <1>4

LEMMA HandlerSettles ==
  ASSUME SubTypeOK, SettleInv, NEW h \in Handlers, Handle(h) \/ FetchFails(h) \/ UpsertFails(h) \/ HandlerCrash(h)
  PROVE  SettleInv'
  <1>1. \A e : Known(e, made, sub) => Known(e, made', sub')
    BY DEF Handle, Deliver, Fetch, Upsert, FetchFails, UpsertFails, HandlerCrash, stripe, Known
  <1>2. sub' = sub /\ events' \subseteq events /\ Held' = Held
    BY DEF Handle, Deliver, Fetch, Upsert, FetchFails, UpsertFails, HandlerCrash, stripe, Held
  <1>3. \A e \in events' : Known(e, made', sub') BY <1>1, <1>2 DEF SettleInv
  <1>4. \A g \in Handlers \ {h} : handler'[g] = handler[g]
    BY DEF Handle, Deliver, Fetch, Upsert, FetchFails, UpsertFails, HandlerCrash, End, SubTypeOK
  <1>5. overlap \in BOOLEAN /\ overlap' \in BOOLEAN /\ (overlap => overlap')
    BY DEF Handle, Deliver, Fetch, Upsert, FetchFails, UpsertFails, HandlerCrash, SubTypeOK
  <1>6. ~At(h, "idle") => handler[h].event \in Events /\ Known(handler[h].event, made, sub) /\ handler[h].event.sub \in Subs
    <2>1. ASSUME ~At(h, "idle") PROVE handler[h].event \in Events BY <2>1, HandlerTyped
    <2> QED BY <2>1, HandlerTyped DEF SettleInv
  <1>7. CASE \E e \in events : Deliver(h, e)
    <2>1. PICK e \in events : Deliver(h, e) BY <1>7
    <2>2. /\ handler'[h] = [pc |-> IF e.deleted THEN "upsert" ELSE "fetch", event |-> e, row |-> Cancelled]
          /\ row' = row /\ events' = events
      BY <2>1 DEF Deliver, SubTypeOK, stripe
    <2>3. handler'[h].event = e /\ handler'[h].row = Cancelled /\ (handler'[h].pc = "upsert" => e.deleted)
      BY <2>2
    <2>4. e \in Events /\ Known(e, made, sub) BY DEF SettleInv, SubTypeOK
    <2>5. \A g \in Handlers : handler'[g].pc # "idle" => Known(handler'[g].event, made', sub')
      BY <1>1, <1>4, <2>3, <2>4 DEF SettleInv, At
    <2>6. ASSUME ~overlap' PROVE OneAtATime'
      <3>1. \A g \in Handlers \ {h} : At(g, "idle") BY <2>1, <2>6 DEF Deliver
      <3> QED BY <1>4, <3>1 DEF OneAtATime, At
    <2>7. ASSUME ~overlap', NEW s \in Subs, Held = {s} PROVE Settling(s)'
      <3>1. Settling(s) BY <1>5, <2>7 DEF SettleInv
      <3>2. e.deleted => Says(Cancelled, s) BY <2>4, <2>7, KnownHeld
      <3>3. \A r : Says(r, s) <=> Says(r, s)' BY <1>2 DEF Says
      <3> QED BY <1>4, <2>2, <2>3, <3>1, <3>2, <3>3 DEF Settling, Says
    <2> QED BY <1>2, <1>3, <2>5, <2>6, <2>7 DEF SettleInv, At
  <1>8. CASE Fetch(h)
    <2>1. ~At(h, "idle") BY <1>8 DEF Fetch, At
    <2>2. /\ handler'[h].event = handler[h].event /\ handler'[h].row = RowOf(sub[handler[h].event.sub])
          /\ row' = row /\ events' = events /\ overlap' = overlap
      BY <1>8, <2>1, HandlerTyped DEF Fetch, SubTypeOK, stripe
    <2>3. \A g \in Handlers : handler'[g].pc # "idle" => Known(handler'[g].event, made', sub')
      BY <1>1, <1>4, <1>6, <2>1, <2>2 DEF SettleInv, At
    <2>4. ASSUME ~overlap' PROVE OneAtATime'
      BY <1>4, <2>1, <2>2, <2>4 DEF SettleInv, OneAtATime, At
    <2>5. ASSUME ~overlap', NEW s \in Subs, Held = {s} PROVE Settling(s)'
      <3>1. Settling(s) BY <1>5, <2>5 DEF SettleInv
      <3>2. handler[h].event.sub = s /\ Says(RowOf(sub[s]), s) BY <1>6, <2>1, <2>5, KnownHeld
      <3> QED BY <1>2, <1>4, <2>2, <3>1, <3>2 DEF Settling, Says
    <2> QED BY <1>2, <1>3, <2>3, <2>4, <2>5 DEF SettleInv, At
  <1>9. CASE Upsert(h) \/ FetchFails(h) \/ UpsertFails(h) \/ HandlerCrash(h)
    <2>1. ~At(h, "idle") /\ handler'[h] = NoHandler /\ overlap' = overlap
      BY <1>9 DEF Upsert, FetchFails, UpsertFails, HandlerCrash, End, At, SubTypeOK
    <2>2. /\ handler'[h].pc = "idle"
          /\ \/ row' = row /\ events' = events
             \/ /\ row' = handler[h].row /\ handler[h].pc = "upsert"
                /\ events \ {handler[h].event} \subseteq events'
      BY <1>9, <2>1 DEF Upsert, FetchFails, UpsertFails, HandlerCrash, At, NoHandler, stripe
    <2>3. \A g \in Handlers : handler'[g].pc # "idle" => Known(handler'[g].event, made', sub')
      BY <1>1, <1>4, <2>2 DEF SettleInv, At
    <2>4. ASSUME ~overlap' PROVE OneAtATime' /\ \A g \in Handlers : handler'[g].pc = "idle"
      <3>1. OneAtATime BY <2>1, <2>4 DEF SettleInv
      <3>2. \A g \in Handlers : handler'[g].pc = "idle" BY <1>4, <2>1, <2>2, <3>1 DEF OneAtATime, At
      <3> QED BY <3>2 DEF OneAtATime, At
    <2>5. ASSUME ~overlap', NEW s \in Subs, Held = {s} PROVE Settling(s)'
      <3>1. Settling(s) BY <1>5, <2>5 DEF SettleInv
      <3>2. Says(row', s) \/ events' # {} BY <2>2, <3>1 DEF Settling
      <3> QED BY <1>2, <2>4, <2>5, <3>2 DEF Settling, Says
    <2> QED BY <1>2, <1>3, <2>3, <2>4, <2>5 DEF SettleInv, At
  <1> QED BY <1>7, <1>8, <1>9 DEF Handle

LEMMA SettleKept == SubSpec => []SettleInv
  <1>1. SubInit => SettleInv
    <2>1. SUFFICES ASSUME SubInit PROVE SettleInv OBVIOUS
    <2>2. Held = {} /\ events = {} /\ \A h \in Handlers : At(h, "idle") BY <2>1 DEF SubInit, Held, At, NoHandler
    <2> QED BY <2>2 DEF SettleInv, OneAtATime
  <1>2. SubTypeOK /\ SettleInv /\ [SubNext]_subVars => SettleInv'
    <2> SUFFICES ASSUME SubTypeOK, SettleInv, [SubNext]_subVars PROVE SettleInv' OBVIOUS
    <2>1. ASSUME NEW s \in Subs, Moves(s) PROVE SettleInv'
      BY <2>1, StripeMoves, ChangedSettles
    <2>2. ASSUME NEW h \in Handlers, Handle(h) \/ FetchFails(h) \/ UpsertFails(h) \/ HandlerCrash(h)
          PROVE  SettleInv'
      BY <2>2, HandlerSettles
    <2>3. CASE Elapse \/ UNCHANGED subVars
      <3>1. UNCHANGED <<sub, events, made, row, handler, overlap>> BY <2>3 DEF Elapse, subVars, stripe
      <3> QED BY <3>1 DEF SettleInv, OneAtATime, Settling, Says, Known, Held, At
    <2> QED BY <2>1, <2>2, <2>3 DEF SubNext, Moves
  <1> QED BY TypeCorrect, <1>1, <1>2, PTL DEF SubSpec

\* For a customer of one subscription the row ends up saying what Stripe says, however many
\* events there were, in whatever order and however often each was delivered, and whatever
\* failed, as long as no two were handled at the same time (SettlesCurrent).
THEOREM RowSettles == SubSpec => []SettlesCurrent
  <1>1. SettleInv => SettlesCurrent
    <2>1. SUFFICES ASSUME SettleInv, Quiet, ~overlap, NEW s \in Subs, Held = {s}
                   PROVE  /\ row.status = RowOf(sub[s]).status
                          /\ Entitled <=> Opens(sub[s]) /\ sub[s].end > clock
      BY DEF SettlesCurrent
    <2>2. Says(row, s) BY <2>1 DEF SettleInv, Settling, Quiet
    <2>3. row.status = "active" <=> sub[s].status \in {"active", "trialing"} BY <2>2 DEF Says, RowOf
    <2> QED BY <2>2, <2>3 DEF Says, Entitled, Opens, TierOf
  <1> QED BY SettleKept, <1>1, PTL

-----------------------------------------------------------------------------
(* What opens the tier                                                      *)

\* r opens the tier for a period that was given (g), and if its subscription has changed
\* since then (b) one of the events E says so, or else two handlers have overlapped (o).
Backed(r, E, b, g, o) ==
  r.tier = "citizen" /\ r.status = "active" =>
    \E s \in Subs :
      /\ <<s, r.end>> \in g
      /\ o \/ (Opens(b[s]) /\ b[s].end = r.end) \/ \E e \in E : e.sub = s

\* The row, and what a handler is about to write over it once its own event is answered:
\* the row alone is not inductive, as it is written from what was read a while before.
BackInv ==
  /\ \A s \in Subs : Opens(sub[s]) => <<s, sub[s].end>> \in given
  /\ Backed(row, events, sub, given, overlap)
  /\ \A h \in Handlers : handler[h].pc = "upsert" =>
       Backed(handler[h].row, events \ {handler[h].event}, sub, given, overlap)

\* The event of a change is none that a handler holds.
LEMMA ChangedBacks ==
  ASSUME SubTypeOK, SettleInv, BackInv, NEW s \in Subs, NEW x, Changed(s, x)
  PROVE  BackInv'
  <1>1. PICK e : e = [n |-> made + 1, sub |-> s, deleted |-> x.status = "canceled"] OBVIOUS
  <1>2. /\ e.n = made + 1 /\ e.sub = s /\ events' = events \cup {e} /\ made \in Nat
        /\ row' = row /\ handler' = handler /\ overlap' = overlap /\ given \subseteq given'
    BY <1>1 DEF Changed, SubTypeOK
  <1>3. sub'[s] = x /\ \A u \in Subs \ {s} : sub'[u] = sub[u]
    BY DEF Changed, SubTypeOK
  <1>4. Opens(x) => <<s, x.end>> \in given' BY DEF Changed
  <1>5. \A r, E : Backed(r, E, sub, given, overlap) => Backed(r, E \cup {e}, sub', given', overlap')
    BY <1>2, <1>3 DEF Backed
  <1>6. ASSUME NEW h \in Handlers, handler[h].pc = "upsert" PROVE handler[h].event # e
    <2>1. handler[h].event \in Events /\ Known(handler[h].event, made, sub)
      BY <1>6, HandlerTyped DEF SettleInv, At
    <2>2. handler[h].event.n <= made /\ handler[h].event.n \in Nat BY <2>1 DEF Known, Events
    <2> QED BY <1>2, <2>2
  <1>7. \A u \in Subs : Opens(sub'[u]) => <<u, sub'[u].end>> \in given'
    BY <1>2, <1>3, <1>4 DEF BackInv
  <1>8. Backed(row', events', sub', given', overlap') BY <1>2, <1>5 DEF BackInv
  <1>9. ASSUME NEW h \in Handlers, handler'[h].pc = "upsert"
        PROVE  Backed(handler'[h].row, events' \ {handler'[h].event}, sub', given', overlap')
    <2>1. Backed(handler[h].row, events \ {handler[h].event}, sub, given, overlap) BY <1>2, <1>9 DEF BackInv
    <2>2. events' \ {handler'[h].event} = (events \ {handler[h].event}) \cup {e} BY <1>2, <1>6, <1>9
    <2> QED BY <1>2, <1>5, <2>1, <2>2
  <1> QED BY <1>7, <1>8, <1>9 DEF BackInv

\* Another handler that holds a row when this one answers its event has overlapped with it.
LEMMA HandlerBacks ==
  ASSUME SubTypeOK, SettleInv, BackInv, NEW h \in Handlers, Handle(h) \/ FetchFails(h) \/ UpsertFails(h) \/ HandlerCrash(h)
  PROVE  BackInv'
  <1>1. sub' = sub /\ given' = given /\ overlap \in BOOLEAN /\ overlap' \in BOOLEAN /\ (overlap => overlap')
    BY DEF Handle, Deliver, Fetch, Upsert, FetchFails, UpsertFails, HandlerCrash, stripe, SubTypeOK
  <1>2. \A g \in Handlers \ {h} : handler'[g] = handler[g]
    BY DEF Handle, Deliver, Fetch, Upsert, FetchFails, UpsertFails, HandlerCrash, End, SubTypeOK
  <1>3. \A r, E, F : Backed(r, E, sub, given, overlap) /\ (E \subseteq F \/ overlap')
                       => Backed(r, F, sub', given', overlap')
    BY <1>1 DEF Backed
  <1>4. \A u \in Subs : Opens(sub'[u]) => <<u, sub'[u].end>> \in given' BY <1>1 DEF BackInv
  <1>5. \A E : Backed(Cancelled, E, sub', given', overlap') BY DEF Backed, Cancelled
  <1>6. CASE \E e \in events : Deliver(h, e)
    <2>1. row' = row /\ events' = events /\ handler'[h].row = Cancelled
      BY <1>6 DEF Deliver, SubTypeOK, stripe
    <2>2. Backed(row', events', sub', given', overlap') BY <1>3, <2>1 DEF BackInv
    <2>3. ASSUME NEW g \in Handlers, handler'[g].pc = "upsert"
          PROVE  Backed(handler'[g].row, events' \ {handler'[g].event}, sub', given', overlap')
      <3>1. CASE g = h BY <1>5, <2>1, <3>1
      <3>2. CASE g # h BY <1>2, <1>3, <2>1, <2>3, <3>2 DEF BackInv
      <3> QED BY <3>1, <3>2
    <2> QED BY <1>4, <2>2, <2>3 DEF BackInv
  <1>7. CASE Fetch(h)
    <2>1. ~At(h, "idle") BY <1>7 DEF Fetch, At
    <2>2. /\ row' = row /\ events' = events
          /\ handler'[h].row = RowOf(sub[handler[h].event.sub]) /\ handler[h].event.sub \in Subs
      BY <1>7, <2>1, HandlerTyped DEF Fetch, SubTypeOK, stripe
    <2>3. \A u \in Subs : \A E : Backed(RowOf(sub[u]), E, sub', given', overlap')
      <3>1. \A u \in Subs : RowOf(sub[u]).tier = "citizen" /\ RowOf(sub[u]).status = "active"
                              => Opens(sub[u]) /\ RowOf(sub[u]).end = sub[u].end
        BY DEF RowOf, TierOf, Opens
      <3> QED BY <1>1, <1>4, <3>1 DEF Backed
    <2>4. Backed(row', events', sub', given', overlap') BY <1>3, <2>2 DEF BackInv
    <2>5. ASSUME NEW g \in Handlers, handler'[g].pc = "upsert"
          PROVE  Backed(handler'[g].row, events' \ {handler'[g].event}, sub', given', overlap')
      <3>1. CASE g = h BY <2>2, <2>3, <3>1
      <3>2. CASE g # h BY <1>2, <1>3, <2>2, <2>5, <3>2 DEF BackInv
      <3> QED BY <3>1, <3>2
    <2> QED BY <1>4, <2>4, <2>5 DEF BackInv
  <1>8. CASE Upsert(h) \/ FetchFails(h) \/ UpsertFails(h) \/ HandlerCrash(h)
    <2>1. ~At(h, "idle") /\ handler'[h].pc = "idle" /\ overlap' = overlap
      BY <1>8 DEF Upsert, FetchFails, UpsertFails, HandlerCrash, End, At, SubTypeOK, NoHandler
    <2>2. \/ row' = row /\ events' = events
          \/ /\ handler[h].pc = "upsert" /\ row' = handler[h].row
             /\ events \ {handler[h].event} \subseteq events'
      BY <1>8 DEF Upsert, FetchFails, UpsertFails, HandlerCrash, At, stripe
    <2>3. Backed(row', events', sub', given', overlap') BY <1>3, <2>2 DEF BackInv
    <2>4. ASSUME NEW g \in Handlers, handler'[g].pc = "upsert"
          PROVE  Backed(handler'[g].row, events' \ {handler'[g].event}, sub', given', overlap')
      <3>1. g # h BY <2>1, <2>4
      <3>2. handler'[g] = handler[g] /\ ~At(g, "idle") BY <1>2, <2>4, <3>1 DEF At
      <3>3. overlap' BY <1>1, <2>1, <3>1, <3>2 DEF SettleInv, OneAtATime
      <3> QED BY <1>3, <2>4, <3>2, <3>3 DEF BackInv
    <2> QED BY <1>4, <2>3, <2>4 DEF BackInv
  <1> QED BY <1>6, <1>7, <1>8 DEF Handle

\* Whatever the order, the number and the fate of the deliveries, the Citizen tier is open
\* only to the end of a period on a Citizen price, and not once the subscription has changed
\* unless an event still to be answered says so (handlers/stripe_sub.js, OpenIsBacked).
THEOREM TierIsBacked == SubSpec => []OpenIsBacked
  <1>1. SubInit => BackInv
    BY DEF SubInit, BackInv, Backed, Opens, NoRow, NoHandler
  <1>2. SubTypeOK /\ SettleInv /\ BackInv /\ [SubNext]_subVars => BackInv'
    <2> SUFFICES ASSUME SubTypeOK, SettleInv, BackInv, [SubNext]_subVars PROVE BackInv' OBVIOUS
    <2>1. ASSUME NEW s \in Subs, Moves(s) PROVE BackInv'
      BY <2>1, StripeMoves, ChangedBacks
    <2>2. ASSUME NEW h \in Handlers, Handle(h) \/ FetchFails(h) \/ UpsertFails(h) \/ HandlerCrash(h)
          PROVE  BackInv'
      BY <2>2, HandlerBacks
    <2>3. CASE Elapse \/ UNCHANGED subVars
      <3>1. UNCHANGED <<sub, events, given, row, handler, overlap>> BY <2>3 DEF Elapse, subVars, stripe
      <3> QED BY <3>1 DEF BackInv
    <2> QED BY <2>1, <2>2, <2>3 DEF SubNext, Moves
  <1>3. BackInv => OpenIsBacked
    BY DEF BackInv, Backed, OpenIsBacked, Entitled
  <1> QED BY TypeCorrect, SettleKept, <1>1, <1>2, <1>3, PTL DEF SubSpec
=============================================================================
