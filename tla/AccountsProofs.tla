---------------------------- MODULE AccountsProofs ----------------------------
(***************************************************************************)
(* Proofs about Accounts: sessions die with the password they were made    *)
(* with, and the limiter's bound holds for any number of requests served   *)
(* at once, of operators and of clients.                                   *)
(***************************************************************************)
EXTENDS Accounts, FiniteSetTheorems, TLAPS

USE AccountsAssumption

(* Tokens are handed out once, and a client's failures are finitely many.  *)
TypeInv ==
  /\ TypeOK
  /\ \A s \in sessions : s.token <= logins
  /\ \A c \in Client : IsFiniteSet(attempts[c])

(* What nobody is served by, and a command that is not run.                *)
LEMMA FreeType == Free \in Req /\ Resting \in Tool /\ Free.step = "idle" /\ Resting.step = "idle"
<1>1. (CHOOSE c \in Client : TRUE) \in Client /\ (CHOOSE u \in User : TRUE) \in User
  OBVIOUS
<1> QED BY <1>1 DEF Free, Resting, Req, Tool, Step, Password

(* A request that begins is a request.                                     *)
LEMMA FreshType ==
  ASSUME NEW c \in Client, NEW u \in User
  PROVE  /\ [Free EXCEPT !.step = "lookup", !.client = c, !.user = u] \in Req
         /\ [Free EXCEPT !.step = "check", !.user = u] \in Req
<1>1. "lookup" \in Step /\ "check" \in Step
  BY DEF Step
<1> QED BY <1>1, FreeType DEF Req

(* A fresh database with its first operator.                               *)
LEMMA InitType == Init => TypeInv
<1> SUFFICES ASSUME Init PROVE TypeInv
  OBVIOUS
<1>1. \A c \in Client : IsFiniteSet(attempts[c])
  BY FS_EmptySet DEF Init
<1> QED BY <1>1, FreeType DEF Init, TypeInv, TypeOK, Time, Password

(* What a request does next leaves it a request.                           *)
LEMMA NextStep ==
  ASSUME TypeOK, NEW r \in Request
  PROVE  /\ Ends(r) => req' \in [Request -> Req]
         /\ \A step \in Step : Goes(r, step) => req' \in [Request -> Req]
BY FreeType DEF TypeOK, Ends, Goes, Req

(* Noting that a login is late changes nothing else of it.                 *)
LEMMA LateStep ==
  ASSUME NEW u \in User, NEW p \in Req
  PROVE  /\ LateFor(u, p) \in Req
         /\ LateFor(u, p).step = p.step /\ LateFor(u, p).user = p.user
         /\ LateFor(u, p).client = p.client /\ LateFor(u, p).with = p.with
         /\ p.late => LateFor(u, p).late
         /\ p.step = "session" /\ p.user = u => LateFor(u, p).late
BY DEF LateFor, Req

(* Forgetting some of a client's failures, or adding one, keeps them a     *)
(* finite set of attempts.                                                 *)
LEMMA RecentType ==
  ASSUME TypeInv, NEW c \in Client
  PROVE  /\ Recent(c) \subseteq attempts[c] /\ Recent(c) \in SUBSET Attempt
         /\ IsFiniteSet(Recent(c))
<1>1. Recent(c) \subseteq attempts[c] /\ attempts[c] \in SUBSET Attempt
  BY DEF Recent, TypeInv, TypeOK
<1>2. IsFiniteSet(Recent(c))
  BY <1>1, FS_Subset DEF TypeInv
<1> QED BY <1>1, <1>2

(* Every step keeps the types.                                             *)
LEMMA TypeStep == TypeInv /\ [Next]_vars => TypeInv'
<1> SUFFICES ASSUME TypeInv, [Next]_vars PROVE TypeInv'
  OBVIOUS
<1>t. TypeOK
  BY DEF TypeInv
<1>1. ASSUME NEW r \in Request, Login(r) PROVE TypeInv'
  <2>1. PICK c \in Client, u \in User :
          /\ attempts' = [attempts EXCEPT ![c] = Recent(c)]
          /\ \/ UNCHANGED req
             \/ req' = [req EXCEPT ![r] = [Free EXCEPT !.step = "lookup", !.client = c, !.user = u]]
    BY <1>1 DEF Login
  <2>2. req' \in [Request -> Req]
    BY <2>1, FreshType DEF TypeInv, TypeOK
  <2>3. attempts' \in [Client -> SUBSET Attempt] /\ \A d \in Client : IsFiniteSet(attempts'[d])
    BY <2>1, RecentType DEF TypeInv, TypeOK
  <2> QED BY <1>1, <2>2, <2>3 DEF Login, TypeInv, TypeOK, table
<1>2. ASSUME NEW r \in Request, Misread(r) PROVE TypeInv'
  BY <1>2, <1>t, NextStep DEF Misread, TypeInv, TypeOK, table, limiter
<1>3. ASSUME NEW r \in Request, Lookup(r) PROVE TypeInv'
  <2>1. req' \in [Request -> Req]
    BY <1>3, <1>t, NextStep DEF Lookup, TypeOK, Req, Step
  <2> QED BY <1>3, <2>1 DEF Lookup, TypeInv, TypeOK, table, limiter
<1>4. ASSUME NEW r \in Request, Fail(r) PROVE TypeInv'
  <2> DEFINE c == req[r].client
             a == [at |-> now, no |-> tries + 1]
  <2>1. c \in Client /\ a \in Attempt /\ tries' \in 0..MaxTries
    BY <1>4 DEF Fail, TypeInv, TypeOK, Req, Attempt
  <2>2. IsFiniteSet(Recent(c) \cup {a}) /\ Recent(c) \cup {a} \in SUBSET Attempt
    BY <2>1, RecentType, FS_AddElement
  <2>3. attempts' = [attempts EXCEPT ![c] = Recent(c) \cup {a}]
    BY <1>4 DEF Fail
  <2>4. attempts' \in [Client -> SUBSET Attempt] /\ \A d \in Client : IsFiniteSet(attempts'[d])
    BY <2>1, <2>2, <2>3 DEF TypeInv, TypeOK
  <2>5. req' \in [Request -> Req]
    BY <1>4, <1>t, NextStep DEF Fail
  <2> QED BY <1>4, <2>1, <2>4, <2>5 DEF Fail, TypeInv, TypeOK, table
<1>5. ASSUME NEW r \in Request, CreateSession(r) PROVE TypeInv'
  <2> DEFINE s == [token |-> logins + 1, user |-> req[r].user, expires |-> now + TTL,
                   with |-> req[r].with, late |-> req[r].late]
  <2>1. s \in Session /\ logins' = logins + 1 /\ logins' \in 0..MaxLogins
    BY <1>5 DEF CreateSession, TypeInv, TypeOK, Req, Session, Time
  <2>2. req' \in [Request -> Req]
    BY <1>5, <1>t, NextStep DEF CreateSession, Step
  <2>3. sessions' \in {sessions, sessions \cup {s}}
    BY <1>5 DEF CreateSession
  <2>4. \A x \in sessions : x.token < s.token /\ x.token \in Nat
    BY <2>1 DEF TypeInv, TypeOK, Session
  <2>5. /\ \A x, y \in sessions' : x.token = y.token => x = y
        /\ \A x \in sessions' : x.token <= logins'
    BY <2>1, <2>3, <2>4 DEF TypeInv, TypeOK
  <2> QED BY <1>5, <2>1, <2>2, <2>3, <2>5 DEF CreateSession, TypeInv, TypeOK, limiter
<1>6. ASSUME NEW r \in Request, Reset(r) PROVE TypeInv'
  <2>1. req' \in [Request -> Req]
    BY <1>6, <1>t, NextStep DEF Reset
  <2>2. attempts' \in [Client -> SUBSET Attempt] /\ \A d \in Client : IsFiniteSet(attempts'[d])
    BY <1>6, FS_EmptySet DEF Reset, TypeInv, TypeOK
  <2> QED BY <1>6, <2>1, <2>2 DEF Reset, TypeInv, TypeOK, table
<1>7. ASSUME NEW r \in Request, Enter(r) PROVE TypeInv'
  <2>1. sessions' \subseteq sessions
    BY <1>7 DEF Enter
  <2>2. PICK s \in sessions :
          \/ UNCHANGED req
          \/ req' = [req EXCEPT ![r] = [Free EXCEPT !.step = "check", !.user = s.user]]
    BY <1>7 DEF Enter
  <2>3. s.user \in User
    BY <2>2 DEF TypeInv, TypeOK, Session
  <2>4. req' \in [Request -> Req]
    BY <2>2, <2>3, FreshType DEF TypeInv, TypeOK
  <2> QED BY <1>7, <2>1, <2>4 DEF Enter, TypeInv, TypeOK, limiter
<1>8. ASSUME NEW r \in Request, Check(r) PROVE TypeInv'
  <2>1. req' \in [Request -> Req]
    BY <1>8, <1>t, NextStep DEF Check, TypeOK, Req, Step
  <2> QED BY <1>8, <2>1 DEF Check, TypeInv, TypeOK, table, limiter
<1>9. ASSUME NEW r \in Request, SetAccount(r) PROVE TypeInv'
  <2>1. req' \in [Request -> Req] /\ req[r].user \in User
    BY <1>9, <1>t, NextStep DEF SetAccount, TypeOK, Req, Step
  <2>2. password' \in [User -> Password]
    BY <1>9, <2>1 DEF SetAccount, SetCredentials, TypeInv, TypeOK, Password
  <2> QED BY <1>9, <2>1, <2>2 DEF SetAccount, TypeInv, TypeOK, table, limiter
<1>10. ASSUME NEW r \in Request, DeleteAccountSessions(r) PROVE TypeInv'
  <2>1. sessions' \subseteq sessions /\ req[r].user \in User
    BY <1>10 DEF DeleteAccountSessions, TypeInv, TypeOK, Req
  <2>2. req' \in [Request -> Req]
    BY <1>10, <1>t, <2>1, NextStep, LateStep, FreeType DEF DeleteAccountSessions, TypeOK
  <2>3. uncleared' \subseteq User
    BY <1>10, <2>1 DEF DeleteAccountSessions, TypeInv, TypeOK
  <2> QED BY <1>10, <2>1, <2>2, <2>3 DEF DeleteAccountSessions, TypeInv, TypeOK, limiter
<1>11. ASSUME Logout \/ PruneSessions PROVE TypeInv'
  <2>1. sessions' \subseteq sessions
    BY <1>11 DEF Logout, PruneSessions
  <2> QED BY <1>11, <2>1 DEF Logout, PruneSessions, TypeInv, TypeOK, limiter
<1>12. ASSUME NEW u \in User, ToolSets(u) PROVE TypeInv'
  <2>1. password' \in [User -> Password]
    BY <1>12 DEF ToolSets, SetCredentials, TypeInv, TypeOK, Password
  <2>2. tool' \in Tool /\ users' \subseteq User
    BY <1>12 DEF ToolSets, TypeInv, TypeOK, Tool
  <2> QED BY <1>12, <2>1, <2>2 DEF ToolSets, TypeInv, TypeOK, table, limiter
<1>13. ASSUME ToolDeletes PROVE TypeInv'
  <2>1. tool.user \in User /\ sessions' \subseteq sessions
    BY <1>13 DEF ToolDeletes, TypeInv, TypeOK, Tool
  <2>2. req' \in [Request -> Req]
    BY <1>13, <2>1, LateStep DEF ToolDeletes, TypeInv, TypeOK
  <2>3. uncleared' \subseteq User /\ tool' \in Tool
    BY <1>13, <2>1, FreeType DEF ToolDeletes, TypeInv, TypeOK
  <2> QED BY <1>13, <2>1, <2>2, <2>3 DEF ToolDeletes, TypeInv, TypeOK, limiter
<1>14. ASSUME Tick PROVE TypeInv'
  BY <1>14 DEF Tick, TypeInv, TypeOK, Time, table, limiter
<1>15. ASSUME Restart PROVE TypeInv'
  <2>1. req' \in [Request -> Req] /\ uncleared' \subseteq User
    BY <1>15, FreeType DEF Restart, TypeInv, TypeOK, Req
  <2>2. attempts' \in [Client -> SUBSET Attempt] /\ \A d \in Client : IsFiniteSet(attempts'[d])
    BY <1>15, FS_EmptySet DEF Restart
  <2> QED BY <1>15, <2>1, <2>2 DEF Restart, TypeInv, TypeOK, table
<1>16. CASE UNCHANGED vars
  BY <1>16 DEF vars, TypeInv, TypeOK, table, limiter
<1> QED BY <1>1, <1>2, <1>3, <1>4, <1>5, <1>6, <1>7, <1>8, <1>9, <1>10, <1>11, <1>12,
           <1>13, <1>14, <1>15, <1>16 DEF Next, Handle

(* The requests, the sessions table and the limiter keep their types, and  *)
(* no token is given to two sessions (CreateSession, auth.go).             *)
THEOREM TypeCorrect == Spec => []TypeOK
<1>1. TypeInv => TypeOK
  BY DEF TypeInv
<1> QED BY <1>1, InitType, TypeStep, PTL DEF Spec

-----------------------------------------------------------------------------
(* Sessions *)

(* A pass that compared an old password is explained like a session made   *)
(* with one: the change is under way, was over before, or did not delete.  *)
Explained(u, with, late) ==
  with = password[u] \/ late \/ Changing(u) \/ u \in uncleared

SessionInv ==
  /\ \A s \in sessions : Explained(s.user, s.with, s.late)
  /\ \A r \in Request : req[r].step = "session" =>
       Explained(req[r].user, req[r].with, req[r].late)

(* Where passwords stay, no change of account ends and nothing is found    *)
(* cleared, what was explained stays so.                                   *)
LEMMA StaysExplained ==
  ASSUME NEW u \in User, NEW with, NEW late, Explained(u, with, late),
         password' = password, Changing(u) => Changing(u)' \/ u \in uncleared',
         u \in uncleared => u \in uncleared'
  PROVE  Explained(u, with, late)'
BY DEF Explained

(* Every step leaves explained what is in the table or on its way there.   *)
LEMMA SessionStep == TypeInv /\ SessionInv /\ [Next]_vars => SessionInv'
<1> SUFFICES ASSUME TypeInv, SessionInv, [Next]_vars PROVE SessionInv'
  OBVIOUS
<1>t. /\ req \in [Request -> Req] /\ sessions \subseteq Session
      /\ tool \in Tool /\ password \in [User -> Password] /\ uncleared \subseteq User
  BY DEF TypeInv, TypeOK
<1>u. (\A s \in sessions : s.user \in User) /\ \A r \in Request : req[r].user \in User
  BY <1>t DEF Session, Req
<1>a. ASSUME sessions' \subseteq sessions, password' = password, uncleared \subseteq uncleared',
             \A u \in User : Changing(u) => Changing(u)' \/ u \in uncleared',
             \A r \in Request : req'[r].step = "session" =>
               \/ req'[r] = req[r]
               \/ req'[r].with = password'[req'[r].user]
      PROVE SessionInv'
  <2>1. ASSUME NEW s \in sessions' PROVE Explained(s.user, s.with, s.late)'
    BY <1>a, <1>u, <2>1, StaysExplained DEF SessionInv
  <2>2. ASSUME NEW r \in Request, req'[r].step = "session"
        PROVE Explained(req[r].user, req[r].with, req[r].late)'
    <3>1. CASE req'[r] = req[r]
      <4>1. Explained(req[r].user, req[r].with, req[r].late)
        BY <2>2, <3>1 DEF SessionInv
      <4>2. Explained(req[r].user, req[r].with, req[r].late)'
           <=> (req'[r].with = password'[req'[r].user] \/ req'[r].late
                  \/ Changing(req[r].user)' \/ req'[r].user \in uncleared')
        BY <3>1 DEF Explained, Changing
      <4> QED BY <1>a, <1>u, <3>1, <4>1, <4>2 DEF Explained
    <3>2. CASE req'[r].with = password'[req'[r].user]
      BY <3>2 DEF Explained
    <3> QED BY <1>a, <2>2, <3>1, <3>2
  <2> QED BY <2>1, <2>2 DEF SessionInv
<1>b. ASSUME sessions' \subseteq sessions, UNCHANGED <<password, tool, uncleared>>,
             NEW r \in Request, req[r].step # "delete",
             \A q \in Request \ {r} : req'[q] = req[q],
             req'[r].step = "session" => req'[r].with = password'[req'[r].user]
      PROVE SessionInv'
  <2>1. \A u \in User : Changing(u) => Changing(u)'
    BY <1>b DEF Changing
  <2> QED BY <1>a, <1>b, <2>1
<1>c. ASSUME NEW u \in User, Changing(u)', UNCHANGED <<sessions, uncleared>>,
             \A x \in User \ {u} : password'[x] = password[x],
             \A x \in User : Changing(x) => Changing(x)',
             \A q \in Request : req'[q].step = "session" => req'[q] = req[q]
      PROVE SessionInv'
  <2>1. ASSUME NEW x \in User, x # u, NEW with, NEW late, Explained(x, with, late)
        PROVE Explained(x, with, late)'
    BY <1>c, <2>1 DEF Explained
  <2>2. ASSUME NEW with, NEW late PROVE Explained(u, with, late)'
    BY <1>c DEF Explained
  <2>3. ASSUME NEW s \in sessions' PROVE Explained(s.user, s.with, s.late)'
    BY <1>c, <1>u, <2>1, <2>2, <2>3 DEF SessionInv
  <2>4. ASSUME NEW q \in Request, req'[q].step = "session"
        PROVE Explained(req[q].user, req[q].with, req[q].late)'
    <3>1. req'[q] = req[q]
      BY <1>c, <2>4
    <3>2. PICK x, with, late : x = req[q].user /\ with = req[q].with /\ late = req[q].late
      OBVIOUS
    <3>3. Explained(x, with, late)
      BY <2>4, <3>1, <3>2 DEF SessionInv
    <3>4. Explained(x, with, late)'
      BY <1>u, <2>1, <2>2, <3>2, <3>3
    <3> QED BY <3>1, <3>2, <3>4 DEF Explained
  <2> QED BY <2>3, <2>4 DEF SessionInv
<1>d. ASSUME NEW u \in User, sessions' = {s \in sessions : s.user # u},
             uncleared' = uncleared \ {u}, password' = password,
             \A x \in User \ {u} : Changing(x) => Changing(x)',
             \A q \in Request : req'[q].step = "session" =>
               /\ req[q].step = "session" /\ req'[q].user = req[q].user
               /\ req'[q].with = req[q].with /\ (req[q].late => req'[q].late)
               /\ req[q].user = u => req'[q].late
      PROVE SessionInv'
  <2>1. ASSUME NEW x \in User, x # u, NEW with, NEW late, Explained(x, with, late)
        PROVE Explained(x, with, late)'
    BY <1>d, <2>1 DEF Explained
  <2>2. ASSUME NEW s \in sessions' PROVE Explained(s.user, s.with, s.late)'
    BY <1>d, <1>u, <2>1, <2>2 DEF SessionInv
  <2>3. ASSUME NEW q \in Request, req'[q].step = "session"
        PROVE Explained(req[q].user, req[q].with, req[q].late)'
    <3>1. CASE req[q].user = u
      BY <1>d, <2>3, <3>1 DEF Explained
    <3>2. CASE req[q].user # u
      <4>1. Explained(req[q].user, req[q].with, req[q].late)
        BY <1>d, <2>3 DEF SessionInv
      <4>2. PICK x, with, late : x = req[q].user /\ with = req[q].with /\ late = req[q].late
        OBVIOUS
      <4>3. CASE late
        BY <1>d, <2>3, <4>2, <4>3 DEF Explained
      <4>4. CASE ~late
        <5>1. x \in User /\ x # u /\ x = req'[q].user /\ with = req'[q].with
          BY <1>d, <1>u, <2>3, <3>2, <4>2
        <5>2. with = password'[x] \/ Changing(x)' \/ x \in uncleared'
          BY <1>d, <4>1, <4>2, <4>4, <5>1 DEF Explained
        <5>3. Changing(x)' => Changing(req[q].user)'
          BY <5>1 DEF Changing
        <5> QED BY <5>1, <5>2, <5>3 DEF Explained
      <4> QED BY <4>3, <4>4
    <3> QED BY <3>1, <3>2
  <2> QED BY <2>2, <2>3 DEF SessionInv
<1>f. Free.step = "idle"
  BY FreeType
<1>1. ASSUME NEW r \in Request, Login(r) PROVE SessionInv'
  <2>1. /\ UNCHANGED <<sessions, password, tool, uncleared>> /\ req[r].step = "idle"
        /\ \A q \in Request \ {r} : req'[q] = req[q]
    BY <1>1, <1>t DEF Login, table
  <2>2. req'[r].step \in {"idle", "lookup"}
    BY <1>1, <1>t, FreeType DEF Login, Req
  <2> QED BY <1>b, <2>1, <2>2
<1>2. ASSUME NEW r \in Request, Misread(r) \/ Fail(r) \/ Reset(r) PROVE SessionInv'
  <2>1. /\ UNCHANGED <<sessions, password, tool, uncleared>> /\ req[r].step # "delete"
        /\ \A q \in Request \ {r} : req'[q] = req[q]
    BY <1>2, <1>t DEF Misread, Fail, Reset, Ends, table
  <2>2. req'[r].step = "idle"
    BY <1>2, <1>t, <1>f DEF Misread, Fail, Reset, Ends
  <2> QED BY <1>b, <2>1, <2>2
<1>3. ASSUME NEW r \in Request, Lookup(r) \/ Check(r) PROVE SessionInv'
  <2>1. /\ UNCHANGED <<sessions, password, tool, uncleared>> /\ req[r].step # "delete"
        /\ \A q \in Request \ {r} : req'[q] = req[q]
    BY <1>3, <1>t DEF Lookup, Check, Goes, Ends, table
  <2>2. req'[r].step = "session" => req'[r].with = password'[req'[r].user]
    BY <1>3, <1>t, <1>f, <2>1 DEF Lookup, Check, Goes, Ends, Req
  <2> QED BY <1>b, <2>1, <2>2
<1>4. ASSUME NEW r \in Request, Enter(r) PROVE SessionInv'
  <2>1. /\ sessions' \subseteq sessions /\ UNCHANGED <<password, tool, uncleared>>
        /\ req[r].step = "idle" /\ \A q \in Request \ {r} : req'[q] = req[q]
    BY <1>4, <1>t DEF Enter
  <2>2. req'[r].step \in {"idle", "check"}
    BY <1>4, <1>t, FreeType DEF Enter, Req
  <2> QED BY <1>b, <2>1, <2>2
<1>5. ASSUME NEW r \in Request, CreateSession(r) PROVE SessionInv'
  <2> DEFINE s == [token |-> logins + 1, user |-> req[r].user, expires |-> now + TTL,
                   with |-> req[r].with, late |-> req[r].late]
  <2>1. /\ UNCHANGED <<password, tool, uncleared>> /\ req[r].step = "session"
        /\ sessions' \in {sessions, sessions \cup {s}}
        /\ \A q \in Request \ {r} : req'[q] = req[q]
    BY <1>5, <1>t DEF CreateSession, Goes, Ends
  <2>2. req'[r].step \in {"idle", "reset"}
    BY <1>5, <1>t, <1>f DEF CreateSession, Goes, Ends, Req
  <2>3. \A u \in User : Changing(u) => Changing(u)'
    BY <2>1 DEF Changing
  <2>4. ASSUME NEW x \in sessions PROVE Explained(x.user, x.with, x.late)'
    BY <1>u, <2>1, <2>3, <2>4, StaysExplained DEF SessionInv
  <2>5. \/ s.with = password[s.user] \/ s.late \/ Changing(s.user) \/ s.user \in uncleared
    BY <2>1 DEF SessionInv, Explained
  <2>6. ASSUME NEW x \in sessions', x = s PROVE Explained(x.user, x.with, x.late)'
    <3>1. Explained(x.user, x.with, x.late)
      BY <2>5, <2>6 DEF Explained
    <3>2. x.user \in User
      BY <1>u, <2>6
    <3> QED BY <2>1, <2>3, <3>1, <3>2, StaysExplained
  <2>7. \A x \in sessions' : Explained(x.user, x.with, x.late)'
    BY <2>1, <2>4, <2>6
  <2>8. \A q \in Request : Explained(req[q].user, req[q].with, req[q].late)' \/ req'[q].step # "session"
    BY <1>u, <2>1, <2>2, <2>3 DEF SessionInv, Explained
  <2> QED BY <2>7, <2>8 DEF SessionInv
<1>6. ASSUME NEW r \in Request, SetAccount(r) PROVE SessionInv'
  <2> DEFINE u == req[r].user
  <2>1. /\ UNCHANGED <<sessions, tool, uncleared>> /\ req[r].step = "set"
        /\ \A q \in Request \ {r} : req'[q] = req[q]
    BY <1>6, <1>t DEF SetAccount, Goes, Ends, table
  <2>2. CASE SetCredentials(u) /\ Goes(r, "delete")
    <3>1. req'[r].step = "delete" /\ req'[r].user = u /\ u \in User
      BY <1>t, <1>u, <2>2 DEF Goes, Req
    <3>2. \A x \in User \ {u} : password'[x] = password[x]
      BY <1>t, <2>2 DEF SetCredentials
    <3>3. PICK v \in User : v = u
      BY <3>1
    <3>4. Changing(v)' /\ \A x \in User : Changing(x) => Changing(x)'
      BY <2>1, <3>1, <3>3 DEF Changing
    <3> QED BY <1>c, <2>1, <3>1, <3>2, <3>3, <3>4
  <2>3. CASE Ends(r) /\ UNCHANGED password
    BY <1>b, <1>f, <1>t, <2>1, <2>3 DEF Ends
  <2> QED BY <1>6, <2>2, <2>3 DEF SetAccount
<1>7. ASSUME NEW r \in Request, DeleteAccountSessions(r) PROVE SessionInv'
  <2>1. PICK u \in User : u = req[r].user
    BY <1>u
  <2>2. /\ UNCHANGED <<password, tool>> /\ req[r].step = "delete"
    BY <1>7 DEF DeleteAccountSessions
  <2>3. CASE /\ sessions' = {s \in sessions : s.user # u} /\ uncleared' = uncleared \ {u}
             /\ req' = [q \in Request |-> IF q = r THEN Free ELSE LateFor(u, req[q])]
    <3>1. \A q \in Request : req[q] \in Req
      BY <1>t
    <3>2. req'[r].step = "idle" /\ \A q \in Request \ {r} : req'[q] = LateFor(u, req[q])
      BY <1>f, <2>3
    <3>3. \A x \in User \ {u} : Changing(x) => Changing(x)'
      BY <2>1, <2>2, <3>1, <3>2, LateStep DEF Changing
    <3>4. \A q \in Request : req'[q].step = "session" =>
            /\ req[q].step = "session" /\ req'[q].user = req[q].user
            /\ req'[q].with = req[q].with /\ (req[q].late => req'[q].late)
            /\ req[q].user = u => req'[q].late
      BY <3>1, <3>2, LateStep
    <3> QED BY <1>d, <2>2, <2>3, <3>3, <3>4
  <2>4. CASE uncleared' = uncleared \cup {u} /\ Ends(r) /\ UNCHANGED sessions
    <3>1. req'[r].step = "idle" /\ \A q \in Request \ {r} : req'[q] = req[q]
      BY <1>f, <1>t, <2>4 DEF Ends
    <3>2. \A x \in User : Changing(x) => Changing(x)' \/ x \in uncleared'
      BY <2>1, <2>2, <2>4, <3>1 DEF Changing
    <3> QED BY <1>a, <2>2, <2>4, <3>1, <3>2
  <2> QED BY <1>7, <2>1, <2>3, <2>4 DEF DeleteAccountSessions
<1>8. ASSUME Logout \/ PruneSessions \/ Tick \/ UNCHANGED vars PROVE SessionInv'
  <2>1. sessions' \subseteq sessions /\ UNCHANGED <<password, tool, uncleared, req>>
    BY <1>8 DEF Logout, PruneSessions, Tick, vars, table
  <2>2. \A x \in User : Changing(x) => Changing(x)'
    BY <2>1 DEF Changing
  <2> QED BY <1>a, <2>1, <2>2
<1>9. ASSUME NEW u \in User, ToolSets(u) PROVE SessionInv'
  <2>1. UNCHANGED <<sessions, req, uncleared>> /\ tool.step = "idle"
    BY <1>9 DEF ToolSets, table
  <2>2. CASE SetCredentials(u) /\ tool' = [step |-> "delete", user |-> u]
    <3>1. Changing(u)' /\ \A x \in User : Changing(x) => Changing(x)'
      BY <2>1, <2>2 DEF Changing
    <3>2. \A x \in User \ {u} : password'[x] = password[x]
      BY <1>t, <2>2 DEF SetCredentials
    <3> QED BY <1>c, <2>1, <3>1, <3>2
  <2>3. CASE UNCHANGED <<password, tool>>
    <3>1. \A x \in User : Changing(x) => Changing(x)'
      BY <2>1, <2>3 DEF Changing
    <3> QED BY <1>a, <2>1, <2>3, <3>1
  <2> QED BY <1>9, <2>2, <2>3 DEF ToolSets
<1>10. ASSUME ToolDeletes PROVE SessionInv'
  <2>1. PICK u \in User : u = tool.user
    BY <1>t DEF Tool
  <2>2. password' = password /\ tool.step = "delete" /\ tool' = Resting /\ Resting.step = "idle"
    BY <1>10, FreeType DEF ToolDeletes
  <2>3. CASE /\ sessions' = {s \in sessions : s.user # u} /\ uncleared' = uncleared \ {u}
             /\ req' = [q \in Request |-> LateFor(u, req[q])]
    <3>1. \A q \in Request : req[q] \in Req /\ req'[q] = LateFor(u, req[q])
      BY <1>t, <2>3
    <3>2. \A x \in User \ {u} : Changing(x) => Changing(x)'
      BY <2>1, <2>2, <3>1, LateStep DEF Changing
    <3>3. \A q \in Request : req'[q].step = "session" =>
            /\ req[q].step = "session" /\ req'[q].user = req[q].user
            /\ req'[q].with = req[q].with /\ (req[q].late => req'[q].late)
            /\ req[q].user = u => req'[q].late
      BY <3>1, LateStep
    <3> QED BY <1>d, <2>2, <2>3, <3>2, <3>3
  <2>4. CASE uncleared' = uncleared \cup {u} /\ UNCHANGED <<sessions, req>>
    <3>1. \A x \in User : Changing(x) => Changing(x)' \/ x \in uncleared'
      BY <2>1, <2>2, <2>4 DEF Changing
    <3> QED BY <1>a, <2>2, <2>4, <3>1
  <2> QED BY <1>10, <2>1, <2>3, <2>4 DEF ToolDeletes
<1>11. ASSUME Restart PROVE SessionInv'
  <2>1. /\ UNCHANGED <<sessions, password, tool>>
        /\ uncleared' = uncleared \cup {req[r].user : r \in {q \in Request : req[q].step = "delete"}}
        /\ \A r \in Request : req'[r].step = "idle"
    BY <1>11, <1>f DEF Restart, table
  <2>2. \A x \in User : Changing(x) => Changing(x)' \/ x \in uncleared'
    BY <2>1 DEF Changing
  <2> QED BY <1>a, <2>1, <2>2
<1> QED BY <1>1, <1>2, <1>3, <1>4, <1>5, <1>6, <1>7, <1>8, <1>9, <1>10, <1>11 DEF Next, Handle

(* "Every other cookie for this operator dies with the old password": for  *)
(* any number of logins and changes of account at once, beside the -admin  *)
(* command, a session made with an older password is one of a login under  *)
(* way at the change, or of a deletion that failed (handleAccount).        *)
THEOREM CookiesDie == Spec => []SessionsMatchPassword
<1>1. Init => SessionInv
  BY FreeType DEF Init, SessionInv
<1>2. SessionInv => SessionsMatchPassword
  BY DEF SessionInv, SessionsMatchPassword, Explained
<1> QED BY <1>1, <1>2, InitType, TypeStep, SessionStep, PTL DEF Spec

-----------------------------------------------------------------------------
(* The limiter *)

(* Logins that were let in and may still be told to have failed.           *)
Open(c) == {r \in Request : req[r].step \in {"lookup", "fail"} /\ req[r].client = c}

LimiterInv ==
  \A c \in Client : Cardinality(Recent(c)) + Cardinality(Open(c)) <= Limit - 1 + Cardinality(Request)

(* What is counted is finite.                                              *)
LEMMA Finite ==
  ASSUME TypeInv, NEW c \in Client
  PROVE  /\ IsFiniteSet(Recent(c)) /\ Cardinality(Recent(c)) \in Nat
         /\ Open(c) \subseteq Request /\ IsFiniteSet(Open(c)) /\ Cardinality(Open(c)) \in Nat
         /\ Cardinality(Open(c)) <= Cardinality(Request) /\ Cardinality(Request) \in Nat
<1>1. Open(c) \subseteq Request
  BY DEF Open
<1> QED BY <1>1, RecentType, FS_Subset, FS_CardinalityType

(* A set of attempts judged later, or without some of them, is no larger.  *)
LEMMA RecentShrinks ==
  ASSUME TypeInv, NEW c \in Client, now' \in Time, now <= now', attempts'[c] \subseteq attempts[c]
  PROVE  Recent(c)' \subseteq Recent(c)
<1>1. \A a \in attempts[c] : a.at \in Int
  BY DEF TypeInv, TypeOK, Attempt, Time
<1>2. now \in Int /\ now' \in Int
  BY DEF TypeInv, TypeOK, Time
<1>3. ASSUME NEW a \in attempts'[c], a.at > now' - Window PROVE a \in Recent(c)
  BY <1>1, <1>2, <1>3 DEF Recent
<1> QED BY <1>3 DEF Recent

(* One more failure counts one at most.                                    *)
LEMMA OneMore ==
  ASSUME NEW R, NEW x, IsFiniteSet(R)
  PROVE  Cardinality(R \cup {x}) <= Cardinality(R) + 1 /\ IsFiniteSet(R \cup {x})
<1>1. Cardinality(R) \in Nat
  BY FS_CardinalityType
<1>2. Cardinality(R \cup {x}) = (IF x \in R THEN Cardinality(R) ELSE Cardinality(R) + 1)
  BY FS_AddElement
<1>3. IsFiniteSet(R \cup {x})
  BY FS_AddElement
<1> QED BY <1>1, <1>2, <1>3

(* A login is let in below the limit; each failure was a login let in.     *)
LEMMA LimiterStep == TypeInv /\ TypeInv' /\ LimiterInv /\ [Next]_vars => LimiterInv'
<1> SUFFICES ASSUME TypeInv, TypeInv', LimiterInv, [Next]_vars, NEW c \in Client
             PROVE  Cardinality(Recent(c)') + Cardinality(Open(c)') <= Limit - 1 + Cardinality(Request)
  BY DEF LimiterInv
<1>t. /\ req \in [Request -> Req] /\ now \in Int /\ now' \in Time
      /\ attempts \in [Client -> SUBSET Attempt]
      /\ \A r \in Request : req[r] \in Req
  BY DEF TypeInv, TypeOK, Time
<1>n. /\ Cardinality(Recent(c)') \in Nat /\ Cardinality(Open(c)') \in Nat
      /\ Cardinality(Open(c)') <= Cardinality(Request)
      /\ IsFiniteSet(Recent(c)') /\ IsFiniteSet(Open(c)')
  <2>1. Open(c)' \subseteq Request
    BY DEF Open
  <2>2. Recent(c)' \subseteq attempts'[c] /\ IsFiniteSet(attempts'[c])
    BY DEF Recent, TypeInv
  <2> QED BY <2>1, <2>2, FS_Subset, FS_CardinalityType
<1>i. Cardinality(Recent(c)) + Cardinality(Open(c)) <= Limit - 1 + Cardinality(Request)
  BY DEF LimiterInv
<1>a. ASSUME Recent(c)' \subseteq Recent(c), Open(c)' \subseteq Open(c)
      PROVE  Cardinality(Recent(c)') + Cardinality(Open(c)') <= Limit - 1 + Cardinality(Request)
  <2>1. /\ Cardinality(Recent(c)') <= Cardinality(Recent(c))
        /\ Cardinality(Open(c)') <= Cardinality(Open(c))
    BY <1>a, Finite, FS_Subset
  <2> QED BY <1>i, <1>n, <2>1, Finite
<1>f. Free.step = "idle"
  BY FreeType
<1>1. ASSUME NEW r \in Request, Login(r)
      PROVE  Cardinality(Recent(c)') + Cardinality(Open(c)') <= Limit - 1 + Cardinality(Request)
  <2>1. PICK d \in Client, u \in User :
          /\ attempts' = [attempts EXCEPT ![d] = Recent(d)]
          /\ \/ UNCHANGED req
             \/ /\ ~Blocked(d)
                /\ req' = [req EXCEPT ![r] = [Free EXCEPT !.step = "lookup", !.client = d, !.user = u]]
    BY <1>1 DEF Login
  <2>2. now' = now
    BY <1>1 DEF Login
  <2>3. Recent(c)' \subseteq Recent(c)
    BY <1>t, <2>1, <2>2, RecentType, RecentShrinks
  <2>4. CASE UNCHANGED req
    BY <1>a, <2>3, <2>4 DEF Open
  <2>5. CASE /\ ~Blocked(d)
             /\ req' = [req EXCEPT ![r] = [Free EXCEPT !.step = "lookup", !.client = d, !.user = u]]
    <3>1. CASE c = d
      <4>1. Cardinality(Recent(c)) < Limit
        BY <2>5, <3>1, Finite DEF Blocked
      <4>2. Cardinality(Recent(c)') <= Cardinality(Recent(c))
        BY <2>3, Finite, FS_Subset
      <4> QED BY <1>n, <4>1, <4>2, Finite
    <3>2. CASE c # d
      <4>1. req'[r].client = d /\ \A q \in Request \ {r} : req'[q] = req[q]
        BY <1>t, <2>5, FreeType DEF Req
      <4>2. Open(c)' \subseteq Open(c)
        BY <3>2, <4>1 DEF Open
      <4> QED BY <1>a, <2>3, <4>2
    <3> QED BY <3>1, <3>2
  <2> QED BY <2>1, <2>4, <2>5
<1>2. ASSUME NEW r \in Request, Fail(r)
      PROVE  Cardinality(Recent(c)') + Cardinality(Open(c)') <= Limit - 1 + Cardinality(Request)
  <2> DEFINE d == req[r].client
             a == [at |-> now, no |-> tries + 1]
  <2>1. /\ d \in Client /\ req[r].step = "fail" /\ now' = now
        /\ attempts' = [attempts EXCEPT ![d] = Recent(d) \cup {a}]
    BY <1>2, <1>t DEF Fail, Req
  <2>2. req'[r].step = "idle" /\ \A q \in Request \ {r} : req'[q] = req[q]
    BY <1>2, <1>f, <1>t DEF Fail, Ends
  <2>3. Open(c)' = Open(c) \ {r}
    BY <2>2 DEF Open
  <2>4. CASE c = d
    <3>1. r \in Open(c)
      BY <2>1, <2>4 DEF Open
    <3>2. Cardinality(Open(c)') = Cardinality(Open(c)) - 1
      BY <2>3, <3>1, Finite, FS_RemoveElement
    <3>3. Recent(c)' \subseteq Recent(c) \cup {a}
      BY <1>t, <2>1, <2>4 DEF Recent
    <3>4. Cardinality(Recent(c) \cup {a}) <= Cardinality(Recent(c)) + 1 /\ IsFiniteSet(Recent(c) \cup {a})
      BY RecentType, OneMore
    <3>5. Cardinality(Recent(c)') <= Cardinality(Recent(c)) + 1
      BY <1>n, <3>3, <3>4, Finite, FS_Subset, FS_CardinalityType
    <3> QED BY <1>i, <1>n, <3>2, <3>5, Finite
  <2>5. CASE c # d
    <3>1. attempts'[c] = attempts[c]
      BY <1>t, <2>1, <2>5
    <3> QED BY <1>a, <1>t, <2>1, <2>3, <3>1, RecentShrinks
  <2> QED BY <2>4, <2>5
<1>3. ASSUME NEW r \in Request,
             \/ Misread(r) \/ Lookup(r) \/ CreateSession(r) \/ Reset(r)
             \/ Enter(r) \/ Check(r) \/ SetAccount(r)
      PROVE  Cardinality(Recent(c)') + Cardinality(Open(c)') <= Limit - 1 + Cardinality(Request)
  <2>1. now' = now /\ attempts'[c] \subseteq attempts[c]
    BY <1>3, <1>t DEF Misread, Lookup, CreateSession, Reset, Enter, Check, SetAccount, limiter
  <2>2. \A q \in Request \ {r} : req'[q] = req[q]
    BY <1>3, <1>t DEF Misread, Lookup, CreateSession, Reset, Enter, Check, SetAccount, Goes, Ends
  <2>3. \/ req'[r] = req[r]
        \/ req'[r].step \notin {"lookup", "fail"}
        \/ req[r].step = "lookup" /\ req'[r].client = req[r].client
    <3>1. CASE Misread(r) \/ Reset(r)
      BY <1>f, <1>t, <3>1 DEF Misread, Reset, Ends
    <3>2. CASE Lookup(r)
      BY <1>t, <3>2 DEF Lookup, Goes, Req
    <3>3. CASE CreateSession(r) \/ Check(r) \/ SetAccount(r)
      BY <1>f, <1>t, <3>3 DEF CreateSession, Check, SetAccount, Goes, Ends, Req
    <3>4. CASE Enter(r)
      BY <1>t, <3>4, FreeType DEF Enter, Req
    <3> QED BY <1>3, <3>1, <3>2, <3>3, <3>4
  <2>4. Open(c)' \subseteq Open(c)
    BY <2>2, <2>3 DEF Open
  <2> QED BY <1>a, <1>t, <2>1, <2>4, RecentShrinks
<1>4. ASSUME \/ \E r \in Request : DeleteAccountSessions(r)
             \/ ToolDeletes
      PROVE  Cardinality(Recent(c)') + Cardinality(Open(c)') <= Limit - 1 + Cardinality(Request)
  <2>1. now' = now /\ attempts' = attempts
    BY <1>4 DEF DeleteAccountSessions, ToolDeletes, limiter
  <2>2. PICK u \in User : \A q \in Request :
          \/ req'[q].step = "idle"
          \/ req'[q] \in {req[q], LateFor(u, req[q])}
    <3>1. CASE ToolDeletes
      BY <1>t, <3>1 DEF ToolDeletes, TypeInv, TypeOK, Tool
    <3>2. ASSUME NEW r \in Request, DeleteAccountSessions(r)
          PROVE \E u \in User : \A q \in Request :
            \/ req'[q].step = "idle"
            \/ req'[q] \in {req[q], LateFor(u, req[q])}
      <4>1. PICK u \in User : u = req[r].user
        BY <1>t DEF Req
      <4> QED BY <1>f, <1>t, <3>2, <4>1 DEF DeleteAccountSessions, Ends
    <3> QED BY <1>4, <3>1, <3>2
  <2>3. Open(c)' \subseteq Open(c)
    BY <1>t, <2>2, LateStep DEF Open
  <2> QED BY <1>a, <1>t, <2>1, <2>3, RecentShrinks
<1>5. ASSUME \/ Logout \/ PruneSessions \/ Tick \/ UNCHANGED vars
             \/ \E u \in User : ToolSets(u)
      PROVE  Cardinality(Recent(c)') + Cardinality(Open(c)') <= Limit - 1 + Cardinality(Request)
  <2>1. now <= now' /\ attempts' = attempts /\ req' = req
    BY <1>5, <1>t DEF Logout, PruneSessions, Tick, ToolSets, vars, limiter
  <2>2. Open(c)' = Open(c)
    BY <2>1 DEF Open
  <2> QED BY <1>a, <1>t, <2>1, <2>2, RecentShrinks
<1>6. ASSUME Restart
      PROVE  Cardinality(Recent(c)') + Cardinality(Open(c)') <= Limit - 1 + Cardinality(Request)
  <2>1. Recent(c)' = {} /\ Open(c)' = {}
    BY <1>6, <1>f DEF Restart, Recent, Open
  <2> QED BY <1>a, <2>1
<1> QED BY <1>1, <1>2, <1>3, <1>4, <1>5, <1>6 DEF Next, Handle

(* Whatever is served at once, no more failed logins of one client fall    *)
(* into a window than loginMaxAttempts and the other logins let in with    *)
(* the last one allow (loginLimiter, handleLogin).                         *)
THEOREM FewGuesses == Spec => []GuessesBounded
<1>1. Init => LimiterInv
  <2> SUFFICES ASSUME Init, NEW c \in Client
               PROVE  Cardinality(Recent(c)) + Cardinality(Open(c)) <= Limit - 1 + Cardinality(Request)
    BY DEF LimiterInv
  <2>1. Recent(c) = {} /\ Open(c) = {}
    BY FreeType DEF Init, Recent, Open
  <2>2. Cardinality(Request) \in Nat /\ Cardinality(Request) # 0
    BY FS_CardinalityType, FS_EmptySet
  <2> QED BY <2>1, <2>2, FS_EmptySet
<1>2. TypeInv /\ LimiterInv => GuessesBounded
  BY Finite DEF LimiterInv, GuessesBounded
<1> QED BY <1>1, <1>2, InitType, TypeStep, LimiterStep, PTL DEF Spec
=============================================================================
