------------------------------ MODULE Accounts -------------------------------
(***************************************************************************)
(* Operators, their sessions and the login limiter (internal/hub/auth.go,  *)
(* settings.go, cmd/hub/main.go). A step is one statement of the store or  *)
(* one section under the limiter's mutex; requests overlap, and the -admin *)
(* command changes a password from a process of its own.                   *)
(*                                                                         *)
(* A password is the number of times the operator's credentials were set.  *)
(***************************************************************************)
EXTENDS Integers, FiniteSets

CONSTANTS
  User,          \* operators
  Client,        \* addresses the limiter tells apart
  Request,       \* requests that may be served at once
  Limit, Window, \* loginMaxAttempts, loginWindow
  TTL,           \* sessionTTL
  StoreFails,    \* does a statement fail now and then?
  MaxClock, MaxChanges, MaxLogins, MaxTries, MaxRestarts   \* bounds

ASSUME AccountsAssumption ==
  /\ Limit \in Nat \ {0} /\ Window \in Nat /\ TTL \in Nat
  /\ IsFiniteSet(Request) /\ Request # {} /\ User # {} /\ Client # {}
  /\ StoreFails \in BOOLEAN
  /\ MaxClock \in Nat /\ MaxChanges \in Nat /\ MaxLogins \in Nat
  /\ MaxTries \in Nat /\ MaxRestarts \in Nat

Time == 0..MaxClock
Password == 0..MaxChanges
Attempt == [at : Time, no : 1..MaxTries]
Session == [token : 1..MaxLogins, user : User, expires : Nat, with : Password, late : BOOLEAN]

VARIABLES
  now,
  users, password,      \* the operators there are, the password of each
  sessions, logins,     \* the sessions table, tokens handed out
  attempts, tries,      \* the limiter's failures per client, all there were
  req,                  \* the requests being served
  tool,                 \* the -admin command
  restarts,
  uncleared             \* history: sessions of these were to be deleted and were not

limiter == <<attempts, tries>>
table == <<sessions, logins>>
vars == <<now, users, password, table, limiter, req, tool, restarts, uncleared>>

(* The record of a request: its next step, the client and operator it is   *)
(* for, the password it was checked against, and whether a change of       *)
(* account deleted the operator's sessions since (history).                *)
Step == {"idle", "lookup", "fail", "session", "reset", "check", "set", "delete"}
Req == [step : Step, client : Client, user : User, with : Password, late : BOOLEAN]
Tool == [step : {"idle", "delete"}, user : User]

Free == [step |-> "idle", client |-> CHOOSE c \in Client : TRUE,
         user |-> CHOOSE u \in User : TRUE, with |-> 0, late |-> FALSE]
Resting == [step |-> "idle", user |-> CHOOSE u \in User : TRUE]

TypeOK ==
  /\ now \in Time
  /\ users \subseteq User /\ password \in [User -> Password]
  /\ sessions \subseteq Session /\ logins \in 0..MaxLogins
  /\ \A s, t \in sessions : s.token = t.token => s = t
  /\ attempts \in [Client -> SUBSET Attempt] /\ tries \in 0..MaxTries
  /\ req \in [Request -> Req]
  /\ tool \in Tool
  /\ restarts \in 0..MaxRestarts /\ uncleared \subseteq User

(* ensureAdmin has made the first operator. *)
Init ==
  /\ now = 0
  /\ \E u \in User : users = {u}
  /\ password = [u \in User |-> 0]
  /\ sessions = {} /\ logins = 0
  /\ attempts = [c \in Client |-> {}] /\ tries = 0
  /\ req = [r \in Request |-> Free] /\ tool = Resting
  /\ restarts = 0 /\ uncleared = {}

Outcome == IF StoreFails THEN BOOLEAN ELSE {TRUE}

Goes(r, step) == req' = [req EXCEPT ![r].step = step]
Ends(r) == req' = [req EXCEPT ![r] = Free]

-----------------------------------------------------------------------------
(* The login limiter; its sections run under its mutex *)

Recent(c) == {a \in attempts[c] : a.at > now - Window}

(* fault: one more than the limit is let through *)
BlockedLate(c) == Cardinality(Recent(c)) > Limit

Blocked(c) == Cardinality(Recent(c)) >= Limit

-----------------------------------------------------------------------------
(* handleLogin *)

Login(r) ==
  /\ req[r].step = "idle"
  /\ \E c \in Client, u \in User :
       /\ attempts' = [attempts EXCEPT ![c] = Recent(c)]
       /\ \/ Blocked(c) /\ UNCHANGED req
          \/ /\ ~Blocked(c)
             /\ req' = [req EXCEPT ![r] = [Free EXCEPT !.step = "lookup", !.client = c, !.user = u]]
  /\ UNCHANGED <<now, users, password, table, tries, tool, restarts, uncleared>>

(* A body that cannot be read is no attempt. *)
Misread(r) ==
  /\ req[r].step = "lookup"
  /\ Ends(r)
  /\ UNCHANGED <<now, users, password, table, limiter, tool, restarts, uncleared>>

(* UserByName; then the password given is compared with the one read.      *)
Lookup(r) ==
  /\ req[r].step = "lookup"
  /\ \/ /\ req[r].user \in users
        /\ req' = [req EXCEPT ![r].step = "session", ![r].with = password[req[r].user]]
     \/ Goes(r, "fail")
  /\ UNCHANGED <<now, users, password, table, limiter, tool, restarts, uncleared>>

Fail(r) ==
  LET c == req[r].client IN
  /\ req[r].step = "fail" /\ tries < MaxTries
  /\ tries' = tries + 1
  /\ attempts' = [attempts EXCEPT ![c] = Recent(c) \cup {[at |-> now, no |-> tries + 1]}]
  /\ Ends(r)
  /\ UNCHANGED <<now, users, password, table, tool, restarts, uncleared>>

CreateSession(r) ==
  /\ req[r].step = "session" /\ logins < MaxLogins
  /\ \E ok \in Outcome :
       IF ok
       THEN /\ sessions' = sessions \cup
                 {[token |-> logins + 1, user |-> req[r].user, expires |-> now + TTL,
                   with |-> req[r].with, late |-> req[r].late]}
            /\ Goes(r, "reset")
       ELSE Ends(r) /\ UNCHANGED sessions
  /\ logins' = logins + 1
  /\ UNCHANGED <<now, users, password, limiter, tool, restarts, uncleared>>

Reset(r) ==
  /\ req[r].step = "reset"
  /\ attempts' = [attempts EXCEPT ![req[r].client] = {}]
  /\ Ends(r)
  /\ UNCHANGED <<now, users, password, table, tries, tool, restarts, uncleared>>

-----------------------------------------------------------------------------
(* Sessions and changes of account *)

Expired(s) == s.expires < now

(* SessionUser, before every request of a signed-in operator: one that is  *)
(* too late loses its session (the row never changes between the SELECT    *)
(* and the DELETE). Only a change of account is followed further.          *)
Enter(r) ==
  /\ req[r].step = "idle"
  /\ \E s \in sessions :
       IF Expired(s) THEN sessions' = sessions \ {s} /\ UNCHANGED req
       ELSE /\ req' = [req EXCEPT ![r] = [Free EXCEPT !.step = "check", !.user = s.user]]
            /\ UNCHANGED sessions
  /\ UNCHANGED <<now, users, password, logins, limiter, tool, restarts, uncleared>>

(* UserByID and the current password, which may be wrong. *)
Check(r) ==
  /\ req[r].step = "check"
  /\ \/ req' = [req EXCEPT ![r].step = "set", ![r].with = password[req[r].user]]
     \/ Ends(r)
  /\ UNCHANGED <<now, users, password, table, limiter, tool, restarts, uncleared>>

SetCredentials(u) ==
  /\ password[u] < MaxChanges
  /\ password' = [password EXCEPT ![u] = @ + 1]

SetAccount(r) ==
  /\ req[r].step = "set"
  /\ \/ SetCredentials(req[r].user) /\ Goes(r, "delete")
     \/ StoreFails /\ Ends(r) /\ UNCHANGED password
  /\ UNCHANGED <<now, users, table, limiter, tool, restarts, uncleared>>

(* Logins that have compared the password of u but not yet made their      *)
(* session are noted as late.                                              *)
LateFor(u, p) == IF p.step = "session" /\ p.user = u THEN [p EXCEPT !.late = TRUE] ELSE p

(* fault: only the session the change was made in is ended *)
DeleteOneSession(r) ==
  /\ req[r].step = "delete"
  /\ Ends(r)
  /\ \E s \in sessions : s.user = req[r].user /\ sessions' = sessions \ {s}
  /\ UNCHANGED <<now, users, password, logins, limiter, tool, restarts, uncleared>>

(* DeleteUserSessions; an error is not looked at. *)
DeleteAccountSessions(r) ==
  LET u == req[r].user IN
  /\ req[r].step = "delete"
  /\ \E ok \in Outcome :
       IF ok
       THEN /\ sessions' = {s \in sessions : s.user # u}
            /\ uncleared' = uncleared \ {u}
            /\ req' = [q \in Request |-> IF q = r THEN Free ELSE LateFor(u, req[q])]
       ELSE /\ uncleared' = uncleared \cup {u}
            /\ Ends(r) /\ UNCHANGED sessions
  /\ UNCHANGED <<now, users, password, logins, limiter, tool, restarts>>

(* handleLogout, with any cookie. *)
Logout ==
  /\ \E s \in sessions : sessions' = sessions \ {s}
  /\ UNCHANGED <<now, users, password, logins, limiter, req, tool, restarts, uncleared>>

(* maintenanceLoop *)
PruneSessions ==
  /\ \E s \in sessions : Expired(s)
  /\ sessions' = {s \in sessions : ~Expired(s)}
  /\ UNCHANGED <<now, users, password, logins, limiter, req, tool, restarts, uncleared>>

-----------------------------------------------------------------------------
(* The -admin command, beside the hub; a deletion that fails is also a     *)
(* command killed between its two statements                               *)

ToolSets(u) ==
  /\ tool.step = "idle"
  /\ IF u \in users
     THEN SetCredentials(u) /\ tool' = [step |-> "delete", user |-> u] /\ UNCHANGED users
     ELSE users' = users \cup {u} /\ UNCHANGED <<password, tool>>
  /\ UNCHANGED <<now, table, limiter, req, restarts, uncleared>>

ToolDeletes ==
  /\ tool.step = "delete"
  /\ \E ok \in Outcome :
       IF ok
       THEN /\ sessions' = {s \in sessions : s.user # tool.user}
            /\ uncleared' = uncleared \ {tool.user}
            /\ req' = [q \in Request |-> LateFor(tool.user, req[q])]
       ELSE uncleared' = uncleared \cup {tool.user} /\ UNCHANGED <<sessions, req>>
  /\ tool' = Resting
  /\ UNCHANGED <<now, users, password, logins, limiter, restarts>>

-----------------------------------------------------------------------------

Tick ==
  /\ now < MaxClock /\ now' = now + 1
  /\ UNCHANGED <<users, password, table, limiter, req, tool, restarts, uncleared>>

(* The hub ends and starts again: it forgets the limiter's failures.       *)
Restart ==
  /\ restarts < MaxRestarts /\ restarts' = restarts + 1
  /\ uncleared' = uncleared \cup {req[r].user : r \in {q \in Request : req[q].step = "delete"}}
  /\ req' = [r \in Request |-> Free]
  /\ attempts' = [c \in Client |-> {}]
  /\ UNCHANGED <<now, users, password, table, tries, tool>>

Handle(r) ==
  \/ Login(r) \/ Misread(r) \/ Lookup(r) \/ Fail(r) \/ CreateSession(r) \/ Reset(r)
  \/ Enter(r) \/ Check(r) \/ SetAccount(r) \/ DeleteAccountSessions(r)

Next ==
  \/ \E r \in Request : Handle(r)
  \/ Logout \/ PruneSessions
  \/ \E u \in User : ToolSets(u)
  \/ ToolDeletes \/ Tick \/ Restart

Spec == Init /\ [][Next]_vars

-----------------------------------------------------------------------------
(* Properties *)

(* The operator's sessions are still to be deleted.                        *)
Changing(u) ==
  \/ tool.step = "delete" /\ tool.user = u
  \/ \E r \in Request : req[r].step = "delete" /\ req[r].user = u

(* "Every other cookie for this operator dies with the old password": once *)
(* a change of account is through, every session was made with the present *)
(* password, except of a login that had compared the old one and was not   *)
(* yet done, and where the deletion failed or was cut off by a restart.    *)
SessionsMatchPassword ==
  \A s \in sessions :
    s.with = password[s.user] \/ s.late \/ Changing(s.user) \/ s.user \in uncleared

(* The limiter asks before the password is compared and is told after, so  *)
(* logins served at once can all be let in: but no more failures of one    *)
(* client fall into a window than the limit and those logins allow.        *)
GuessesBounded ==
  \A c \in Client : Cardinality(Recent(c)) <= Limit - 1 + Cardinality(Request)
=============================================================================
