------------------------------ MODULE Sessions ------------------------------
(***************************************************************************)
(* Sessions: login, refresh, logout and change-password, and what an       *)
(* access token is worth at any other request (requireAuth).               *)
(*                                                                         *)
(* An access token is signed and kept nowhere: it counts until it expires, *)
(* as long as its user is active.  A refresh token is a key of the KV      *)
(* namespace, which is not a database: every edge of the network reads     *)
(* through a cache of its own, so that an edge may see a session that is   *)
(* deleted already.  users is read and written as everywhere, one action   *)
(* per statement.                                                          *)
(***************************************************************************)
EXTENDS Naturals

CONSTANTS
  Users,        \* the users, by id; a user is never removed
  Secrets,      \* passwords
  Requests,     \* requests, each handled once
  OldTokens,    \* refresh tokens handed out before the model starts
  Edges,        \* locations of the KV namespace
  Inputs,       \* the bodies that are sent
  NoUser, NoToken, NoSession, NoAccess, NotCached, NoInput,
  AccessTtl, RefreshTtl,  \* ACCESS_TOKEN_TTL_SECONDS, REFRESH_TOKEN_TTL_SECONDS
  MaxTime       \* bound: the last instant of the model

(* createRefreshToken: the token a login makes is new, so it bears the     *)
(* name of the request.                                                    *)
Tokens == Requests \cup OldTokens

Instants == 0..MaxTime
UserRow == [status : {0, 1}, secret : Secrets]
Session == [user : Users, expires : 0..(MaxTime + RefreshTtl), deleted : BOOLEAN]
Access == [user : Users, exp : 0..(MaxTime + AccessTtl)]

(* "other" is any other request behind requireAuth; only its               *)
(* authentication is told here.                                            *)
Input ==
  [kind : {"login", "refresh", "logout", "change", "other"}, wellFormed : BOOLEAN,
   user : Users \cup {NoUser}, secret : Secrets, newSecret : Secrets, edge : Edges]

ASSUME SessionAssumption ==
  /\ Inputs \subseteq Input
  /\ Requests \cap OldTokens = {}
  /\ NoUser \notin Users /\ NoToken \notin Tokens
  /\ NoSession \notin Session /\ NotCached \notin Session \cup {NoSession}
  /\ NoAccess \notin Access /\ NoInput \notin Inputs
  /\ AccessTtl \in Nat /\ RefreshTtl \in Nat /\ MaxTime \in Nat

VARIABLES
  clock,
  users,     \* the users table: status, and the password hash as its password
  kv,        \* the sessions in the KV namespace, by refresh token
  cache,     \* what each edge has cached of them
  pc,        \* what the handler of a request awaits next
  input,     \* the body the request comes with
  token,     \* the refresh token it presents, or makes
  access,    \* the access token it presents, or makes
  reply,     \* the status of the answer
  rowsSince, \* history: the rows each user has had since the request came in
  spent      \* history: its refresh token was logged out, and the client told so

tables == <<users, kv, cache>>
vars == <<clock, tables, pc, input, token, access, reply, rowsSince, spent>>

-----------------------------------------------------------------------------
NewAccess(u) == [user |-> u, exp |-> clock + AccessTtl]

(* What clients have been handed.  An access token made for an old session *)
(* is still good for a while.                                              *)
Granted(r) == reply[r] = 200 /\ input[r].kind \in {"login", "refresh"}
IssuedAccess ==
  {access[r] : r \in {q \in Requests : Granted(q)}}
  \cup {[user |-> kv[t].user, exp |-> AccessTtl] : t \in OldTokens}
IssuedTokens == {r \in Requests : Granted(r) /\ input[r].kind = "login"} \cup OldTokens

LoggedOut(t) ==
  \E q \in Requests : reply[q] = 200 /\ input[q].kind = "logout" /\ token[q] = t

Deleted(t) == kv[t] # NoSession /\ kv[t].deleted
Expired(t) == kv[t] # NoSession /\ kv[t].expires <= clock

(* What the namespace itself holds under a key. *)
Stored(t) == IF Deleted(t) \/ Expired(t) THEN NoSession ELSE kv[t]

(* kv.get at an edge: its copy if it has one, and a copy is made if not.   *)
Cached(e, t) == IF cache[e][t] # NotCached THEN cache[e][t] ELSE Stored(t)

Init ==
  /\ clock = 0
  /\ users \in [Users -> {[status |-> 1, secret |-> s] : s \in Secrets}]
  /\ kv \in [Tokens -> {NoSession} \cup
                [user : Users, expires : {RefreshTtl}, deleted : {FALSE}]]
  /\ \A t \in Tokens : kv[t] # NoSession <=> t \in OldTokens
  /\ cache = [e \in Edges |-> [t \in Tokens |-> NotCached]]
  /\ pc = [r \in Requests |-> "idle"]
  /\ input = [r \in Requests |-> NoInput]
  /\ token = [r \in Requests |-> NoToken]
  /\ access = [r \in Requests |-> NoAccess]
  /\ reply = [r \in Requests |-> 0]
  /\ rowsSince = [r \in Requests |-> [u \in Users |-> {}]]
  /\ spent = [r \in Requests |-> FALSE]
-----------------------------------------------------------------------------
(* Steps of handlers *)

Await(r, label) ==
  /\ pc' = [pc EXCEPT ![r] = label]
  /\ UNCHANGED <<clock, input, reply, rowsSince, spent>>

Answer(r, status) ==
  /\ pc' = [pc EXCEPT ![r] = "done"]
  /\ reply' = [reply EXCEPT ![r] = status]
  /\ UNCHANGED <<clock, input, rowsSince, spent>>

Refuse(r, status) == Answer(r, status) /\ UNCHANGED <<tables, token, access>>

(* The row of the user a request speaks for is read.                       *)
Active(u) == u \in Users /\ users[u].status = 1

(* The request arrives with the tokens its client holds.  A body without   *)
(* the names it needs is refused at once where there is no requireAuth.    *)
MalformedStatus(i) == IF i.kind = "login" THEN 401 ELSE 403

ReceiveOpen(r, i) ==
  /\ i.kind \in {"login", "refresh"}
  /\ \/ /\ ~i.wellFormed
        /\ pc' = [pc EXCEPT ![r] = "done"]
        /\ reply' = [reply EXCEPT ![r] = MalformedStatus(i)]
        /\ UNCHANGED token
     \/ /\ i.wellFormed
        /\ pc' = [pc EXCEPT ![r] = IF i.kind = "login" THEN "user" ELSE "get"]
        /\ IF i.kind = "login" THEN UNCHANGED token
           ELSE \E t \in IssuedTokens : token' = [token EXCEPT ![r] = t]
        /\ UNCHANGED reply
  /\ UNCHANGED access

(* verifyAccessToken: a token that has expired, or none, is refused before *)
(* the user is read.                                                       *)
ReceiveGuarded(r, i) ==
  /\ i.kind \in {"logout", "change", "other"}
  /\ \/ /\ \A a \in IssuedAccess : a.exp <= clock
        /\ pc' = [pc EXCEPT ![r] = "done"]
        /\ reply' = [reply EXCEPT ![r] = 401]
        /\ UNCHANGED <<token, access>>
     \/ \E a \in IssuedAccess, t \in IssuedTokens :
        /\ a.exp > clock
        /\ access' = [access EXCEPT ![r] = a]
        /\ token' = [token EXCEPT ![r] = IF i.kind = "logout" THEN t ELSE NoToken]
        /\ pc' = [pc EXCEPT ![r] = "auth"]
        /\ UNCHANGED reply

Receive(r) ==
  /\ pc[r] = "idle"
  /\ \E i \in Inputs :
       /\ ReceiveOpen(r, i) \/ ReceiveGuarded(r, i)
       /\ input' = [input EXCEPT ![r] = i]
  /\ rowsSince' = [rowsSince EXCEPT ![r] = [u \in Users |-> {users[u]}]]
  /\ spent' = [spent EXCEPT ![r] = token'[r] # NoToken /\ LoggedOut(token'[r])]
  /\ UNCHANGED <<clock, tables>>

(* requireAuth reads the row of the token's user, then the controller      *)
(* checks the body.                                                        *)
Authenticate(r) ==
  /\ pc[r] = "auth"
  /\ LET i == input[r] IN
     \/ ~Active(access[r].user) /\ Refuse(r, 401)
     \/ Active(access[r].user) /\ i.kind = "other" /\ Refuse(r, 200)
     \/ Active(access[r].user) /\ i.kind # "other" /\ ~i.wellFormed /\ Refuse(r, 400)
     \/ /\ Active(access[r].user) /\ i.kind # "other" /\ i.wellFormed
        /\ Await(r, IF i.kind = "logout" THEN "get" ELSE "secret")
        /\ UNCHANGED <<tables, token, access>>

(* loginService: the row is read, the password compared, both tokens made. *)
ReadLogin(r) ==
  /\ pc[r] = "user" /\ input[r].kind = "login"
  /\ LET u == input[r].user IN
     \/ ~Active(u) /\ Refuse(r, 401)
     \/ Active(u) /\ users[u].secret # input[r].secret /\ Refuse(r, 401)
     \/ /\ Active(u) /\ users[u].secret = input[r].secret
        /\ access' = [access EXCEPT ![r] = NewAccess(u)]
        /\ token' = [token EXCEPT ![r] = r]
        /\ Await(r, "put")
        /\ UNCHANGED tables

(* Mutant: the life of a session is given in milliseconds.                 *)
PutSessionInMilliseconds(r) ==
  /\ pc[r] = "put"
  /\ kv' = [kv EXCEPT ![token[r]] = [user |-> access[r].user,
              expires |-> clock + 1000 * RefreshTtl, deleted |-> FALSE]]
  /\ cache' = [cache EXCEPT ![input[r].edge][token[r]] = NotCached]
  /\ Await(r, "respond")
  /\ UNCHANGED <<users, token, access>>

(* kv.put: the namespace has the session from here on.                     *)
PutSession(r) ==
  /\ pc[r] = "put"
  /\ kv' = [kv EXCEPT ![token[r]] = [user |-> access[r].user,
              expires |-> clock + RefreshTtl, deleted |-> FALSE]]
  /\ cache' = [cache EXCEPT ![input[r].edge][token[r]] = NotCached]
  /\ Await(r, "respond")
  /\ UNCHANGED <<users, token, access>>

(* refreshService and logoutService look the session up at their edge.     *)
GetSession(r) ==
  /\ pc[r] = "get"
  /\ LET e == input[r].edge
         found == Cached(e, token[r])
     IN /\ cache' = [cache EXCEPT ![e][token[r]] = found]
        /\ \/ found = NoSession /\ Answer(r, 403)
           \/ /\ found # NoSession
              /\ Await(r, IF input[r].kind = "refresh" THEN "user" ELSE "delete")
  /\ UNCHANGED <<users, kv, token, access>>

(* Mutant: a refresh trusts the session and does not read the user.        *)
ReadRefreshFromSession(r) ==
  /\ pc[r] = "user" /\ input[r].kind = "refresh"
  /\ access' = [access EXCEPT ![r] = NewAccess(kv[token[r]].user)]
  /\ Answer(r, 200)
  /\ UNCHANGED <<tables, token>>

(* Mutant: a refresh uses its token up, as refresh tokens that rotate are. *)
ReadRefreshAndRotate(r) ==
  /\ pc[r] = "user" /\ input[r].kind = "refresh"
  /\ Active(kv[token[r]].user)
  /\ access' = [access EXCEPT ![r] = NewAccess(kv[token[r]].user)]
  /\ kv' = [kv EXCEPT ![token[r]].deleted = TRUE]
  /\ Answer(r, 200)
  /\ UNCHANGED <<users, cache, token>>

(* Mutant: a refresh gives its session another two weeks.                  *)
ReadRefreshAndExtend(r) ==
  /\ pc[r] = "user" /\ input[r].kind = "refresh"
  /\ Active(kv[token[r]].user)
  /\ access' = [access EXCEPT ![r] = NewAccess(kv[token[r]].user)]
  /\ kv' = [kv EXCEPT ![token[r]] = [user |-> @.user, expires |-> clock + RefreshTtl,
                                      deleted |-> FALSE]]
  /\ Answer(r, 200)
  /\ UNCHANGED <<users, cache, token>>

(* The session's user is read anew: only an active one gets a new access   *)
(* token, and the session of any other is deleted.                         *)
ReadRefresh(r) ==
  /\ pc[r] = "user" /\ input[r].kind = "refresh"
  /\ LET u == kv[token[r]].user IN
     \/ /\ Active(u)
        /\ access' = [access EXCEPT ![r] = NewAccess(u)]
        /\ Answer(r, 200)
        /\ UNCHANGED <<tables, token>>
     \/ /\ ~Active(u)
        /\ Await(r, "delete")
        /\ UNCHANGED <<tables, token, access>>

DeleteSession(r) ==
  /\ pc[r] = "delete"
  /\ kv' = [kv EXCEPT ![token[r]].deleted = TRUE]
  /\ cache' = [cache EXCEPT ![input[r].edge][token[r]] = NotCached]
  /\ Await(r, "respond")
  /\ UNCHANGED <<users, token, access>>

(* Mutant: a changed password is only compared if the user has not just    *)
(* logged in, as the access token shows.                                   *)
ReadSecretIfOldLogin(r) ==
  /\ pc[r] = "secret"
  /\ Active(access[r].user)
  /\ \/ access[r].exp = clock + AccessTtl
     \/ users[access[r].user].secret = input[r].secret
  /\ Await(r, "write")
  /\ UNCHANGED <<tables, token, access>>

(* changePasswordService reads the row again and compares the old password. *)
ReadSecret(r) ==
  /\ pc[r] = "secret"
  /\ LET u == access[r].user IN
     \/ (~Active(u) \/ users[u].secret # input[r].secret) /\ Refuse(r, 401)
     \/ /\ Active(u) /\ users[u].secret = input[r].secret
        /\ Await(r, "write")
        /\ UNCHANGED <<tables, token, access>>

(* The update names the id alone: whatever password is there is replaced.  *)
WriteSecret(r) ==
  /\ pc[r] = "write"
  /\ LET u == access[r].user
         row == [users[u] EXCEPT !.secret = input[r].newSecret]
     IN users' = [users EXCEPT ![u] = row]
        /\ rowsSince' = [q \in Requests |->
             IF pc[q] \in {"idle", "done"} THEN rowsSince[q]
             ELSE [rowsSince[q] EXCEPT ![u] = @ \cup {row}]]
  /\ pc' = [pc EXCEPT ![r] = "respond"]
  /\ UNCHANGED <<clock, kv, cache, input, token, access, reply, spent>>

Respond(r) ==
  /\ pc[r] = "respond"
  /\ Refuse(r, IF input[r].kind = "refresh" THEN 403 ELSE 200)

(* A call to the database or to KV rejects, the Worker is cut off, or, from *)
(* "respond", the write is done and the client never hears of it.          *)
Fail(r) ==
  /\ pc[r] \notin {"idle", "done"}
  /\ Refuse(r, 500)

Handle(r) ==
  \/ Receive(r) \/ Authenticate(r) \/ ReadLogin(r) \/ PutSession(r) \/ GetSession(r)
  \/ ReadRefresh(r) \/ DeleteSession(r) \/ ReadSecret(r) \/ WriteSecret(r)
  \/ Respond(r) \/ Fail(r)

-----------------------------------------------------------------------------
(* The environment *)

Tick ==
  /\ clock < MaxTime
  /\ clock' = clock + 1
  /\ UNCHANGED <<tables, pc, input, token, access, reply, rowsSince, spent>>

(* PATCH and DELETE /users: enable, disable, set another password.         *)
EditUser(u, row) ==
  /\ users' = [users EXCEPT ![u] = row]
  /\ rowsSince' = [r \in Requests |->
       IF pc[r] \in {"idle", "done"} THEN rowsSince[r]
       ELSE [rowsSince[r] EXCEPT ![u] = @ \cup {row}]]
  /\ UNCHANGED <<clock, kv, cache, pc, input, token, access, reply, spent>>

(* A copy of an edge goes out of date; nothing says when.                  *)
DropCopy(e, t) ==
  /\ cache[e][t] # NotCached
  /\ cache' = [cache EXCEPT ![e][t] = NotCached]
  /\ UNCHANGED <<clock, users, kv, pc, input, token, access, reply, rowsSince, spent>>

Environment ==
  \/ Tick
  \/ \E u \in Users, row \in UserRow : EditUser(u, row)
  \/ \E e \in Edges, t \in Tokens : DropCopy(e, t)

Next == (\E r \in Requests : Handle(r)) \/ Environment

Spec == Init /\ [][Next]_vars
-----------------------------------------------------------------------------
(* Properties *)

Answered(r, kinds) == reply[r] = 200 /\ input[r].kind \in kinds

(* The variables hold rows, sessions, labels and answers of the declared   *)
(* kinds; no session outlives the two weeks it is given.                   *)
TypeOK ==
  /\ clock \in Instants
  /\ users \in [Users -> UserRow]
  /\ kv \in [Tokens -> Session \cup {NoSession}]
  /\ cache \in [Edges -> [Tokens -> Session \cup {NoSession, NotCached}]]
  /\ pc \in [Requests -> {"idle", "auth", "user", "put", "get", "delete", "secret",
                           "write", "respond", "done"}]
  /\ input \in [Requests -> Inputs \cup {NoInput}]
  /\ token \in [Requests -> Tokens \cup {NoToken}]
  /\ access \in [Requests -> Access \cup {NoAccess}]
  /\ reply \in [Requests -> {0, 200, 400, 401, 403, 500}]
  /\ rowsSince \in [Requests -> [Users -> SUBSET UserRow]]
  /\ spent \in [Requests -> BOOLEAN]

(* A disabled user is cut off at once, whatever tokens and sessions he     *)
(* holds: an answer 200 to a request that comes with a token means that    *)
(* its user was active while the request was handled.                      *)
WasActive(r) ==
  LET u == IF input[r].kind = "refresh" THEN kv[token[r]].user ELSE access[r].user
  IN \E row \in rowsSince[r][u] : row.status = 1

ServedWhileActive ==
  \A r \in Requests :
    Answered(r, {"refresh", "logout", "change", "other"}) => WasActive(r)

(* Nobody logs in or changes a password without the password that was in   *)
(* force, on an active user, at some moment while the request was handled: *)
(* a password that was replaced before is of no use.                       *)
KnewThePassword ==
  \A r \in Requests :
    Answered(r, {"login", "change"}) =>
      \E row \in rowsSince[r][access[r].user] :
        row.status = 1 /\ row.secret = input[r].secret

(* A session ends for a reason: a refresh that is refused with 403, after  *)
(* which the app shows the login page, follows a logout with that token,   *)
(* its expiry, or a refresh while its user was disabled.  Requests that    *)
(* fail or race never end a session.                                       *)
AskedToLogout(t) ==
  \E q \in Requests : token[q] = t /\ input[q].kind = "logout"
RefreshedWhileDisabled(t) ==
  \E q \in Requests :
    /\ token[q] = t /\ input[q].kind = "refresh"
    /\ \E row \in rowsSince[q][kv[t].user] : row.status = 0

RefusedSessionIsGone ==
  \A r \in Requests :
    reply[r] = 403 /\ token[r] # NoToken /\ input[r].kind = "refresh" =>
      LET t == token[r] IN AskedToLogout(t) \/ Expired(t) \/ RefreshedWhileDisabled(t)

(* Once a session is deleted, has no copy at any edge and is in no         *)
(* handler's hands, it is gone for good: nothing a request still does, and *)
(* no cache, brings it back.                                               *)
InHand(t) ==
  \E r \in Requests :
    token[r] = t /\ pc[r] \in {"user", "delete"} /\ input[r].kind # "login"
Gone(t) ==
  /\ Deleted(t) /\ ~InHand(t)
  /\ \A e \in Edges : cache[e][t] \in {NotCached, NoSession}

LogoutIsFinal ==
  [][\A t \in Tokens : (Deleted(t) => Deleted(t)') /\ (Gone(t) => Gone(t)')]_vars

(* docs/api.md:165 and docs/app-api.md:179: after a logout that succeeded  *)
(* the refresh token can no longer be used to refresh.                     *)
LoggedOutIsRefused ==
  \A r \in Requests : spent[r] /\ input[r].kind = "refresh" => reply[r] # 200
=============================================================================
