--------------------------- MODULE SessionProofs ----------------------------
(***************************************************************************)
(* Sessions, for any number of users, requests, tokens and edges: a        *)
(* disabled user is cut off at once, no password is of use after it was    *)
(* replaced, a session that is gone stays gone, and none ends without a    *)
(* reason.                                                                 *)
(***************************************************************************)
EXTENDS Sessions, TLAPS

Running == {"auth", "user", "put", "get", "delete", "secret", "write", "respond"}

HasAccess(r) == access[r] \in Access
HasSession(r) == token[r] \in Tokens /\ kv[token[r]] # NoSession

(* A row of the user, while r was handled, under which it may go on.       *)
AccessWasActive(r) == \E row \in rowsSince[r][access[r].user] : row.status = 1
Knew(r) ==
  \E row \in rowsSince[r][access[r].user] : row.status = 1 /\ row.secret = input[r].secret

(* What a handler has established when it awaits the next statement.       *)
Established(r) ==
  /\ pc[r] = "auth" =>
       /\ input[r].kind \in {"logout", "change", "other"} /\ HasAccess(r)
       /\ input[r].kind = "logout" => token[r] \in Tokens
  /\ pc[r] = "user" =>
       /\ input[r].kind \in {"login", "refresh"}
       /\ input[r].kind = "refresh" => HasSession(r)
  /\ pc[r] = "put" =>
       input[r].kind = "login" /\ HasAccess(r) /\ token[r] = r /\ kv[r] = NoSession /\ Knew(r)
  /\ pc[r] = "get" =>
       /\ input[r].kind \in {"refresh", "logout"} /\ token[r] \in Tokens
       /\ input[r].kind = "logout" => HasAccess(r) /\ AccessWasActive(r)
  /\ pc[r] = "delete" =>
       /\ input[r].kind \in {"refresh", "logout"} /\ HasSession(r)
       /\ input[r].kind = "logout" => HasAccess(r) /\ AccessWasActive(r)
  /\ pc[r] = "secret" => input[r].kind = "change" /\ HasAccess(r) /\ AccessWasActive(r)
  /\ pc[r] = "write" => input[r].kind = "change" /\ HasAccess(r) /\ Knew(r)
  /\ pc[r] = "respond" =>
       /\ input[r].kind \in {"login", "refresh", "logout", "change"}
       /\ input[r].kind \in {"login", "change"} => HasAccess(r) /\ Knew(r)
       /\ input[r].kind = "logout" => HasAccess(r) /\ AccessWasActive(r)

(* What a request has to show for an answer 200.                           *)
Earned(r) ==
  reply[r] = 200 =>
    /\ pc[r] = "done" /\ HasAccess(r)
    /\ input[r].kind \in {"login", "change"} => Knew(r)
    /\ input[r].kind \in {"logout", "change", "other"} => AccessWasActive(r)
    /\ input[r].kind = "refresh" => HasSession(r) /\ WasActive(r)

RequestInv(r) ==
  /\ pc[r] = "idle" => reply[r] = 0
  /\ pc[r] # "idle" => input[r] \in Inputs
  /\ pc[r] \in Running => reply[r] = 0 /\ \A u \in Users : users[u] \in rowsSince[r][u]
  /\ Established(r)
  /\ Earned(r)

(* A session is in the namespace before it is anywhere else, and a login's *)
(* is put there once.                                                      *)
SharedInv ==
  /\ \A t \in OldTokens : kv[t] # NoSession
  /\ \A r \in Requests : kv[r] # NoSession => pc[r] \in {"respond", "done"}
  /\ \A e \in Edges, t \in Tokens : cache[e][t] \in Session => kv[t] # NoSession

Inv == TypeOK /\ SharedInv /\ \A r \in Requests : RequestInv(r)

LEMMA InitInv == Init => Inv
<1> SUFFICES ASSUME Init PROVE Inv
  OBVIOUS
<1> USE SessionAssumption DEF Init
<1>1. TypeOK
  <2>1. kv \in [Tokens -> Session \cup {NoSession}]
    <3>1. RefreshTtl \in 0..(MaxTime + RefreshTtl)
      OBVIOUS
    <3>2. \A x \in [user : Users, expires : {RefreshTtl}, deleted : {FALSE}] : x \in Session
      BY <3>1 DEF Session
    <3> QED BY <3>2
  <2>2. users \in [Users -> UserRow]
    BY DEF UserRow
  <2> QED BY <2>1, <2>2 DEF TypeOK, Instants
<1>2. SharedInv
  BY DEF SharedInv, Tokens
<1>3. \A r \in Requests : RequestInv(r)
  BY DEF RequestInv, Established, Earned, Running
<1> QED BY <1>1, <1>2, <1>3 DEF Inv

-----------------------------------------------------------------------------
(* A step of somebody else leaves the request as it is, adds to the rows   *)
(* its users have had, and keeps the sessions that are there with their    *)
(* users.                                                                  *)
Elsewhere(r) ==
  /\ pc'[r] = pc[r] /\ input'[r] = input[r] /\ token'[r] = token[r]
  /\ access'[r] = access[r] /\ reply'[r] = reply[r]
  /\ \A u \in Users : rowsSince[r][u] \subseteq rowsSince'[r][u]
  /\ pc[r] \in Running => \A u \in Users : users'[u] \in rowsSince'[r][u]
  /\ pc[r] = "put" => kv'[r] = kv[r]

KvKeeps ==
  \A t \in Tokens : kv[t] # NoSession => kv'[t] # NoSession /\ kv'[t].user = kv[t].user

LEMMA ElsewhereInv ==
  ASSUME Inv, NEW r \in Requests, Elsewhere(r), KvKeeps
  PROVE  RequestInv(r)'
<1> USE DEF Elsewhere
<1>0. RequestInv(r) /\ kv \in [Tokens -> Session \cup {NoSession}]
  BY DEF Inv, TypeOK
<1>1. HasSession(r) => HasSession(r)' /\ kv'[token'[r]].user = kv[token[r]].user
                       /\ kv[token[r]].user \in Users
  BY <1>0 DEF HasSession, KvKeeps, Session
<1>2. HasAccess(r) => HasAccess(r)' /\ access[r].user \in Users
  BY DEF HasAccess, Access
<1>3. HasAccess(r) /\ AccessWasActive(r) => AccessWasActive(r)'
  BY <1>2 DEF AccessWasActive
<1>4. HasAccess(r) /\ Knew(r) => Knew(r)'
  BY <1>2 DEF Knew
<1>5. input[r].kind = "refresh" /\ HasSession(r) /\ WasActive(r) => WasActive(r)'
  BY <1>1 DEF WasActive
<1>6. Established(r)'
  BY <1>0, <1>1, <1>2, <1>3, <1>4 DEF RequestInv, Established
<1>7. Earned(r)'
  BY <1>0, <1>1, <1>2, <1>3, <1>4, <1>5 DEF RequestInv, Earned
<1> QED BY <1>0, <1>6, <1>7 DEF RequestInv

-----------------------------------------------------------------------------
(* Types                                                                   *)

LEMMA IssuedTypes ==
  ASSUME Inv
  PROVE  IssuedAccess \subseteq Access /\ IssuedTokens \subseteq Tokens
<1>1. ASSUME NEW t \in OldTokens PROVE [user |-> kv[t].user, exp |-> AccessTtl] \in Access
  <2>1. kv[t] \in Session
    BY DEF Inv, TypeOK, SharedInv, Tokens
  <2> QED BY <2>1, SessionAssumption DEF Session, Access
<1>2. ASSUME NEW r \in Requests, Granted(r) PROVE access[r] \in Access
  BY <1>2 DEF Granted, Inv, RequestInv, Earned, HasAccess
<1> QED BY <1>1, <1>2 DEF IssuedAccess, IssuedTokens, Tokens

LEMMA NewAccessType ==
  ASSUME TypeOK, NEW u \in Users
  PROVE  NewAccess(u) \in Access
BY SessionAssumption DEF TypeOK, NewAccess, Access, Instants

LEMMA CachedType ==
  ASSUME TypeOK, NEW e \in Edges, NEW t \in Tokens
  PROVE  Cached(e, t) \in Session \cup {NoSession}
BY SessionAssumption DEF TypeOK, Cached, Stored

Labels == {"idle", "done"} \cup Running

(* Steps that touch neither the tables nor the history.                    *)
LEMMA AwaitType ==
  ASSUME TypeOK, NEW r \in Requests, NEW label \in Labels, Await(r, label)
  PROVE  /\ clock' = clock /\ input' = input /\ reply' = reply
         /\ rowsSince' = rowsSince /\ spent' = spent
         /\ pc' = [pc EXCEPT ![r] = label]
         /\ pc' \in [Requests -> Labels]
BY DEF TypeOK, Await, Labels, Running

LEMMA AnswerType ==
  ASSUME TypeOK, NEW r \in Requests, NEW code \in {200, 400, 401, 403, 500}, Answer(r, code)
  PROVE  /\ clock' = clock /\ input' = input
         /\ rowsSince' = rowsSince /\ spent' = spent
         /\ reply' = [reply EXCEPT ![r] = code]
         /\ reply' \in [Requests -> {0, 200, 400, 401, 403, 500}]
         /\ pc' = [pc EXCEPT ![r] = "done"]
         /\ pc' \in [Requests -> Labels]
BY DEF TypeOK, Answer, Labels, Running

-----------------------------------------------------------------------------
(* The steps of a handler                                                  *)

LEMMA Combine ==
  ASSUME Inv, NEW r \in Requests, TypeOK', SharedInv', RequestInv(r)', KvKeeps,
         \A q \in Requests : q # r => Elsewhere(q)
  PROVE  Inv'
BY ElsewhereInv DEF Inv

OthersKeep(r) ==
  \A q \in Requests : q # r =>
    /\ pc'[q] = pc[q] /\ input'[q] = input[q] /\ token'[q] = token[q]
    /\ access'[q] = access[q] /\ reply'[q] = reply[q]

(* A step that reads: no table changes, and what is read is in the history *)
(* already.                                                                *)
Reads(r) ==
  /\ UNCHANGED <<clock, users, kv, cache, input, rowsSince, spent>>
  /\ pc' \in [Requests -> Labels] /\ token' \in [Requests -> Tokens \cup {NoToken}]
  /\ access' \in [Requests -> Access \cup {NoAccess}]
  /\ reply' \in [Requests -> {0, 200, 400, 401, 403, 500}]
  /\ pc[r] # "idle" /\ pc[r] # "done" /\ (pc[r] = "respond" => pc'[r] = "done")
  /\ OthersKeep(r)

LEMMA ReadsInv ==
  ASSUME Inv, NEW r \in Requests, Reads(r), RequestInv(r)'
  PROVE  Inv'
<1> USE DEF Reads
<1>1. TypeOK'
  BY DEF Inv, TypeOK, Labels, Running
<1>2. SharedInv'
  BY DEF Inv, SharedInv, OthersKeep
<1>3. KvKeeps
  BY DEF KvKeeps
<1>4. \A q \in Requests : q # r => Elsewhere(q)
  BY DEF Inv, RequestInv, Elsewhere, OthersKeep
<1> QED BY <1>1, <1>2, <1>3, <1>4, Combine

(* A refusal, or a failure, asks for nothing.                              *)
LEMMA RefuseInv ==
  ASSUME Inv, NEW r \in Requests, pc[r] \notin {"idle", "done"},
         NEW code \in {400, 401, 403, 500}, Refuse(r, code)
  PROVE  Inv'
<1>1. Answer(r, code) /\ UNCHANGED <<users, kv, cache, token, access>>
  BY DEF Refuse, tables
<1>2. Reads(r)
  BY <1>1, AnswerType DEF Reads, OthersKeep, Inv, TypeOK
<1>3. pc'[r] = "done" /\ reply'[r] = code /\ input'[r] = input[r]
  BY <1>1, AnswerType DEF Inv, TypeOK
<1>4. RequestInv(r)'
  BY <1>3 DEF Inv, RequestInv, Established, Earned, Running
<1> QED BY <1>2, <1>4, ReadsInv

(* An answer 200 that has been earned.                                     *)
LEMMA GrantInv ==
  ASSUME Inv, NEW r \in Requests, pc[r] \notin {"idle", "done"}, Refuse(r, 200), HasAccess(r),
         input[r].kind \in {"login", "change"} => Knew(r),
         input[r].kind \in {"logout", "change", "other"} => AccessWasActive(r),
         input[r].kind # "refresh"
  PROVE  Inv'
<1>1. Answer(r, 200) /\ UNCHANGED <<users, kv, cache, token, access>>
  BY DEF Refuse, tables
<1>2. Reads(r)
  BY <1>1, AnswerType DEF Reads, OthersKeep, Inv, TypeOK
<1>3. pc'[r] = "done" /\ reply'[r] = 200 /\ input'[r] = input[r] /\ rowsSince' = rowsSince
  BY <1>1, AnswerType DEF Inv, TypeOK
<1>4. RequestInv(r)'
  BY <1>1, <1>3 DEF Inv, RequestInv, Established, Earned, Running, HasAccess, Knew, AccessWasActive
<1> QED BY <1>2, <1>4, ReadsInv

LEMMA AuthenticateInv ==
  ASSUME Inv, NEW r \in Requests, Authenticate(r)
  PROVE  Inv'
<1>1. pc[r] = "auth" /\ RequestInv(r) /\ input[r] \in Input
  BY SessionAssumption DEF Authenticate, Inv, RequestInv
<1>2. /\ input[r].kind \in {"logout", "change", "other"} /\ HasAccess(r)
      /\ access[r].user \in Users /\ users[access[r].user] \in rowsSince[r][access[r].user]
      /\ input[r].kind = "logout" => token[r] \in Tokens
  BY <1>1 DEF RequestInv, Established, HasAccess, Access, Running
<1>3. Active(access[r].user) => AccessWasActive(r)
  BY <1>2 DEF Active, AccessWasActive
<1>4. CASE \E code \in {400, 401} : Refuse(r, code)
  BY <1>1, <1>4, RefuseInv
<1>5. CASE Active(access[r].user) /\ input[r].kind = "other" /\ Refuse(r, 200)
  BY <1>1, <1>2, <1>3, <1>5, GrantInv
<1>6. CASE /\ Active(access[r].user) /\ input[r].kind # "other"
           /\ Await(r, IF input[r].kind = "logout" THEN "get" ELSE "secret")
           /\ UNCHANGED <<tables, token, access>>
  <2> DEFINE label == IF input[r].kind = "logout" THEN "get" ELSE "secret"
  <2>0. label \in Labels /\ UNCHANGED <<users, kv, cache, token, access>>
    BY <1>6 DEF Labels, Running, tables
  <2>1. Await(r, label)
    BY <1>6
  <2> HIDE DEF label
  <2>2. Reads(r)
    BY <1>1, <2>0, <2>1, AwaitType DEF Reads, OthersKeep, Inv, TypeOK
  <2>3. /\ pc'[r] = label /\ reply' = reply /\ input' = input /\ rowsSince' = rowsSince
    BY <2>0, <2>1, AwaitType DEF Inv, TypeOK
  <2>4. RequestInv(r)'
    BY <1>1, <1>2, <1>3, <1>6, <2>0, <2>3
    DEF RequestInv, Established, Earned, Running, HasAccess, AccessWasActive, label
  <2> QED BY <2>2, <2>4, ReadsInv
<1> QED BY <1>4, <1>5, <1>6 DEF Authenticate

LEMMA ReadLoginInv ==
  ASSUME Inv, NEW r \in Requests, ReadLogin(r)
  PROVE  Inv'
<1> DEFINE u == input[r].user
<1>1. pc[r] = "user" /\ input[r].kind = "login" /\ RequestInv(r)
  BY DEF ReadLogin, Inv
<1>2. CASE Refuse(r, 401)
  BY <1>1, <1>2, RefuseInv
<1>3. CASE /\ Active(u) /\ users[u].secret = input[r].secret
           /\ access' = [access EXCEPT ![r] = NewAccess(u)] /\ token' = [token EXCEPT ![r] = r]
           /\ Await(r, "put") /\ UNCHANGED tables
  <2>0. u \in Users /\ users[u] \in rowsSince[r][u] /\ users[u].status = 1
    BY <1>1, <1>3 DEF RequestInv, Running, Active
  <2>1. NewAccess(u) \in Access /\ NewAccess(u).user = u
    BY <2>0, NewAccessType DEF NewAccess, Inv
  <2>2. UNCHANGED <<users, kv, cache>> /\ kv[r] = NoSession
    BY <1>1, <1>3 DEF tables, Inv, SharedInv
  <2>3. /\ access' \in [Requests -> Access \cup {NoAccess}]
        /\ token' \in [Requests -> Tokens \cup {NoToken}]
    BY <1>3, <2>1 DEF Inv, TypeOK, Tokens
  <2>4. /\ clock' = clock /\ input' = input /\ reply' = reply /\ rowsSince' = rowsSince
        /\ spent' = spent /\ pc' = [pc EXCEPT ![r] = "put"] /\ pc' \in [Requests -> Labels]
    BY <1>3, AwaitType DEF Inv, Labels, Running
  <2>5. Reads(r)
    BY <1>1, <1>3, <2>2, <2>3, <2>4 DEF Reads, OthersKeep, Inv, TypeOK
  <2>6. pc'[r] = "put" /\ access'[r] = NewAccess(u) /\ token'[r] = r
    BY <1>3, <2>4 DEF Inv, TypeOK
  <2>7. HasAccess(r)' /\ Knew(r)'
    BY <1>3, <2>0, <2>1, <2>4, <2>6 DEF HasAccess, Knew
  <2>8. RequestInv(r)'
    BY <1>1, <2>2, <2>4, <2>6, <2>7 DEF RequestInv, Established, Earned, Running
  <2> QED BY <2>5, <2>8, ReadsInv
<1> QED BY <1>2, <1>3 DEF ReadLogin

LEMMA ReadSecretInv ==
  ASSUME Inv, NEW r \in Requests, ReadSecret(r)
  PROVE  Inv'
<1> DEFINE u == access[r].user
<1>1. pc[r] = "secret" /\ RequestInv(r)
  BY DEF ReadSecret, Inv
<1>2. CASE Refuse(r, 401)
  BY <1>1, <1>2, RefuseInv
<1>3. CASE /\ Active(u) /\ users[u].secret = input[r].secret
           /\ Await(r, "write") /\ UNCHANGED <<tables, token, access>>
  <2>1. /\ clock' = clock /\ input' = input /\ reply' = reply /\ rowsSince' = rowsSince
        /\ spent' = spent /\ pc' = [pc EXCEPT ![r] = "write"] /\ pc' \in [Requests -> Labels]
    BY <1>3, AwaitType DEF Inv, Labels, Running
  <2>2. UNCHANGED <<users, kv, cache, token, access>>
    BY <1>3 DEF tables
  <2>3. Reads(r)
    BY <1>1, <2>1, <2>2 DEF Reads, OthersKeep, Inv, TypeOK
  <2>4. Knew(r) /\ HasAccess(r) /\ input[r].kind = "change"
    BY <1>1, <1>3 DEF RequestInv, Established, Running, Active, Knew
  <2>5. pc'[r] = "write"
    BY <2>1 DEF Inv, TypeOK
  <2>6. RequestInv(r)'
    BY <1>1, <2>1, <2>2, <2>4, <2>5 DEF RequestInv, Established, Earned, Running, Knew, HasAccess
  <2> QED BY <2>3, <2>6, ReadsInv
<1> QED BY <1>2, <1>3 DEF ReadSecret

LEMMA ReadRefreshInv ==
  ASSUME Inv, NEW r \in Requests, ReadRefresh(r)
  PROVE  Inv'
<1> DEFINE u == kv[token[r]].user
<1>1. pc[r] = "user" /\ input[r].kind = "refresh" /\ RequestInv(r)
  BY DEF ReadRefresh, Inv
<1>2. HasSession(r) /\ kv[token[r]] \in Session /\ u \in Users
      /\ users[u] \in rowsSince[r][u]
  <2>1. HasSession(r)
    BY <1>1 DEF RequestInv, Established
  <2>2. kv[token[r]] \in Session
    BY <2>1 DEF HasSession, Inv, TypeOK
  <2> QED BY <1>1, <2>1, <2>2 DEF Session, RequestInv, Running
<1>3. CASE /\ Active(u) /\ access' = [access EXCEPT ![r] = NewAccess(u)]
           /\ Answer(r, 200) /\ UNCHANGED <<tables, token>>
  <2>1. /\ clock' = clock /\ input' = input /\ rowsSince' = rowsSince /\ spent' = spent
        /\ reply' = [reply EXCEPT ![r] = 200] /\ pc' = [pc EXCEPT ![r] = "done"]
        /\ reply' \in [Requests -> {0, 200, 400, 401, 403, 500}]
        /\ pc' \in [Requests -> Labels]
    BY <1>3, AnswerType DEF Inv
  <2>2. NewAccess(u) \in Access
    BY <1>2, NewAccessType DEF Inv
  <2>3. UNCHANGED <<users, kv, cache, token>>
    BY <1>3 DEF tables
  <2>4. access' \in [Requests -> Access \cup {NoAccess}] /\ access'[r] = NewAccess(u)
    BY <1>3, <2>2 DEF Inv, TypeOK
  <2>5. Reads(r)
    BY <1>1, <1>3, <2>1, <2>3, <2>4 DEF Reads, OthersKeep, Inv, TypeOK
  <2>6. WasActive(r)'
    BY <1>1, <1>2, <1>3, <2>1, <2>3 DEF WasActive, Active
  <2>7. pc'[r] = "done" /\ reply'[r] = 200
    BY <2>1 DEF Inv, TypeOK
  <2>8. RequestInv(r)'
    BY <1>1, <1>2, <2>1, <2>2, <2>3, <2>4, <2>6, <2>7
    DEF RequestInv, Established, Earned, Running, HasAccess, HasSession
  <2> QED BY <2>5, <2>8, ReadsInv
<1>4. CASE Await(r, "delete") /\ UNCHANGED <<tables, token, access>>
  <2>1. /\ clock' = clock /\ input' = input /\ reply' = reply /\ rowsSince' = rowsSince
        /\ spent' = spent /\ pc' = [pc EXCEPT ![r] = "delete"] /\ pc' \in [Requests -> Labels]
    BY <1>4, AwaitType DEF Inv, Labels, Running
  <2>2. UNCHANGED <<users, kv, cache, token, access>>
    BY <1>4 DEF tables
  <2>3. Reads(r)
    BY <1>1, <2>1, <2>2 DEF Reads, OthersKeep, Inv, TypeOK
  <2>4. pc'[r] = "delete"
    BY <2>1 DEF Inv, TypeOK
  <2>5. RequestInv(r)'
    BY <1>1, <1>2, <2>1, <2>2, <2>4 DEF RequestInv, Established, Earned, Running, HasSession
  <2> QED BY <2>3, <2>5, ReadsInv
<1> QED BY <1>3, <1>4 DEF ReadRefresh

LEMMA RespondInv ==
  ASSUME Inv, NEW r \in Requests, Respond(r)
  PROVE  Inv'
<1>1. /\ pc[r] = "respond" /\ RequestInv(r)
      /\ input[r].kind \in {"login", "refresh", "logout", "change"}
  BY DEF Respond, Inv, RequestInv, Established
<1>2. CASE input[r].kind = "refresh"
  BY <1>1, <1>2, RefuseInv DEF Respond
<1>3. CASE input[r].kind # "refresh"
  <2>1. HasAccess(r) /\ (input[r].kind \in {"login", "change"} => Knew(r))
        /\ (input[r].kind \in {"logout", "change", "other"} => AccessWasActive(r))
    BY <1>1, <1>3 DEF RequestInv, Established, Knew, AccessWasActive
  <2> QED BY <1>1, <1>3, <2>1, GrantInv DEF Respond
<1> QED BY <1>2, <1>3

LEMMA FailInv ==
  ASSUME Inv, NEW r \in Requests, Fail(r)
  PROVE  Inv'
BY RefuseInv DEF Fail

-----------------------------------------------------------------------------
(* The steps that write                                                    *)

(* What all of them leave alone.                                           *)
LEMMA CacheType ==
  ASSUME Inv, NEW e \in Edges, NEW t \in Tokens,
         NEW found \in Session \cup {NoSession, NotCached},
         cache' = [cache EXCEPT ![e][t] = found]
  PROVE  /\ cache' \in [Edges -> [Tokens -> Session \cup {NoSession, NotCached}]]
         /\ cache'[e][t] = found
         /\ \A f \in Edges, v \in Tokens : f # e \/ v # t => cache'[f][v] = cache[f][v]
<1>1. cache \in [Edges -> [Tokens -> Session \cup {NoSession, NotCached}]]
  BY DEF Inv, TypeOK
<1>2. cache'[e] = [cache[e] EXCEPT ![t] = found] /\ \A f \in Edges : f # e => cache'[f] = cache[f]
  BY <1>1
<1>3. [cache[e] EXCEPT ![t] = found] \in [Tokens -> Session \cup {NoSession, NotCached}]
  BY <1>1
<1> QED BY <1>1, <1>2, <1>3

LEMMA GetSessionInv ==
  ASSUME Inv, NEW r \in Requests, GetSession(r)
  PROVE  Inv'
<1> DEFINE e == input[r].edge
           found == Cached(e, token[r])
<1>1. /\ pc[r] = "get" /\ RequestInv(r) /\ input[r] \in Input
      /\ input[r].kind \in {"refresh", "logout"} /\ token[r] \in Tokens /\ e \in Edges
  BY SessionAssumption DEF GetSession, Inv, RequestInv, Established, Input
<1>2. found \in Session \cup {NoSession}
  BY <1>1, CachedType DEF Inv
<1>3. found # NoSession => kv[token[r]] # NoSession
  BY <1>1, <1>2, SessionAssumption DEF Cached, Stored, Inv, SharedInv, TypeOK
<1>4. cache' = [cache EXCEPT ![e][token[r]] = found] /\ UNCHANGED <<users, kv, token, access>>
  BY DEF GetSession
<1> HIDE DEF found
<1>5. /\ cache' \in [Edges -> [Tokens -> Session \cup {NoSession, NotCached}]]
      /\ \A f \in Edges, t \in Tokens : cache'[f][t] = cache[f][t] \/ (t = token[r] /\ cache'[f][t] = found)
  BY <1>1, <1>2, <1>4, CacheType
<1>6. PICK label \in {"user", "delete", "done"} :
        /\ clock' = clock /\ input' = input /\ rowsSince' = rowsSince /\ spent' = spent
        /\ pc' = [pc EXCEPT ![r] = label] /\ pc' \in [Requests -> Labels]
        /\ reply' \in [Requests -> {0, 200, 400, 401, 403, 500}]
        /\ label = "done" => reply' = [reply EXCEPT ![r] = 403]
        /\ label # "done" =>
             /\ reply' = reply /\ found # NoSession
             /\ label = IF input[r].kind = "refresh" THEN "user" ELSE "delete"
  <2>1. CASE Answer(r, 403)
    BY <2>1, AnswerType DEF Inv
  <2>2. CASE found # NoSession /\ Await(r, IF input[r].kind = "refresh" THEN "user" ELSE "delete")
    BY <2>2, AwaitType DEF Inv, TypeOK, Labels, Running
  <2> QED BY <2>1, <2>2 DEF GetSession, found
<1>7. TypeOK'
  BY <1>4, <1>5, <1>6 DEF Inv, TypeOK, Labels, Running
<1>8. pc'[r] = label /\ (label = "done" => reply'[r] = 403)
  BY <1>6 DEF Inv, TypeOK
<1>9. SharedInv'
  BY <1>1, <1>2, <1>3, <1>4, <1>5, <1>6, SessionAssumption DEF Inv, SharedInv
<1>10. RequestInv(r)'
  BY <1>1, <1>3, <1>4, <1>6, <1>8
  DEF RequestInv, Established, Earned, Running, HasSession, HasAccess, AccessWasActive
<1>11. KvKeeps
  BY <1>4 DEF KvKeeps
<1>12. \A q \in Requests : q # r => Elsewhere(q)
  BY <1>4, <1>6 DEF Inv, TypeOK, RequestInv, Elsewhere
<1> QED BY <1>7, <1>9, <1>10, <1>11, <1>12, Combine

LEMMA PutSessionInv ==
  ASSUME Inv, NEW r \in Requests, PutSession(r)
  PROVE  Inv'
<1> DEFINE new == [user |-> access[r].user, expires |-> clock + RefreshTtl, deleted |-> FALSE]
           e == input[r].edge
<1>1. /\ pc[r] = "put" /\ RequestInv(r) /\ input[r].kind = "login" /\ HasAccess(r)
      /\ token[r] = r /\ kv[r] = NoSession /\ Knew(r)
      /\ input[r] \in Input /\ e \in Edges /\ r \in Tokens
  BY SessionAssumption DEF PutSession, Inv, RequestInv, Established, Input, Tokens
<1>2. new \in Session
  BY <1>1, SessionAssumption DEF Session, HasAccess, Access, Inv, TypeOK, Instants
<1>3. /\ kv' = [kv EXCEPT ![r] = new] /\ cache' = [cache EXCEPT ![e][r] = NotCached]
      /\ Await(r, "respond") /\ UNCHANGED <<users, token, access>>
  BY <1>1 DEF PutSession
<1> HIDE DEF new
<1>4. kv' \in [Tokens -> Session \cup {NoSession}] /\ kv'[r] = new
      /\ \A t \in Tokens : t # r => kv'[t] = kv[t]
  BY <1>1, <1>2, <1>3 DEF Inv, TypeOK
<1>5. /\ cache' \in [Edges -> [Tokens -> Session \cup {NoSession, NotCached}]]
      /\ \A f \in Edges, t \in Tokens : cache'[f][t] = cache[f][t] \/ cache'[f][t] = NotCached
  BY <1>1, <1>3, CacheType
<1>6. /\ clock' = clock /\ input' = input /\ reply' = reply /\ rowsSince' = rowsSince
      /\ spent' = spent /\ pc' = [pc EXCEPT ![r] = "respond"] /\ pc' \in [Requests -> Labels]
  BY <1>3, AwaitType DEF Inv, Labels, Running
<1>7. TypeOK'
  BY <1>3, <1>4, <1>5, <1>6 DEF Inv, TypeOK, Labels, Running
<1>8. pc'[r] = "respond" /\ \A q \in Requests : q # r => pc'[q] = pc[q]
  BY <1>6 DEF Inv, TypeOK
<1>9. SharedInv'
  BY <1>1, <1>2, <1>4, <1>5, <1>8, SessionAssumption DEF Inv, SharedInv, Tokens
<1>10. RequestInv(r)'
  BY <1>1, <1>3, <1>6, <1>8 DEF RequestInv, Established, Earned, Running, HasAccess, Knew
<1>11. KvKeeps
  BY <1>1, <1>4 DEF KvKeeps
<1>12. \A q \in Requests : q # r => Elsewhere(q)
  BY <1>3, <1>4, <1>6, <1>8 DEF Inv, TypeOK, RequestInv, Elsewhere, Tokens
<1> QED BY <1>7, <1>9, <1>10, <1>11, <1>12, Combine

LEMMA DeleteSessionInv ==
  ASSUME Inv, NEW r \in Requests, DeleteSession(r)
  PROVE  Inv'
<1> DEFINE t0 == token[r]
           e == input[r].edge
           gone == [kv[t0] EXCEPT !.deleted = TRUE]
<1>1. /\ pc[r] = "delete" /\ RequestInv(r) /\ HasSession(r)
      /\ input[r].kind \in {"refresh", "logout"} /\ input[r] \in Input /\ e \in Edges
      /\ t0 \in Tokens /\ kv[t0] \in Session
      /\ input[r].kind = "logout" => HasAccess(r) /\ AccessWasActive(r)
  BY SessionAssumption DEF DeleteSession, Inv, TypeOK, RequestInv, Established, Input, HasSession
<1>2. gone \in Session /\ gone.user = kv[t0].user
  BY <1>1 DEF Session
<1>3. /\ kv' = [kv EXCEPT ![t0] = gone] /\ cache' = [cache EXCEPT ![e][t0] = NotCached]
      /\ Await(r, "respond") /\ UNCHANGED <<users, token, access>>
  BY DEF DeleteSession
<1> HIDE DEF gone
<1>4. /\ kv' \in [Tokens -> Session \cup {NoSession}] /\ kv'[t0] = gone
      /\ \A t \in Tokens : t # t0 => kv'[t] = kv[t]
  BY <1>1, <1>2, <1>3 DEF Inv, TypeOK
<1>5. /\ cache' \in [Edges -> [Tokens -> Session \cup {NoSession, NotCached}]]
      /\ \A f \in Edges, t \in Tokens : cache'[f][t] = cache[f][t] \/ cache'[f][t] = NotCached
  BY <1>1, <1>3, CacheType
<1>6. /\ clock' = clock /\ input' = input /\ reply' = reply /\ rowsSince' = rowsSince
      /\ spent' = spent /\ pc' = [pc EXCEPT ![r] = "respond"] /\ pc' \in [Requests -> Labels]
  BY <1>3, AwaitType DEF Inv, Labels, Running
<1>7. TypeOK'
  BY <1>3, <1>4, <1>5, <1>6 DEF Inv, TypeOK, Labels, Running
<1>8. pc'[r] = "respond" /\ \A q \in Requests : q # r => pc'[q] = pc[q]
  BY <1>6 DEF Inv, TypeOK
<1>9. \A t \in Tokens : kv[t] = NoSession <=> kv'[t] = NoSession
  BY <1>1, <1>2, <1>4, SessionAssumption
<1>10. SharedInv'
  BY <1>5, <1>8, <1>9, SessionAssumption DEF Inv, SharedInv, Tokens
<1>11. RequestInv(r)'
  BY <1>1, <1>3, <1>6, <1>8 DEF RequestInv, Established, Earned, Running, HasAccess, AccessWasActive
<1>12. KvKeeps
  BY <1>2, <1>4, <1>9 DEF KvKeeps
<1>13. \A q \in Requests : q # r => Elsewhere(q)
  <2> SUFFICES ASSUME NEW q \in Requests, q # r PROVE Elsewhere(q)
    OBVIOUS
  <2>1. pc[q] = "put" => kv'[q] = kv[q]
    BY <1>9, <1>4 DEF Inv, RequestInv, Established, Tokens
  <2> QED BY <1>3, <1>6, <1>8, <2>1 DEF Inv, TypeOK, RequestInv, Elsewhere
<1> QED BY <1>7, <1>10, <1>11, <1>12, <1>13, Combine

-----------------------------------------------------------------------------
(* A row of users is written: the history of every request that is under   *)
(* way gains it.                                                           *)
RowWritten(u, row) ==
  /\ users' = [users EXCEPT ![u] = row]
  /\ rowsSince' = [q \in Requests |->
       IF pc[q] \in {"idle", "done"} THEN rowsSince[q]
       ELSE [rowsSince[q] EXCEPT ![u] = @ \cup {row}]]

LEMMA HistoryOfWrite ==
  ASSUME Inv, NEW u \in Users, NEW row \in UserRow, RowWritten(u, row)
  PROVE  /\ users' \in [Users -> UserRow]
         /\ rowsSince' \in [Requests -> [Users -> SUBSET UserRow]]
         /\ \A q \in Requests, v \in Users : rowsSince[q][v] \subseteq rowsSince'[q][v]
         /\ \A q \in Requests, v \in Users : pc[q] \in Running => users'[v] \in rowsSince'[q][v]
<1>1. users \in [Users -> UserRow] /\ rowsSince \in [Requests -> [Users -> SUBSET UserRow]]
  BY DEF Inv, TypeOK
<1>2. users' \in [Users -> UserRow]
  BY <1>1 DEF RowWritten
<1>3. ASSUME NEW q \in Requests
      PROVE  /\ rowsSince'[q] \in [Users -> SUBSET UserRow]
             /\ \A v \in Users : rowsSince[q][v] \subseteq rowsSince'[q][v]
             /\ \A v \in Users : pc[q] \in Running => users'[v] \in rowsSince'[q][v]
  <2>1. rowsSince[q] \in [Users -> SUBSET UserRow]
    BY <1>1
  <2>2. CASE pc[q] \in {"idle", "done"}
    BY <2>1, <2>2 DEF RowWritten, Running
  <2>3. CASE pc[q] \notin {"idle", "done"}
    <3>1. rowsSince'[q] = [rowsSince[q] EXCEPT ![u] = rowsSince[q][u] \cup {row}]
      BY <2>3 DEF RowWritten
    <3>2. \A v \in Users : rowsSince'[q][v] =
             IF v = u THEN rowsSince[q][u] \cup {row} ELSE rowsSince[q][v]
      BY <2>1, <3>1
    <3>3. \A v \in Users : users'[v] = IF v = u THEN row ELSE users[v]
      BY <1>1 DEF RowWritten
    <3>4. pc[q] \in Running => \A v \in Users : users[v] \in rowsSince[q][v]
      BY DEF Inv, RequestInv
    <3>5. rowsSince'[q] \in [Users -> SUBSET UserRow]
      BY <2>1, <3>1
    <3> QED BY <3>2, <3>3, <3>4, <3>5
  <2> QED BY <2>2, <2>3
<1>4. rowsSince' \in [Requests -> [Users -> SUBSET UserRow]]
  BY <1>3 DEF RowWritten
<1> QED BY <1>2, <1>3, <1>4

LEMMA WriteSecretInv ==
  ASSUME Inv, NEW r \in Requests, WriteSecret(r)
  PROVE  Inv'
<1> DEFINE u == access[r].user
           row == [users[u] EXCEPT !.secret = input[r].newSecret]
<1>1. /\ pc[r] = "write" /\ RequestInv(r) /\ input[r].kind = "change" /\ HasAccess(r) /\ Knew(r)
      /\ input[r] \in Input /\ u \in Users /\ users[u] \in UserRow
  BY SessionAssumption
  DEF WriteSecret, Inv, TypeOK, RequestInv, Established, HasAccess, Access
<1>2. row \in UserRow
  BY <1>1 DEF UserRow, Input
<1>3. /\ RowWritten(u, row) /\ pc' = [pc EXCEPT ![r] = "respond"]
      /\ UNCHANGED <<clock, kv, cache, input, token, access, reply, spent>>
  BY DEF WriteSecret, RowWritten
<1> HIDE DEF row
<1>4. /\ users' \in [Users -> UserRow]
      /\ rowsSince' \in [Requests -> [Users -> SUBSET UserRow]]
      /\ \A q \in Requests, v \in Users : rowsSince[q][v] \subseteq rowsSince'[q][v]
      /\ \A q \in Requests, v \in Users : pc[q] \in Running => users'[v] \in rowsSince'[q][v]
  BY <1>1, <1>2, <1>3, HistoryOfWrite
<1>5. pc' \in [Requests -> Labels] /\ pc'[r] = "respond" /\ \A q \in Requests : q # r => pc'[q] = pc[q]
  BY <1>3 DEF Inv, TypeOK, Labels, Running
<1>6. TypeOK'
  BY <1>3, <1>4, <1>5 DEF Inv, TypeOK, Labels, Running
<1>7. SharedInv'
  BY <1>3, <1>5 DEF Inv, SharedInv
<1>8. Knew(r)'
  BY <1>1, <1>3, <1>4 DEF Knew
<1>9. RequestInv(r)'
  BY <1>1, <1>3, <1>4, <1>5, <1>8 DEF RequestInv, Established, Earned, Running, HasAccess
<1>10. KvKeeps
  BY <1>3 DEF KvKeeps
<1>11. \A q \in Requests : q # r => Elsewhere(q)
  BY <1>3, <1>4, <1>5 DEF Elsewhere
<1> QED BY <1>6, <1>7, <1>9, <1>10, <1>11, Combine

(* How a request begins: refused, or at its first statement with the       *)
(* tokens that go with its kind.                                           *)
Begins(r, i, label, code, t, a) ==
  /\ pc' = [pc EXCEPT ![r] = label] /\ reply' = [reply EXCEPT ![r] = code]
  /\ token' = [token EXCEPT ![r] = t] /\ access' = [access EXCEPT ![r] = a]
  /\ label # "done" => code = 0
  /\ label = "user" => i.kind = "login"
  /\ label = "get" => i.kind = "refresh" /\ t \in Tokens
  /\ label = "auth" =>
       /\ i.kind \in {"logout", "change", "other"} /\ a \in Access
       /\ i.kind = "logout" => t \in Tokens

Beginning(r, i) ==
  \E label \in {"done", "user", "get", "auth"}, code \in {0, 401, 403},
     t \in Tokens \cup {NoToken}, a \in Access \cup {NoAccess} : Begins(r, i, label, code, t, a)

LEMMA ReceiveBegins ==
  ASSUME Inv, NEW r \in Requests, NEW i \in Input, pc[r] = "idle",
         ReceiveOpen(r, i) \/ ReceiveGuarded(r, i)
  PROVE  Beginning(r, i)
<1>0. /\ token = [token EXCEPT ![r] = token[r]] /\ token[r] \in Tokens \cup {NoToken}
      /\ access = [access EXCEPT ![r] = access[r]] /\ access[r] \in Access \cup {NoAccess}
      /\ reply = [reply EXCEPT ![r] = 0]
  BY DEF Inv, TypeOK, RequestInv
<1>1. CASE ReceiveOpen(r, i)
  <2>1. CASE ~i.wellFormed
    <3>1. Begins(r, i, "done", MalformedStatus(i), token[r], access[r])
      BY <1>0, <1>1, <2>1 DEF ReceiveOpen, Begins
    <3>2. MalformedStatus(i) \in {0, 401, 403}
      BY DEF MalformedStatus
    <3> QED BY <1>0, <3>1, <3>2 DEF Beginning
  <2>2. CASE i.wellFormed /\ i.kind = "login"
    <3>1. Begins(r, i, "user", 0, token[r], access[r])
      BY <1>0, <1>1, <2>2 DEF ReceiveOpen, Begins
    <3> QED BY <1>0, <3>1 DEF Beginning
  <2>3. CASE i.wellFormed /\ i.kind = "refresh"
    <3>1. PICK t \in IssuedTokens : token' = [token EXCEPT ![r] = t]
      BY <1>1, <2>3 DEF ReceiveOpen
    <3>2. t \in Tokens
      BY IssuedTypes
    <3>3. Begins(r, i, "get", 0, t, access[r])
      BY <1>0, <1>1, <2>3, <3>1, <3>2 DEF ReceiveOpen, Begins
    <3> QED BY <1>0, <3>2, <3>3 DEF Beginning
  <2> QED BY <1>1, <2>1, <2>2, <2>3 DEF ReceiveOpen
<1>2. CASE ReceiveGuarded(r, i)
  <2>1. CASE pc' = [pc EXCEPT ![r] = "done"] /\ reply' = [reply EXCEPT ![r] = 401]
             /\ UNCHANGED <<token, access>>
    <3>1. Begins(r, i, "done", 401, token[r], access[r])
      BY <1>0, <2>1 DEF Begins
    <3> QED BY <1>0, <3>1 DEF Beginning
  <2>2. ASSUME NEW a \in IssuedAccess, NEW t \in IssuedTokens,
               access' = [access EXCEPT ![r] = a],
               token' = [token EXCEPT ![r] = IF i.kind = "logout" THEN t ELSE NoToken],
               pc' = [pc EXCEPT ![r] = "auth"], UNCHANGED reply
        PROVE  Beginning(r, i)
    <3>1. a \in Access /\ t \in Tokens
      BY IssuedTypes
    <3>2. Begins(r, i, "auth", 0, IF i.kind = "logout" THEN t ELSE NoToken, a)
      BY <1>0, <1>2, <2>2, <3>1 DEF ReceiveGuarded, Begins
    <3> QED BY <3>1, <3>2 DEF Beginning
  <2> QED BY <1>2, <2>1, <2>2 DEF ReceiveGuarded
<1> QED BY <1>1, <1>2

LEMMA ReceiveInv ==
  ASSUME Inv, NEW r \in Requests, Receive(r)
  PROVE  Inv'
<1>1. PICK i \in Inputs : (ReceiveOpen(r, i) \/ ReceiveGuarded(r, i)) /\ input' = [input EXCEPT ![r] = i]
  BY DEF Receive
<1>2. /\ pc[r] = "idle" /\ RequestInv(r) /\ reply[r] = 0 /\ i \in Input
      /\ rowsSince' = [rowsSince EXCEPT ![r] = [u \in Users |-> {users[u]}]]
      /\ UNCHANGED <<clock, users, kv, cache>>
  BY SessionAssumption DEF Receive, tables, Inv, RequestInv
<1>3. PICK label \in {"done", "user", "get", "auth"}, code \in {0, 401, 403},
           t \in Tokens \cup {NoToken}, a \in Access \cup {NoAccess} : Begins(r, i, label, code, t, a)
  BY <1>1, <1>2, ReceiveBegins DEF Beginning
<1>4. /\ pc' \in [Requests -> Labels] /\ pc'[r] = label /\ reply'[r] = code
      /\ token'[r] = t /\ access'[r] = a /\ input'[r] = i
      /\ reply' \in [Requests -> {0, 200, 400, 401, 403, 500}]
      /\ token' \in [Requests -> Tokens \cup {NoToken}]
      /\ access' \in [Requests -> Access \cup {NoAccess}]
      /\ input' \in [Requests -> Inputs \cup {NoInput}]
  BY <1>1, <1>3 DEF Begins, Inv, TypeOK, Labels, Running
<1>5. /\ rowsSince' \in [Requests -> [Users -> SUBSET UserRow]]
      /\ \A u \in Users : users[u] \in rowsSince'[r][u]
      /\ \A q \in Requests : q # r => rowsSince'[q] = rowsSince[q]
  BY <1>2 DEF Inv, TypeOK
<1>6. spent' \in [Requests -> BOOLEAN]
  <2> DEFINE loggedOut == token'[r] # NoToken /\ LoggedOut(token'[r])
  <2>1. loggedOut \in BOOLEAN
    BY Zenon DEF LoggedOut
  <2>2. spent' = [spent EXCEPT ![r] = loggedOut] /\ spent \in [Requests -> BOOLEAN]
    BY Zenon DEF Receive, Inv, TypeOK
  <2> HIDE DEF loggedOut
  <2> QED BY <2>1, <2>2
<1>7. TypeOK'
  BY <1>2, <1>4, <1>5, <1>6 DEF Inv, TypeOK, Labels, Running
<1>8. SharedInv'
  <2>1. \A q \in Requests : q # r => pc'[q] = pc[q]
    BY <1>3 DEF Begins, Inv, TypeOK
  <2>2. kv[r] = NoSession
    BY <1>2 DEF Inv, SharedInv
  <2> QED BY <1>2, <2>1, <2>2 DEF Inv, SharedInv
<1>9. RequestInv(r)'
  <2>1. Established(r)'
    <3>1. /\ (label = "auth" =>
                /\ i.kind \in {"logout", "change", "other"} /\ a \in Access
                /\ i.kind = "logout" => t \in Tokens)
          /\ (label = "user" => i.kind = "login")
          /\ (label = "get" => i.kind = "refresh" /\ t \in Tokens)
      BY <1>3 DEF Begins
    <3>2. label \in {"done", "user", "get", "auth"}
      BY <1>3
    <3>3. CASE label = "done"
      BY <3>3, <1>4 DEF Established
    <3>4. CASE label = "user"
      BY <3>1, <3>4, <1>4 DEF Established
    <3>5. CASE label = "get"
      BY <3>1, <3>5, <1>4 DEF Established
    <3>6. CASE label = "auth"
      BY <3>1, <3>6, <1>4 DEF Established, HasAccess
    <3> QED BY <3>2, <3>3, <3>4, <3>5, <3>6
  <2>2. Earned(r)'
    BY <1>4 DEF Earned
  <2>3. users' = users /\ i \in Inputs /\ (label # "done" => code = 0) /\ label # "idle"
    BY <1>1, <1>2, <1>3 DEF Begins
  <2> QED BY <1>4, <1>5, <2>1, <2>2, <2>3 DEF RequestInv, Running
<1>10. KvKeeps
  BY <1>2 DEF KvKeeps
<1>11. \A q \in Requests : q # r => Elsewhere(q)
  BY <1>1, <1>2, <1>3, <1>5 DEF Begins, Inv, TypeOK, RequestInv, Elsewhere
<1> QED BY <1>7, <1>8, <1>9, <1>10, <1>11, Combine

-----------------------------------------------------------------------------
(* The environment, and the whole                                          *)

LEMMA EnvironmentInv == Inv /\ Environment => Inv'
<1> SUFFICES ASSUME Inv, Environment PROVE Inv'
  OBVIOUS
<1>1. CASE Tick
  <2>0. UNCHANGED <<users, kv, cache, pc, input, token, access, reply, rowsSince, spent>>
    BY <1>1 DEF Tick, tables
  <2>1. TypeOK'
    BY <1>1, <2>0, SessionAssumption DEF Tick, Inv, TypeOK, Instants
  <2>2. SharedInv' /\ KvKeeps
    BY <2>0 DEF Inv, SharedInv, KvKeeps
  <2>3. \A q \in Requests : Elsewhere(q)
    BY <2>0 DEF Inv, RequestInv, Elsewhere
  <2> QED BY <2>1, <2>2, <2>3, ElsewhereInv DEF Inv
<1>2. ASSUME NEW u \in Users, NEW row \in UserRow, EditUser(u, row) PROVE Inv'
  <2>0. /\ RowWritten(u, row)
        /\ UNCHANGED <<clock, kv, cache, pc, input, token, access, reply, spent>>
    BY <1>2 DEF EditUser, RowWritten
  <2>1. /\ users' \in [Users -> UserRow]
        /\ rowsSince' \in [Requests -> [Users -> SUBSET UserRow]]
        /\ \A q \in Requests, v \in Users : rowsSince[q][v] \subseteq rowsSince'[q][v]
        /\ \A q \in Requests, v \in Users : pc[q] \in Running => users'[v] \in rowsSince'[q][v]
    BY <2>0, HistoryOfWrite
  <2>2. TypeOK'
    BY <2>0, <2>1 DEF Inv, TypeOK
  <2>3. SharedInv' /\ KvKeeps
    BY <2>0 DEF Inv, SharedInv, KvKeeps
  <2>4. \A q \in Requests : Elsewhere(q)
    BY <2>0, <2>1 DEF Elsewhere
  <2> QED BY <2>2, <2>3, <2>4, ElsewhereInv DEF Inv
<1>3. ASSUME NEW e \in Edges, NEW t \in Tokens, DropCopy(e, t) PROVE Inv'
  <2>0. /\ cache' = [cache EXCEPT ![e][t] = NotCached]
        /\ UNCHANGED <<clock, users, kv, pc, input, token, access, reply, rowsSince, spent>>
    BY <1>3 DEF DropCopy
  <2>1. /\ cache' \in [Edges -> [Tokens -> Session \cup {NoSession, NotCached}]]
        /\ \A f \in Edges, v \in Tokens : cache'[f][v] = cache[f][v] \/ cache'[f][v] = NotCached
    BY <2>0, CacheType
  <2>2. TypeOK'
    BY <2>0, <2>1 DEF Inv, TypeOK
  <2>3. SharedInv' /\ KvKeeps
    BY <2>0, <2>1, SessionAssumption DEF Inv, SharedInv, KvKeeps
  <2>4. \A q \in Requests : Elsewhere(q)
    BY <2>0 DEF Inv, RequestInv, Elsewhere
  <2> QED BY <2>2, <2>3, <2>4, ElsewhereInv DEF Inv
<1> QED BY <1>1, <1>2, <1>3 DEF Environment

LEMMA NextInv == Inv /\ [Next]_vars => Inv'
<1> SUFFICES ASSUME Inv, [Next]_vars PROVE Inv'
  OBVIOUS
<1>1. ASSUME NEW r \in Requests, Handle(r) PROVE Inv'
  BY <1>1, ReceiveInv, AuthenticateInv, ReadLoginInv, PutSessionInv, GetSessionInv,
     ReadRefreshInv, DeleteSessionInv, ReadSecretInv, WriteSecretInv, RespondInv, FailInv
  DEF Handle
<1>2. CASE UNCHANGED vars
  <2>0. UNCHANGED <<clock, users, kv, cache, pc, input, token, access, reply, rowsSince, spent>>
    BY <1>2 DEF vars, tables
  <2>1. TypeOK'
    BY <2>0 DEF Inv, TypeOK
  <2>2. SharedInv' /\ KvKeeps
    BY <2>0 DEF Inv, SharedInv, KvKeeps
  <2>3. \A q \in Requests : Elsewhere(q)
    BY <2>0 DEF Inv, RequestInv, Elsewhere
  <2> QED BY <2>1, <2>2, <2>3, ElsewhereInv DEF Inv
<1> QED BY <1>1, <1>2, EnvironmentInv DEF Next

LEMMA Invariance == Spec => []Inv
BY InitInv, NextInv, PTL DEF Spec

(* The tables, the caches of the edges, the handlers and their answers     *)
(* keep their types.                                                       *)
THEOREM TypesHold == Spec => []TypeOK
<1>1. Inv => TypeOK
  BY DEF Inv
<1> QED BY <1>1, Invariance, PTL

(* A disabled user is cut off at once, whatever tokens he holds: whoever   *)
(* is answered 200 with a token was active while the request was handled.  *)
THEOREM DisabledAreCutOff == Spec => []ServedWhileActive
<1>1. Inv => ServedWhileActive
  BY DEF Inv, RequestInv, Earned, ServedWhileActive, Answered, WasActive, AccessWasActive
<1> QED BY <1>1, Invariance, PTL

(* A login or a change of password that succeeds knew a password that was  *)
(* in force while it was handled, of a user who was active then.           *)
THEOREM PasswordsAreKnown == Spec => []KnewThePassword
<1>1. Inv => KnewThePassword
  BY DEF Inv, RequestInv, Earned, KnewThePassword, Answered, Knew
<1> QED BY <1>1, Invariance, PTL
-----------------------------------------------------------------------------
(* A session that is gone                                                  *)

Holds(r, t) == token[r] = t /\ pc[r] \in {"user", "delete"} /\ input[r].kind # "login"

(* The step takes no session in hand that was not, leaves what is deleted  *)
(* deleted, and copies no deleted session.                                 *)
BringsNothingBack ==
  \A t \in Tokens :
    /\ Deleted(t) => Deleted(t)'
    /\ Gone(t) => /\ \A r \in Requests : Holds(r, t)' => Holds(r, t)
                  /\ \A e \in Edges : cache'[e][t] \in {NotCached, NoSession}

LEMMA GoneStays ==
  ASSUME BringsNothingBack
  PROVE  \A t \in Tokens : (Deleted(t) => Deleted(t)') /\ (Gone(t) => Gone(t)')
<1> SUFFICES ASSUME NEW t \in Tokens, Gone(t) PROVE Gone(t)'
  BY DEF BringsNothingBack
<1>1. Deleted(t)' /\ ~InHand(t)'
  BY DEF BringsNothingBack, Gone, InHand, Holds
<1>2. \A e \in Edges : cache'[e][t] \in {NotCached, NoSession}
  BY DEF BringsNothingBack
<1> QED BY <1>1, <1>2 DEF Gone

(* Steps that leave the namespace and its copies alone and take nothing in *)
(* hand.                                                                   *)
Hands(r) ==
  /\ \A q \in Requests : q # r => pc'[q] = pc[q] /\ input'[q] = input[q] /\ token'[q] = token[q]
  /\ \A t \in Tokens : Holds(r, t)' => Holds(r, t)

LEMMA HandsOff ==
  ASSUME NEW r \in Requests, Hands(r), kv' = kv, cache' = cache
  PROVE  BringsNothingBack
BY DEF BringsNothingBack, Hands, Holds, Deleted, Gone

LEMMA MovesOn ==
  ASSUME TypeOK, NEW r \in Requests, NEW label \in Labels, label \notin {"user", "delete"},
         pc' = [pc EXCEPT ![r] = label], input' = input,
         \A q \in Requests : q # r => token'[q] = token[q]
  PROVE  Hands(r)
BY DEF TypeOK, Hands, Holds

LEMMA AwaitMovesOn ==
  ASSUME TypeOK, NEW r \in Requests, NEW label \in Labels, label \notin {"user", "delete"},
         Await(r, label), \A q \in Requests : q # r => token'[q] = token[q]
  PROVE  Hands(r)
BY AwaitType, MovesOn

LEMMA AnswerMovesOn ==
  ASSUME TypeOK, NEW r \in Requests, NEW code \in {200, 400, 401, 403, 500}, Answer(r, code),
         token' = token
  PROVE  Hands(r)
BY AnswerType, MovesOn DEF Labels

LEMMA RefuseKeeps ==
  ASSUME TypeOK, NEW r \in Requests, NEW code \in {200, 400, 401, 403, 500}, Refuse(r, code)
  PROVE  BringsNothingBack
BY AnswerMovesOn, HandsOff DEF Refuse, tables

LEMMA AwaitKeeps ==
  ASSUME TypeOK, NEW r \in Requests, NEW label \in Labels, label \notin {"user", "delete"},
         Await(r, label), \A q \in Requests : q # r => token'[q] = token[q],
         UNCHANGED tables
  PROVE  BringsNothingBack
BY AwaitMovesOn, HandsOff DEF tables

LEMMA ReceiveKeeps ==
  ASSUME Inv, NEW r \in Requests, Receive(r)
  PROVE  BringsNothingBack
<1>1. PICK i \in Inputs : (ReceiveOpen(r, i) \/ ReceiveGuarded(r, i)) /\ input' = [input EXCEPT ![r] = i]
  BY DEF Receive
<1>2. pc[r] = "idle" /\ i \in Input /\ kv' = kv /\ cache' = cache
  BY SessionAssumption DEF Receive, tables
<1>3. PICK label \in {"done", "user", "get", "auth"}, code \in {0, 401, 403},
           t \in Tokens \cup {NoToken}, a \in Access \cup {NoAccess} : Begins(r, i, label, code, t, a)
  BY <1>1, <1>2, ReceiveBegins DEF Beginning
<1>4. Hands(r)
  BY <1>1, <1>3 DEF Begins, Hands, Holds, Inv, TypeOK
<1> QED BY <1>2, <1>4, HandsOff

LEMMA GetSessionKeeps ==
  ASSUME Inv, NEW r \in Requests, GetSession(r)
  PROVE  BringsNothingBack
<1> DEFINE e == input[r].edge
           s == token[r]
           found == Cached(e, s)
<1>1. /\ pc[r] = "get" /\ TypeOK /\ s \in Tokens /\ kv' = kv /\ token' = token
      /\ input[r] \in Input
  BY SessionAssumption DEF GetSession, Inv, RequestInv, Established
<1>2. e \in Edges
  BY <1>1 DEF Input
<1>3. cache' = [cache EXCEPT ![e][s] = found]
  BY DEF GetSession
<1>4. Gone(s) => found = NoSession
  BY <1>1, <1>2 DEF Gone, Cached, Stored
<1>5. PICK label \in {"done", "user", "delete"} :
        /\ pc' = [pc EXCEPT ![r] = label] /\ input' = input
        /\ found = NoSession => label = "done"
  BY <1>1 DEF GetSession, Await, Answer
<1> HIDE DEF found, e, s
<1>6. ASSUME NEW t \in Tokens, Gone(t)
      PROVE  /\ \A q \in Requests : Holds(q, t)' => Holds(q, t)
             /\ \A f \in Edges : cache'[f][t] \in {NotCached, NoSession}
  <2>1. \A f \in Edges : cache[f][t] \in {NotCached, NoSession}
    BY <1>6 DEF Gone
  <2>2. \A f \in Edges : cache'[f][t] = cache[f][t] \/ (t = s /\ cache'[f][t] = found)
    BY <1>1, <1>2, <1>3 DEF TypeOK
  <2>3. \A f \in Edges : cache'[f][t] \in {NotCached, NoSession}
    BY <1>4, <1>6, <2>1, <2>2
  <2>4. t = s => pc'[r] = "done"
    BY <1>1, <1>4, <1>5, <1>6 DEF TypeOK
  <2>5. \A q \in Requests : Holds(q, t)' => Holds(q, t)
    BY <1>1, <1>5, <2>4 DEF Holds, TypeOK, s
  <2> QED BY <2>3, <2>5
<1>7. \A t \in Tokens : Deleted(t) => Deleted(t)'
  BY <1>1 DEF Deleted
<1> QED BY <1>6, <1>7 DEF BringsNothingBack

LEMMA PutSessionKeeps ==
  ASSUME Inv, NEW r \in Requests, PutSession(r)
  PROVE  BringsNothingBack
<1> DEFINE session == [user |-> access[r].user, expires |-> clock + RefreshTtl, deleted |-> FALSE]
           e == input[r].edge
<1>1. /\ pc[r] = "put" /\ TypeOK /\ token[r] = r /\ kv[r] = NoSession /\ token' = token
      /\ input[r] \in Input /\ r \in Tokens
  BY SessionAssumption DEF PutSession, Inv, RequestInv, Established, Tokens
<1>2. kv' = [kv EXCEPT ![r] = session] /\ cache' = [cache EXCEPT ![e][r] = NotCached]
  BY <1>1 DEF PutSession
<1>3. Hands(r)
  BY <1>1, AwaitMovesOn DEF PutSession, Labels, Running
<1> HIDE DEF session, e
<1>4. \A t \in Tokens : Deleted(t) => Deleted(t)'
  BY <1>1, <1>2 DEF Deleted, TypeOK
<1>5. \A t \in Tokens, f \in Edges : cache'[f][t] = cache[f][t] \/ cache'[f][t] = NotCached
  BY <1>1, <1>2 DEF TypeOK
<1> QED BY <1>3, <1>4, <1>5 DEF BringsNothingBack, Hands, Holds, Gone

LEMMA DeleteSessionKeeps ==
  ASSUME Inv, NEW r \in Requests, DeleteSession(r)
  PROVE  BringsNothingBack
<1> DEFINE e == input[r].edge
           s == token[r]
<1>1. pc[r] = "delete" /\ TypeOK /\ s \in Tokens /\ kv[s] \in Session /\ token' = token
  BY DEF DeleteSession, Inv, TypeOK, RequestInv, Established, HasSession
<1>2. kv' = [kv EXCEPT ![s].deleted = TRUE] /\ cache' = [cache EXCEPT ![e][s] = NotCached]
  BY DEF DeleteSession
<1>3. Hands(r)
  BY <1>1, AwaitMovesOn DEF DeleteSession, Labels, Running
<1>4. \A t \in Tokens : Deleted(t) => Deleted(t)'
  <2>1. kv'[s] = [kv[s] EXCEPT !.deleted = TRUE]
    BY <1>1, <1>2 DEF TypeOK
  <2>2. kv'[s].deleted /\ kv'[s] # NoSession
    BY <1>1, <2>1, SessionAssumption DEF Session
  <2>3. \A t \in Tokens : t # s => kv'[t] = kv[t]
    BY <1>1, <1>2 DEF TypeOK
  <2> QED BY <2>2, <2>3 DEF Deleted
<1> HIDE DEF s, e
<1>5. \A t \in Tokens, f \in Edges : cache'[f][t] = cache[f][t] \/ cache'[f][t] = NotCached
  BY <1>1, <1>2 DEF TypeOK
<1> QED BY <1>3, <1>4, <1>5 DEF BringsNothingBack, Hands, Holds, Gone

(* A refresh whose user is disabled has the session in hand already.       *)
LEMMA ReadRefreshKeeps ==
  ASSUME Inv, NEW r \in Requests, ReadRefresh(r)
  PROVE  BringsNothingBack
<1>1. TypeOK /\ token' = token /\ kv' = kv /\ cache' = cache /\ pc[r] = "user"
  BY DEF ReadRefresh, Inv, tables
<1>2. input[r].kind = "refresh" /\ (Answer(r, 200) \/ Await(r, "delete"))
  BY DEF ReadRefresh
<1>3. CASE Answer(r, 200)
  BY <1>1, <1>3, AnswerMovesOn, HandsOff
<1>4. CASE Await(r, "delete")
  <2>1. Hands(r)
    BY <1>1, <1>2, <1>4 DEF Await, Hands, Holds, TypeOK
  <2> QED BY <1>1, <2>1, HandsOff
<1> QED BY <1>2, <1>3, <1>4

LEMMA WriteSecretKeeps ==
  ASSUME Inv, NEW r \in Requests, WriteSecret(r)
  PROVE  BringsNothingBack
<1>1. Hands(r)
  BY MovesOn DEF WriteSecret, Inv, Labels, Running
<1> QED BY <1>1, HandsOff DEF WriteSecret

LEMMA HandleKeeps ==
  ASSUME Inv, NEW r \in Requests, Handle(r)
  PROVE  BringsNothingBack
<1>1. TypeOK
  BY DEF Inv
<1>2. CASE Authenticate(r)
  <2>1. CASE \E code \in {200, 400, 401} : Refuse(r, code)
    BY <1>1, <2>1, RefuseKeeps
  <2>2. CASE /\ Await(r, IF input[r].kind = "logout" THEN "get" ELSE "secret")
             /\ UNCHANGED <<tables, token, access>>
    BY <1>1, <2>2, AwaitKeeps DEF Labels, Running
  <2> QED BY <1>2, <2>1, <2>2 DEF Authenticate
<1>3. CASE ReadLogin(r)
  <2>1. CASE Refuse(r, 401)
    BY <1>1, <2>1, RefuseKeeps
  <2>2. CASE token' = [token EXCEPT ![r] = r] /\ Await(r, "put") /\ UNCHANGED tables
    BY <1>1, <2>2, AwaitKeeps DEF Labels, Running, TypeOK
  <2> QED BY <1>3, <2>1, <2>2 DEF ReadLogin
<1>4. CASE ReadSecret(r)
  <2>1. CASE Refuse(r, 401)
    BY <1>1, <2>1, RefuseKeeps
  <2>2. CASE Await(r, "write") /\ UNCHANGED <<tables, token, access>>
    BY <1>1, <2>2, AwaitKeeps DEF Labels, Running
  <2> QED BY <1>4, <2>1, <2>2 DEF ReadSecret
<1>5. CASE Respond(r) \/ Fail(r)
  BY <1>1, <1>5, RefuseKeeps DEF Respond, Fail
<1> QED BY <1>2, <1>3, <1>4, <1>5, ReceiveKeeps, GetSessionKeeps, PutSessionKeeps,
           DeleteSessionKeeps, ReadRefreshKeeps, WriteSecretKeeps DEF Handle

LEMMA EnvironmentKeeps == Inv /\ Environment => BringsNothingBack
<1> SUFFICES ASSUME Inv, Environment PROVE BringsNothingBack
  OBVIOUS
<1>1. kv' = kv /\ pc' = pc /\ input' = input /\ token' = token
  BY DEF Environment, Tick, EditUser, DropCopy, tables
<1>2. \A f \in Edges, t \in Tokens : cache'[f][t] = cache[f][t] \/ cache'[f][t] = NotCached
  BY CacheType DEF Environment, Tick, EditUser, DropCopy, tables
<1> QED BY <1>1, <1>2 DEF BringsNothingBack, Holds, Deleted, Gone

(* A session that was deleted stays deleted, and one that also left every  *)
(* cache and every handler is gone for good.                               *)
THEOREM LogoutsAreFinal == Spec => LogoutIsFinal
<1> DEFINE Final == \A t \in Tokens : (Deleted(t) => Deleted(t)') /\ (Gone(t) => Gone(t)')
<1>1. Inv /\ [Next]_vars => [Final]_vars
  BY HandleKeeps, EnvironmentKeeps, GoneStays DEF Next
<1>2. [][Final]_vars => LogoutIsFinal
  BY PTL DEF LogoutIsFinal
<1> QED BY <1>1, <1>2, Invariance, PTL DEF Spec
-----------------------------------------------------------------------------
(* A session ends for a reason                                             *)

Reason(t) == AskedToLogout(t) \/ RefreshedWhileDisabled(t)

(* What a request knows of the session it holds: it is in the namespace,   *)
(* and was not deleted or refused without a reason.                        *)
KnowsSession(r) ==
  /\ pc[r] = "idle" => token[r] = NoToken
  /\ pc[r] # "idle" /\ input[r].kind = "login" /\ (pc[r] = "respond" \/ reply[r] = 200) =>
       kv[r] # NoSession
  /\ pc[r] # "idle" /\ input[r].kind \in {"refresh", "logout"} /\ token[r] # NoToken =>
       HasSession(r)
  /\ \A t \in Tokens : token[r] = t =>
       /\ pc[r] = "delete" \/ (pc[r] = "respond" /\ input[r].kind = "refresh") => Reason(t)
       /\ pc[r] = "done" /\ input[r].kind = "refresh" /\ reply[r] = 403 => Reason(t) \/ Expired(t)

(* Nor is the mark of deletion, or an edge's word that there is no session. *)
EndedWithReason(t) ==
  /\ Deleted(t) => Reason(t)
  /\ \A e \in Edges : cache[e][t] = NoSession => kv[t] # NoSession /\ (Reason(t) \/ Expired(t))

Reasoned == (\A r \in Requests : KnowsSession(r)) /\ \A t \in Tokens : EndedWithReason(t)

LEMMA ReasonedInit == Init => Reasoned
<1> SUFFICES ASSUME Init PROVE Reasoned
  OBVIOUS
<1>1. \A r \in Requests : KnowsSession(r)
  BY DEF Init, KnowsSession
<1>2. \A t \in Tokens : ~Deleted(t)
  BY SessionAssumption DEF Init, Deleted
<1>3. \A e \in Edges, t \in Tokens : cache[e][t] # NoSession
  BY SessionAssumption DEF Init
<1> QED BY <1>1, <1>2, <1>3 DEF Reasoned, EndedWithReason

(* What every step leaves as it was: sessions keep their users and their   *)
(* expiry, requests their bodies and the session they were sent with.      *)
RequestLasts(q) ==
  /\ input'[q] = input[q]
  /\ input[q].kind \in {"refresh", "logout"} => token'[q] = token[q]
  /\ \A u \in Users : rowsSince[q][u] \subseteq rowsSince'[q][u]

Lasts ==
  /\ clock <= clock'
  /\ \A t \in Tokens : kv[t] # NoSession =>
       kv'[t] # NoSession /\ kv'[t].user = kv[t].user /\ kv'[t].expires = kv[t].expires
  /\ \A q \in Requests : pc[q] # "idle" => RequestLasts(q)

(* Steps that leave the namespace and the history alone.                   *)
LEMMA LastsStill ==
  ASSUME Inv, kv' = kv, clock' = clock, input' = input, rowsSince' = rowsSince,
         \A q \in Requests : pc[q] # "idle" /\ input[q].kind # "login" => token'[q] = token[q]
  PROVE  Lasts
BY DEF Lasts, RequestLasts, Inv, TypeOK, Instants

LEMMA LastsHandle ==
  ASSUME Inv, NEW r \in Requests, Handle(r)
  PROVE  Lasts
<1>1. CASE Receive(r)
  <2>1. PICK i \in Inputs : (ReceiveOpen(r, i) \/ ReceiveGuarded(r, i)) /\ input' = [input EXCEPT ![r] = i]
    BY <1>1 DEF Receive
  <2>2. /\ pc[r] = "idle" /\ i \in Input /\ kv' = kv /\ clock' = clock
        /\ rowsSince' = [rowsSince EXCEPT ![r] = [u \in Users |-> {users[u]}]]
    BY <1>1, SessionAssumption DEF Receive, tables
  <2>3. PICK label \in {"done", "user", "get", "auth"}, code \in {0, 401, 403},
             t \in Tokens \cup {NoToken}, a \in Access \cup {NoAccess} : Begins(r, i, label, code, t, a)
    BY <2>1, <2>2, ReceiveBegins DEF Beginning
  <2>4. \A q \in Requests : pc[q] # "idle" => RequestLasts(q)
    BY <2>1, <2>2, <2>3 DEF Begins, RequestLasts, Inv, TypeOK
  <2> QED BY <2>2, <2>4 DEF Lasts, Inv, TypeOK, Instants
<1>2. CASE ReadLogin(r)
  <2>1. CASE Refuse(r, 401)
    BY <2>1, LastsStill DEF Refuse, Answer, tables
  <2>2. CASE token' = [token EXCEPT ![r] = r] /\ Await(r, "put") /\ UNCHANGED tables
    <3>1. input[r].kind = "login"
      BY <1>2 DEF ReadLogin
    <3> QED BY <2>2, <3>1, LastsStill DEF Await, tables, Inv, TypeOK
  <2> QED BY <1>2, <2>1, <2>2 DEF ReadLogin
<1>3. CASE PutSession(r)
  <2>1. pc[r] = "put" /\ token[r] = r /\ kv[r] = NoSession
    BY <1>3 DEF PutSession, Inv, RequestInv, Established
  <2>2. \A t \in Tokens : kv[t] # NoSession => kv'[t] = kv[t]
    BY <1>3, <2>1 DEF PutSession, Inv, TypeOK
  <2>3. \A q \in Requests : RequestLasts(q)
    BY <1>3 DEF PutSession, Await, RequestLasts
  <2>4. clock' = clock
    BY <1>3 DEF PutSession, Await
  <2> QED BY <2>2, <2>3, <2>4 DEF Lasts, Inv, TypeOK, Instants
<1>4. CASE DeleteSession(r)
  <2>0. token[r] \in Tokens /\ kv[token[r]] \in Session
    BY <1>4 DEF DeleteSession, Inv, TypeOK, RequestInv, Established, HasSession
  <2>1. PICK s \in Tokens : kv[s] \in Session /\ kv' = [kv EXCEPT ![s].deleted = TRUE]
    BY <1>4, <2>0 DEF DeleteSession
  <2>2. \A q \in Requests : RequestLasts(q)
    BY <1>4 DEF DeleteSession, Await, RequestLasts
  <2>3. clock' = clock
    BY <1>4 DEF DeleteSession, Await
  <2> DEFINE gone == [kv[s] EXCEPT !.deleted = TRUE]
  <2>4. gone \in Session /\ gone.user = kv[s].user /\ gone.expires = kv[s].expires
    BY <2>1 DEF Session
  <2>5. kv' = [kv EXCEPT ![s] = gone]
    BY <2>1
  <2> HIDE DEF gone
  <2>6. kv'[s] = gone /\ gone # NoSession /\ \A t \in Tokens : t # s => kv'[t] = kv[t]
    BY <2>4, <2>5, SessionAssumption DEF Inv, TypeOK
  <2>7. \A t \in Tokens : kv[t] # NoSession =>
          kv'[t] # NoSession /\ kv'[t].user = kv[t].user /\ kv'[t].expires = kv[t].expires
    BY <2>4, <2>6
  <2> QED BY <2>2, <2>3, <2>7 DEF Lasts, Inv, TypeOK, Instants
<1>5. CASE WriteSecret(r)
  <2> DEFINE u == access[r].user
             row == [users[u] EXCEPT !.secret = input[r].newSecret]
  <2>1. /\ pc[r] = "write" /\ u \in Users /\ users[u] \in UserRow /\ input[r] \in Input
        /\ RowWritten(u, row)
    BY <1>5, SessionAssumption
    DEF WriteSecret, RowWritten, Inv, TypeOK, RequestInv, Established, HasAccess, Access
  <2>2. row \in UserRow
    BY <2>1 DEF UserRow, Input
  <2> HIDE DEF row
  <2>3. \A q \in Requests, v \in Users : rowsSince[q][v] \subseteq rowsSince'[q][v]
    BY <2>1, <2>2, HistoryOfWrite
  <2>4. kv' = kv /\ clock' = clock /\ input' = input /\ token' = token
    BY <1>5 DEF WriteSecret
  <2> QED BY <2>3, <2>4 DEF Lasts, RequestLasts, Inv, TypeOK, Instants
<1>6. CASE Authenticate(r) \/ ReadSecret(r) \/ Respond(r) \/ Fail(r) \/ GetSession(r) \/ ReadRefresh(r)
  <2>1. kv' = kv /\ clock' = clock /\ input' = input /\ rowsSince' = rowsSince /\ token' = token
    BY <1>6 DEF Authenticate, ReadSecret, Respond, Fail, GetSession, ReadRefresh, Refuse, Answer,
                Await, tables
  <2> QED BY <2>1, LastsStill
<1> QED BY <1>1, <1>2, <1>3, <1>4, <1>5, <1>6 DEF Handle

LEMMA LastsEnvironment ==
  ASSUME Inv, Environment
  PROVE  Lasts
<1>1. CASE Tick
  <2>1. clock' = clock + 1 /\ UNCHANGED <<kv, input, token, rowsSince>>
    BY <1>1 DEF Tick, tables
  <2> QED BY <2>1 DEF Lasts, RequestLasts, Inv, TypeOK, Instants
<1>2. ASSUME NEW u \in Users, NEW row \in UserRow, EditUser(u, row) PROVE Lasts
  <2>1. RowWritten(u, row) /\ UNCHANGED <<clock, kv, input, token>>
    BY <1>2 DEF EditUser, RowWritten
  <2>2. \A q \in Requests, v \in Users : rowsSince[q][v] \subseteq rowsSince'[q][v]
    BY <2>1, HistoryOfWrite
  <2> QED BY <2>1, <2>2 DEF Lasts, RequestLasts, Inv, TypeOK, Instants
<1>3. ASSUME NEW e \in Edges, NEW t \in Tokens, DropCopy(e, t) PROVE Lasts
  BY <1>3, LastsStill DEF DropCopy
<1> QED BY <1>1, <1>2, <1>3 DEF Environment

(* A reason stays one.                                                     *)
LEMMA ReasonLasts ==
  ASSUME Inv, Inv', Reasoned, Lasts, NEW t \in Tokens, kv[t] # NoSession
  PROVE  (Reason(t) => Reason(t)') /\ (Expired(t) => Expired(t)')
<1>1. \A q \in Requests : token[q] = t => pc[q] # "idle"
  BY SessionAssumption DEF Reasoned, KnowsSession
<1>2. \A q \in Requests : token[q] = t => RequestLasts(q)
  BY <1>1 DEF Lasts
<1>3. kv'[t] # NoSession /\ kv'[t].user = kv[t].user /\ kv'[t].expires = kv[t].expires
  BY DEF Lasts
<1>4. kv[t] \in Session /\ kv[t].user \in Users
  BY DEF Inv, TypeOK, Session
<1>5. AskedToLogout(t) => AskedToLogout(t)'
  BY <1>2 DEF AskedToLogout, RequestLasts
<1>6. RefreshedWhileDisabled(t) => RefreshedWhileDisabled(t)'
  BY <1>2, <1>3, <1>4 DEF RefreshedWhileDisabled, RequestLasts
<1>7. Expired(t) => Expired(t)'
  BY <1>3, <1>4 DEF Expired, Lasts, Inv, TypeOK, Instants, Session
<1> QED BY <1>5, <1>6, <1>7 DEF Reason

(* A request that does not step goes on knowing what it knew.              *)
LEMMA KnowledgeLasts ==
  ASSUME Inv, Inv', Reasoned, Lasts, NEW q \in Requests,
         pc'[q] = pc[q], input'[q] = input[q], token'[q] = token[q], reply'[q] = reply[q]
  PROVE  KnowsSession(q)'
<1>1. KnowsSession(q) /\ RequestInv(q)
  BY DEF Reasoned, Inv
<1>2. HasSession(q) => HasSession(q)'
  BY DEF HasSession, Lasts
<1>3. kv[q] # NoSession => kv'[q] # NoSession
  BY DEF Lasts, Tokens
<1>4. ASSUME NEW t \in Tokens, token[q] = t, pc[q] # "idle",
             input[q].kind \in {"refresh", "logout"}
      PROVE  (Reason(t) => Reason(t)') /\ (Expired(t) => Expired(t)')
  <2>1. kv[t] # NoSession
    BY <1>1, <1>4, SessionAssumption DEF KnowsSession, HasSession
  <2> QED BY <2>1, ReasonLasts
<1>5. pc[q] = "delete" => input[q].kind \in {"refresh", "logout"}
  BY <1>1 DEF RequestInv, Established
<1> QED BY <1>1, <1>2, <1>3, <1>4, <1>5 DEF KnowsSession

(* A step of one request: its own knowledge, and that of the tables, are   *)
(* all there is to show.                                                   *)
Untouched(q) ==
  pc'[q] = pc[q] /\ input'[q] = input[q] /\ token'[q] = token[q] /\ reply'[q] = reply[q]

LEMMA ReasonedCombine ==
  ASSUME Inv, Inv', Reasoned, Lasts, NEW r \in Requests, KnowsSession(r)',
         \A q \in Requests : q # r => Untouched(q),
         \A t \in Tokens : EndedWithReason(t)'
  PROVE  Reasoned'
BY KnowledgeLasts DEF Reasoned, Untouched

(* The tables, where no session is deleted and no edge hears of a missing  *)
(* one but with a reason.                                                  *)
LEMMA TablesReasoned ==
  ASSUME Inv, Inv', Reasoned, Lasts,
         \A t \in Tokens : Deleted(t)' => Deleted(t) \/ (kv[t] # NoSession /\ Reason(t)),
         \A e \in Edges, t \in Tokens : cache'[e][t] = NoSession =>
           cache[e][t] = NoSession \/ (kv[t] # NoSession /\ (Reason(t) \/ Expired(t)))
  PROVE  \A t \in Tokens : EndedWithReason(t)'
<1> SUFFICES ASSUME NEW t \in Tokens PROVE EndedWithReason(t)'
  OBVIOUS
<1>1. EndedWithReason(t)
  BY DEF Reasoned
<1>2. kv[t] # NoSession =>
        kv'[t] # NoSession /\ (Reason(t) => Reason(t)') /\ (Expired(t) => Expired(t)')
  BY ReasonLasts DEF Lasts
<1>3. Deleted(t) => kv[t] # NoSession
  BY DEF Deleted
<1> QED BY <1>1, <1>2, <1>3 DEF EndedWithReason

LEMMA TablesStill ==
  ASSUME Inv, Inv', Reasoned, Lasts, kv' = kv, cache' = cache
  PROVE  \A t \in Tokens : EndedWithReason(t)'
BY TablesReasoned DEF Deleted

(* A request that ends here, with an answer that needs no reason or has it. *)
LEMMA EndsReasoned ==
  ASSUME Inv, Inv', Reasoned, Lasts, NEW r \in Requests, pc[r] \notin {"idle", "done"},
         NEW code \in {200, 400, 401, 403, 500}, Answer(r, code), token' = token, kv' = kv,
         cache' = cache,
         code = 403 => pc[r] = "respond",
         code = 200 => pc[r] = "respond" \/ input[r].kind # "login"
  PROVE  Reasoned'
<1>1. KnowsSession(r) /\ RequestInv(r)
  BY DEF Reasoned, Inv
<1>2. /\ pc'[r] = "done" /\ reply'[r] = code /\ input' = input
      /\ \A q \in Requests : q # r => Untouched(q)
  BY AnswerType DEF Inv, TypeOK, Untouched
<1>3. HasSession(r) => HasSession(r)'
  BY DEF HasSession
<1>4. ASSUME NEW t \in Tokens, token[r] = t, input[r].kind = "refresh", code = 403
      PROVE  Reason(t)'
  <2>1. kv[t] # NoSession /\ Reason(t)
    BY <1>1, <1>4, SessionAssumption DEF KnowsSession, HasSession
  <2> QED BY <2>1, ReasonLasts
<1>5. KnowsSession(r)'
  BY <1>1, <1>2, <1>3, <1>4 DEF KnowsSession
<1> QED BY <1>2, <1>5, TablesStill, ReasonedCombine

(* A request that goes on, without a session in its hands to delete.       *)
LEMMA GoesOnReasoned ==
  ASSUME Inv, Inv', Reasoned, Lasts, NEW r \in Requests, pc[r] \notin {"idle", "done"},
         NEW label \in {"put", "get", "user", "secret", "write"}, pc' = [pc EXCEPT ![r] = label],
         input' = input, reply' = reply, kv' = kv, cache' = cache,
         \A q \in Requests : q # r \/ input[q].kind # "login" => token'[q] = token[q]
  PROVE  Reasoned'
<1>1. KnowsSession(r) /\ RequestInv(r)
  BY DEF Reasoned, Inv
<1>2. pc'[r] = label /\ \A q \in Requests : q # r => Untouched(q)
  BY DEF Inv, TypeOK, Untouched
<1>3. HasSession(r) /\ token'[r] = token[r] => HasSession(r)'
  BY DEF HasSession
<1>4. reply[r] = 0
  BY <1>1 DEF Inv, TypeOK, RequestInv, Running
<1>5. KnowsSession(r)'
  BY <1>1, <1>2, <1>3, <1>4 DEF KnowsSession
<1> QED BY <1>2, <1>5, TablesStill, ReasonedCombine

LEMMA ReceiveReasoned ==
  ASSUME Inv, Inv', Reasoned, Lasts, NEW r \in Requests, Receive(r)
  PROVE  Reasoned'
<1>1. PICK i \in Inputs : (ReceiveOpen(r, i) \/ ReceiveGuarded(r, i)) /\ input' = [input EXCEPT ![r] = i]
  BY DEF Receive
<1>2. pc[r] = "idle" /\ KnowsSession(r) /\ RequestInv(r) /\ kv' = kv /\ cache' = cache /\ i \in Input
  BY SessionAssumption DEF Receive, tables, Reasoned, Inv
<1>3. PICK label \in {"done", "user", "get", "auth"}, code \in {0, 401, 403},
           t \in Tokens \cup {NoToken}, a \in Access \cup {NoAccess} : Begins(r, i, label, code, t, a)
  BY <1>1, <1>2, ReceiveBegins DEF Beginning
<1>4. \A q \in Requests : q # r => Untouched(q)
  BY <1>1, <1>3 DEF Begins, Inv, TypeOK, Untouched
<1>5. pc'[r] = label /\ token'[r] = t /\ reply'[r] = code /\ input'[r] = i
  BY <1>1, <1>3 DEF Begins, Inv, TypeOK
<1>6. token[r] = NoToken
  BY <1>2 DEF KnowsSession
<1>7. t \in IssuedTokens \/ t = NoToken
  <2>1. token' = token => t = NoToken
    BY <1>5, <1>6
  <2>2. \A s : token' = [token EXCEPT ![r] = s] => t = s
    BY <1>5 DEF Inv, TypeOK
  <2> QED BY <1>1, <2>1, <2>2 DEF ReceiveOpen, ReceiveGuarded
<1>8. label = "done" => t = NoToken
  <2>1. token' = token => t = NoToken
    BY <1>5, <1>6
  <2>2. \A l : pc' = [pc EXCEPT ![r] = l] => label = l
    BY <1>5 DEF Inv, TypeOK
  <2> QED BY <1>1, <2>1, <2>2 DEF ReceiveOpen, ReceiveGuarded
<1>9. ASSUME NEW s \in IssuedTokens PROVE s \in Tokens /\ kv[s] # NoSession
  <2>1. CASE s \in OldTokens
    BY <2>1 DEF Inv, SharedInv, Tokens
  <2>2. CASE s \in Requests /\ Granted(s) /\ input[s].kind = "login"
    <3>1. pc[s] # "idle"
      BY <2>2 DEF Granted, Inv, RequestInv
    <3> QED BY <2>2, <3>1 DEF Granted, Reasoned, KnowsSession, Tokens
  <2> QED BY <2>1, <2>2 DEF IssuedTokens
<1>10. KnowsSession(r)'
  <2>1. t # NoToken => HasSession(r)'
    BY <1>2, <1>5, <1>7, <1>9 DEF HasSession
  <2>2. code # 200 /\ label \notin {"idle", "respond", "delete"}
    BY <1>3
  <2> QED BY <1>5, <1>8, <2>1, <2>2, SessionAssumption DEF KnowsSession
<1> QED BY <1>2, <1>4, <1>10, TablesStill, ReasonedCombine

LEMMA PutSessionReasoned ==
  ASSUME Inv, Inv', Reasoned, Lasts, NEW r \in Requests, PutSession(r)
  PROVE  Reasoned'
<1> DEFINE session == [user |-> access[r].user, expires |-> clock + RefreshTtl, deleted |-> FALSE]
           e == input[r].edge
<1>1. /\ pc[r] = "put" /\ input[r].kind = "login" /\ token[r] = r /\ kv[r] = NoSession
      /\ token' = token /\ input' = input /\ reply' = reply /\ reply[r] = 0 /\ r \in Tokens
      /\ input[r] \in Input
  BY SessionAssumption
  DEF PutSession, Await, Inv, RequestInv, Established, Tokens, Running
<1>2. /\ kv' = [kv EXCEPT ![r] = session] /\ cache' = [cache EXCEPT ![e][r] = NotCached]
      /\ pc' = [pc EXCEPT ![r] = "respond"]
  BY <1>1 DEF PutSession, Await
<1>3. kv'[r] = session /\ session \in Session /\ \A t \in Tokens : t # r => kv'[t] = kv[t]
  <2>1. kv'[r] = session /\ \A t \in Tokens : t # r => kv'[t] = kv[t]
    BY <1>1, <1>2 DEF Inv, TypeOK
  <2>2. kv'[r] # NoSession => kv'[r] \in Session
    BY <1>1 DEF Inv, TypeOK
  <2>3. access[r] \in Access
    BY <1>1 DEF Inv, RequestInv, Established, HasAccess
  <2>4. session \in Session
    BY <2>3, SessionAssumption DEF Session, Access, Inv, TypeOK, Instants
  <2> QED BY <2>1, <2>4
<1>4. session # NoSession /\ ~session.deleted
  BY <1>3, SessionAssumption
<1> HIDE DEF session, e
<1>5. \A t \in Tokens : Deleted(t)' => Deleted(t)
  BY <1>3, <1>4 DEF Deleted
<1>6. \A f \in Edges, t \in Tokens : cache'[f][t] = NoSession => cache[f][t] = NoSession
  BY <1>1, <1>2, SessionAssumption DEF Inv, TypeOK
<1>7. pc'[r] = "respond" /\ \A q \in Requests : q # r => Untouched(q)
  BY <1>1, <1>2 DEF Inv, TypeOK, Untouched
<1>8. KnowsSession(r)'
  BY <1>1, <1>3, <1>4, <1>7 DEF KnowsSession
<1>9. \A t \in Tokens : EndedWithReason(t)'
  BY <1>5, <1>6, TablesReasoned
<1> QED BY <1>7, <1>8, <1>9, ReasonedCombine

LEMMA GetSessionReasoned ==
  ASSUME Inv, Inv', Reasoned, Lasts, NEW r \in Requests, GetSession(r)
  PROVE  Reasoned'
<1> DEFINE e == input[r].edge
           found == Cached(e, token[r])
<1>1. /\ pc[r] = "get" /\ token[r] \in Tokens /\ input[r].kind \in {"refresh", "logout"}
      /\ input[r] \in Input /\ reply[r] = 0 /\ KnowsSession(r)
  BY SessionAssumption DEF GetSession, Inv, RequestInv, Established, Running, Reasoned
<1>2. PICK s \in Tokens : s = token[r]
  BY <1>1
<1>3. e \in Edges /\ kv[s] # NoSession
  BY <1>1, <1>2, SessionAssumption DEF Input, KnowsSession, HasSession
<1>4. found = NoSession => Reason(s) \/ Expired(s)
  BY <1>2, <1>3 DEF Cached, Stored, Reasoned, EndedWithReason
<1>5. /\ cache' = [cache EXCEPT ![e][s] = found] /\ kv' = kv /\ token' = token /\ input' = input
  BY <1>2 DEF GetSession, Answer, Await
<1>6. \/ found = NoSession /\ pc' = [pc EXCEPT ![r] = "done"] /\ reply' = [reply EXCEPT ![r] = 403]
      \/ input[r].kind = "refresh" /\ pc' = [pc EXCEPT ![r] = "user"] /\ reply' = reply
      \/ input[r].kind = "logout" /\ pc' = [pc EXCEPT ![r] = "delete"] /\ reply' = reply
  BY <1>1 DEF GetSession, Answer, Await
<1> HIDE DEF found, e
<1>7. \A q \in Requests : q # r => Untouched(q)
  BY <1>5, <1>6 DEF Inv, TypeOK, Untouched
<1>8. \A t \in Tokens : EndedWithReason(t)'
  <2>1. \A f \in Edges, t \in Tokens : cache'[f][t] = cache[f][t] \/ (t = s /\ cache'[f][t] = found)
    BY <1>3, <1>5 DEF Inv, TypeOK
  <2>2. \A t \in Tokens : Deleted(t)' => Deleted(t)
    BY <1>5 DEF Deleted
  <2> QED BY <1>3, <1>4, <2>1, <2>2, TablesReasoned
<1>9. KnowsSession(r)'
  <2>1. HasSession(r)' /\ token'[r] = s
    BY <1>2, <1>3, <1>5 DEF HasSession
  <2>2. CASE found = NoSession /\ pc' = [pc EXCEPT ![r] = "done"] /\ reply' = [reply EXCEPT ![r] = 403]
    <3>1. pc'[r] = "done" /\ reply'[r] = 403
      BY <2>2 DEF Inv, TypeOK
    <3>2. Reason(s)' \/ Expired(s)'
      BY <1>3, <1>4, <2>2, ReasonLasts
    <3> QED BY <1>1, <1>5, <2>1, <3>1, <3>2 DEF KnowsSession
  <2>3. CASE input[r].kind = "refresh" /\ pc' = [pc EXCEPT ![r] = "user"] /\ reply' = reply
    <3>1. pc'[r] = "user"
      BY <2>3 DEF Inv, TypeOK
    <3> QED BY <1>1, <1>5, <2>1, <2>3, <3>1 DEF KnowsSession
  <2>4. CASE input[r].kind = "logout" /\ pc' = [pc EXCEPT ![r] = "delete"] /\ reply' = reply
    <3>1. pc'[r] = "delete"
      BY <2>4 DEF Inv, TypeOK
    <3>2. Reason(s)'
      BY <1>5, <2>1, <2>4 DEF Reason, AskedToLogout
    <3> QED BY <1>1, <1>5, <2>1, <2>4, <3>1, <3>2 DEF KnowsSession
  <2> QED BY <1>6, <2>2, <2>3, <2>4
<1> QED BY <1>7, <1>8, <1>9, ReasonedCombine

LEMMA ReadRefreshReasoned ==
  ASSUME Inv, Inv', Reasoned, Lasts, NEW r \in Requests, ReadRefresh(r)
  PROVE  Reasoned'
<1>1. /\ pc[r] = "user" /\ input[r].kind = "refresh" /\ HasSession(r)
      /\ reply[r] = 0 /\ KnowsSession(r) /\ UNCHANGED <<kv, cache, token, input, rowsSince>>
  BY DEF ReadRefresh, Inv, RequestInv, Established, Running, Reasoned, Answer, Await, tables
<1>2. CASE Answer(r, 200)
  BY <1>1, <1>2, EndsReasoned
<1>3. CASE ~Active(kv[token[r]].user) /\ Await(r, "delete")
  <2>1. PICK s \in Tokens : s = token[r]
    BY <1>1 DEF HasSession
  <2>2. kv[s] \in Session /\ kv[s].user \in Users /\ users[kv[s].user] \in UserRow
    BY <1>1, <2>1 DEF HasSession, Inv, TypeOK, Session
  <2>3. users[kv[s].user] \in rowsSince[r][kv[s].user] /\ users[kv[s].user].status = 0
    BY <1>1, <1>3, <2>1, <2>2 DEF Inv, RequestInv, Running, Active, UserRow
  <2>4. Reason(s)
    BY <1>1, <2>1, <2>3 DEF Reason, RefreshedWhileDisabled
  <2>5. Reason(s)'
    BY <1>1, <2>1, <2>4, ReasonLasts DEF HasSession
  <2>6. /\ pc'[r] = "delete" /\ reply' = reply /\ token'[r] = s
        /\ \A q \in Requests : q # r => Untouched(q)
    BY <1>1, <1>3, <2>1 DEF Await, Inv, TypeOK, Untouched
  <2>7. HasSession(r)'
    BY <1>1 DEF HasSession
  <2>8. KnowsSession(r)'
    BY <1>1, <2>5, <2>6, <2>7 DEF KnowsSession
  <2> QED BY <1>1, <2>6, <2>8, TablesStill, ReasonedCombine
<1> QED BY <1>2, <1>3 DEF ReadRefresh

LEMMA DeleteSessionReasoned ==
  ASSUME Inv, Inv', Reasoned, Lasts, NEW r \in Requests, DeleteSession(r)
  PROVE  Reasoned'
<1> DEFINE e == input[r].edge
<1>1. /\ pc[r] = "delete" /\ input[r].kind \in {"refresh", "logout"} /\ HasSession(r)
      /\ reply[r] = 0 /\ KnowsSession(r) /\ UNCHANGED <<token, input, reply>>
  BY DEF DeleteSession, Inv, RequestInv, Established, Running, Reasoned, Await
<1>2. PICK s \in Tokens : s = token[r]
  BY <1>1 DEF HasSession
<1>3. kv[s] # NoSession /\ Reason(s)
  BY <1>1, <1>2 DEF HasSession, KnowsSession
<1>4. /\ kv' = [kv EXCEPT ![s].deleted = TRUE] /\ cache' = [cache EXCEPT ![e][s] = NotCached]
      /\ pc' = [pc EXCEPT ![r] = "respond"]
  BY <1>2 DEF DeleteSession, Await
<1> HIDE DEF e
<1>5. \A t \in Tokens : Deleted(t)' => Deleted(t) \/ t = s
  BY <1>4 DEF Deleted, Inv, TypeOK
<1>6. \A f \in Edges, t \in Tokens : cache'[f][t] = NoSession => cache[f][t] = NoSession
  BY <1>2, <1>4, SessionAssumption DEF Inv, TypeOK
<1>7. pc'[r] = "respond" /\ token'[r] = s /\ \A q \in Requests : q # r => Untouched(q)
  BY <1>1, <1>2, <1>4 DEF Inv, TypeOK, Untouched
<1>8. HasSession(r)' /\ Reason(s)'
  BY <1>3, <1>7, ReasonLasts DEF HasSession, Lasts
<1>9. KnowsSession(r)'
  BY <1>1, <1>7, <1>8 DEF KnowsSession
<1>10. \A t \in Tokens : EndedWithReason(t)'
  BY <1>3, <1>5, <1>6, TablesReasoned
<1> QED BY <1>7, <1>9, <1>10, ReasonedCombine

LEMMA WriteSecretReasoned ==
  ASSUME Inv, Inv', Reasoned, Lasts, NEW r \in Requests, WriteSecret(r)
  PROVE  Reasoned'
<1>1. /\ pc[r] = "write" /\ input[r].kind = "change" /\ UNCHANGED <<kv, cache, token, input, reply>>
      /\ pc' = [pc EXCEPT ![r] = "respond"]
  BY DEF WriteSecret, Inv, RequestInv, Established
<1>2. pc'[r] = "respond" /\ \A q \in Requests : q # r => Untouched(q)
  BY <1>1 DEF Inv, TypeOK, Untouched
<1>3. KnowsSession(r)'
  BY <1>1, <1>2 DEF KnowsSession
<1> QED BY <1>1, <1>2, <1>3, TablesStill, ReasonedCombine

LEMMA HandleReasoned ==
  ASSUME Inv, Inv', Reasoned, NEW r \in Requests, Handle(r)
  PROVE  Reasoned'
<1>0. Lasts
  BY LastsHandle
<1>1. CASE Authenticate(r)
  <2>1. ASSUME NEW code \in {200, 400, 401}, Refuse(r, code) PROVE Reasoned'
    <3>1. pc[r] = "auth" /\ input[r].kind # "login"
      BY <1>1 DEF Authenticate, Inv, RequestInv, Established
    <3> QED BY <1>0, <2>1, <3>1, EndsReasoned DEF Refuse, tables
  <2>2. CASE Await(r, IF input[r].kind = "logout" THEN "get" ELSE "secret")
             /\ UNCHANGED <<tables, token, access>>
    BY <1>0, <1>1, <2>2, GoesOnReasoned DEF Authenticate, Await, tables
  <2> QED BY <1>1, <2>1, <2>2 DEF Authenticate
<1>2. CASE ReadLogin(r)
  <2>1. CASE Refuse(r, 401)
    BY <1>0, <1>2, <2>1, EndsReasoned DEF ReadLogin, Refuse, tables
  <2>2. CASE token' = [token EXCEPT ![r] = r] /\ Await(r, "put") /\ UNCHANGED tables
    <3>1. pc[r] = "user" /\ input[r].kind = "login"
      BY <1>2 DEF ReadLogin
    <3>2. \A q \in Requests : q # r \/ input[q].kind # "login" => token'[q] = token[q]
      BY <2>2, <3>1 DEF Inv, TypeOK
    <3> QED BY <1>0, <2>2, <3>1, <3>2, GoesOnReasoned DEF Await, tables
  <2> QED BY <1>2, <2>1, <2>2 DEF ReadLogin
<1>3. CASE ReadSecret(r)
  <2>1. CASE Refuse(r, 401)
    BY <1>0, <1>3, <2>1, EndsReasoned DEF ReadSecret, Refuse, tables
  <2>2. CASE Await(r, "write") /\ UNCHANGED <<tables, token, access>>
    BY <1>0, <1>3, <2>2, GoesOnReasoned DEF ReadSecret, Await, tables
  <2> QED BY <1>3, <2>1, <2>2 DEF ReadSecret
<1>4. CASE Respond(r)
  BY <1>0, <1>4, EndsReasoned DEF Respond, Refuse, tables
<1>5. CASE Fail(r)
  BY <1>0, <1>5, EndsReasoned DEF Fail, Refuse, tables
<1> QED BY <1>0, <1>1, <1>2, <1>3, <1>4, <1>5, ReceiveReasoned, PutSessionReasoned,
           GetSessionReasoned, ReadRefreshReasoned, DeleteSessionReasoned, WriteSecretReasoned
        DEF Handle

LEMMA EnvironmentReasoned ==
  ASSUME Inv, Inv', Reasoned, Environment
  PROVE  Reasoned'
<1>0. Lasts
  BY LastsEnvironment
<1>1. kv' = kv /\ UNCHANGED <<pc, input, token, reply>>
  BY DEF Environment, Tick, EditUser, DropCopy, tables
<1>2. \A f \in Edges, t \in Tokens : cache'[f][t] = NoSession => cache[f][t] = NoSession
  BY CacheType, SessionAssumption DEF Environment, Tick, EditUser, DropCopy, tables
<1>3. \A t \in Tokens : EndedWithReason(t)'
  BY <1>0, <1>1, <1>2, TablesReasoned DEF Deleted
<1>4. \A r \in Requests : KnowsSession(r)'
  BY <1>0, <1>1, KnowledgeLasts
<1> QED BY <1>3, <1>4 DEF Reasoned

LEMMA NextReasoned == Inv /\ Inv' /\ Reasoned /\ [Next]_vars => Reasoned'
<1> SUFFICES ASSUME Inv, Inv', Reasoned, [Next]_vars PROVE Reasoned'
  OBVIOUS
<1>1. CASE UNCHANGED vars
  BY <1>1 DEF vars, tables, Reasoned, KnowsSession, EndedWithReason, HasSession, Deleted, Reason,
              AskedToLogout, RefreshedWhileDisabled, Expired
<1> QED BY <1>1, HandleReasoned, EnvironmentReasoned DEF Next

(* A refresh that is refused because its session is missing follows a      *)
(* logout, the session's expiry or a refresh while its user was disabled,  *)
(* whatever else fails or races and whatever copies the edges hold.        *)
THEOREM SessionsEndWithReason == Spec => []RefusedSessionIsGone
<1>1. Inv /\ Reasoned => RefusedSessionIsGone
  <2> SUFFICES ASSUME Inv, Reasoned, NEW r \in Requests, reply[r] = 403, token[r] # NoToken,
                      input[r].kind = "refresh"
               PROVE  Reason(token[r]) \/ Expired(token[r])
    BY DEF RefusedSessionIsGone, Reason
  <2>1. pc[r] = "done"
    BY DEF Inv, TypeOK, RequestInv, Running
  <2>2. token[r] \in Tokens /\ KnowsSession(r)
    BY DEF Inv, TypeOK, Reasoned
  <2> QED BY <2>1, <2>2 DEF KnowsSession
<1> QED BY <1>1, ReasonedInit, NextReasoned, Invariance, PTL DEF Spec
=============================================================================
