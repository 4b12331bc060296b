----------------------------- MODULE UserAdmin ------------------------------
(***************************************************************************)
(* The users table and the requests that write it: POST, PATCH and DELETE  *)
(* /users, which administrators send, and POST /auth/init-admin, which     *)
(* makes the first administrator of a development system.                  *)
(*                                                                         *)
(* Every request reads first (the administrator's own row, the row to      *)
(* edit, whether the user name is free, whether there is an administrator) *)
(* and writes in a later statement.  A user is never removed.              *)
(***************************************************************************)
EXTENDS Naturals, Sequences

CONSTANTS
  Operations,   \* requests, each handled once
  Requests,     \* the bodies that are sent, with who sends them
  Usernames, Passwords,
  Deployments,  \* the users a system starts with, and which secret it has
  Keep          \* a field the body does not name

User == [username : Usernames, password : Passwords, role : 1..3, status : {0, 1}]

UserRequest ==
  [kind : {"init", "create", "update", "disable"}, operator : Nat, wellFormed : BOOLEAN,
   id : Nat, username : Usernames \cup {Keep}, password : Passwords \cup {Keep},
   role : 1..3 \cup {Keep}, status : {0, 1, Keep}]

ASSUME UserAssumption ==
  /\ Keep \notin Usernames \cup Passwords \cup Nat
  /\ Requests \subseteq UserRequest
  /\ \A r \in Requests : r.wellFormed /\ r.kind \in {"init", "create"} =>
       r.username # Keep /\ r.password # Keep
  /\ \A r \in Requests : r.wellFormed /\ r.kind = "create" => r.role # Keep
  /\ Deployments \subseteq [founders : Seq(User), localDev : BOOLEAN]
  /\ \A d \in Deployments : \A i, j \in DOMAIN d.founders :
       d.founders[i].username = d.founders[j].username => i = j

VARIABLES
  users,      \* the rows of users, by id
  localDev,   \* JWT_SECRET is the local development secret
  stage,      \* what the handler of an operation awaits next
  request,    \* the request the operation comes with
  result      \* the status of the answer to it

vars == <<users, localDev, stage, request, result>>

-----------------------------------------------------------------------------
Given(value, default) == IF value = Keep THEN default ELSE value

Exists(i) == i \in DOMAIN users

Taken(name) == \E i \in DOMAIN users : users[i].username = name

NewUser(r, role) ==
  [username |-> r.username, password |-> r.password, role |-> role, status |-> 1]

(* set(updateData): undefined leaves a column as it is, and an empty or    *)
(* missing password leaves hash and salt as they are.                      *)
Patched(row, r) ==
  [username |-> Given(r.username, row.username), password |-> Given(r.password, row.password),
   role |-> Given(r.role, row.role), status |-> Given(r.status, row.status)]

Init ==
  /\ \E d \in Deployments : users = d.founders /\ localDev = d.localDev
  /\ stage = [o \in Operations |-> "idle"]
  /\ request \in [Operations -> Requests]
  /\ result = [o \in Operations |-> 0]

Await(o, label) ==
  /\ stage' = [stage EXCEPT ![o] = label]
  /\ UNCHANGED <<users, localDev, request, result>>

Answer(o, status) ==
  /\ stage' = [stage EXCEPT ![o] = "done"]
  /\ result' = [result EXCEPT ![o] = status]
  /\ UNCHANGED <<localDev, request>>

(* The row is written; the database's word of it may be lost.              *)
Written(o) == \E status \in {200, 500} : Answer(o, status)

Refuse(o, status) == Answer(o, status) /\ UNCHANGED users

(* requireAuth reads the operator's row, requireRoles([1]) looks at it; the *)
(* controller checks the body, and that nobody deletes himself.            *)
FirstAwait(r) ==
  CASE r.kind = "create" -> "duplicate"
    [] r.kind = "update" -> "existing"
    [] r.kind = "disable" -> "disable"

Authenticate(o) ==
  /\ stage[o] = "idle"
  /\ LET r == request[o]
         active == Exists(r.operator) /\ users[r.operator].status = 1
     IN /\ r.kind # "init"
        /\ \/ ~active /\ Refuse(o, 401)
           \/ active /\ users[r.operator].role # 1 /\ Refuse(o, 403)
           \/ /\ active /\ users[r.operator].role = 1
              /\ IF r.wellFormed /\ ~(r.kind = "disable" /\ r.id = r.operator)
                 THEN Await(o, FirstAwait(r))
                 ELSE Refuse(o, 400)

FindExisting(o) ==
  /\ stage[o] = "existing"
  /\ LET r == request[o] IN
     \/ ~Exists(r.id) /\ Refuse(o, 404)
     \/ /\ Exists(r.id)
        /\ IF r.username \notin {Keep, users[r.id].username}
           THEN Await(o, "duplicate") ELSE Await(o, "update")

FindDuplicate(o) ==
  /\ stage[o] = "duplicate"
  /\ IF Taken(request[o].username)
     THEN Refuse(o, 409)
     ELSE Await(o, IF request[o].kind = "create" THEN "insert" ELSE "update")

(* A unique conflict is not caught: the answer is 500.                     *)
Insert(o) ==
  /\ stage[o] = "insert"
  /\ LET r == request[o] IN
     IF Taken(r.username) THEN Refuse(o, 500)
     ELSE users' = Append(users, NewUser(r, r.role)) /\ Written(o)

(* Mutant: the column is not unique.                                       *)
UpdateUnchecked(o) ==
  /\ stage[o] = "update"
  /\ LET r == request[o] IN
     users' = [users EXCEPT ![r.id] = Patched(@, r)] /\ Written(o)

(* Mutant: a body without a status enables the user.                       *)
UpdateDefaulting(o) ==
  /\ stage[o] = "update"
  /\ LET r == request[o] IN
     IF r.username # Keep /\ \E j \in DOMAIN users \ {r.id} : users[j].username = r.username
     THEN Refuse(o, 500)
     ELSE /\ users' = [users EXCEPT ![r.id] = Patched(@, [r EXCEPT !.status = Given(@, 1)])]
          /\ Written(o)

(* Mutant: a body without a password stores it all the same.               *)
UpdateEmptyPassword(o) ==
  /\ stage[o] = "update"
  /\ LET r == request[o] IN
     IF r.username # Keep /\ \E j \in DOMAIN users \ {r.id} : users[j].username = r.username
     THEN Refuse(o, 500)
     ELSE /\ users' = [users EXCEPT ![r.id] = [Patched(@, r) EXCEPT !.password = r.password]]
          /\ Written(o)

Update(o) ==
  /\ stage[o] = "update"
  /\ LET r == request[o] IN
     IF r.username # Keep /\ \E j \in DOMAIN users \ {r.id} : users[j].username = r.username
     THEN Refuse(o, 500)
     ELSE users' = [users EXCEPT ![r.id] = Patched(@, r)] /\ Written(o)

Disable(o) ==
  /\ stage[o] = "disable"
  /\ \/ ~Exists(request[o].id) /\ Refuse(o, 404)
     \/ /\ Exists(request[o].id)
        /\ users' = [users EXCEPT ![request[o].id].status = 0]
        /\ Written(o)

(* init-admin asks for no token, only for the development secret.          *)
ReceiveInit(o) ==
  /\ stage[o] = "idle"
  /\ request[o].kind = "init"
  /\ \/ ~localDev /\ Refuse(o, 403)
     \/ localDev /\ ~request[o].wellFormed /\ Refuse(o, 400)
     \/ localDev /\ request[o].wellFormed /\ Await(o, "admin")

FindAdmin(o) ==
  /\ stage[o] = "admin"
  /\ IF \E i \in DOMAIN users : users[i].role = 1
     THEN Refuse(o, 409) ELSE Await(o, "insertAdmin")

InsertAdmin(o) ==
  /\ stage[o] = "insertAdmin"
  /\ LET r == request[o] IN
     IF Taken(r.username) THEN Refuse(o, 500)
     ELSE users' = Append(users, NewUser(r, 1)) /\ Written(o)

(* A statement fails without effect, or the Worker is cut off.             *)
Fail(o) ==
  /\ stage[o] # "done"
  /\ Refuse(o, 500)

Handle(o) ==
  \/ Authenticate(o)
  \/ FindExisting(o) \/ FindDuplicate(o)
  \/ Insert(o) \/ Update(o) \/ Disable(o)
  \/ ReceiveInit(o) \/ FindAdmin(o) \/ InsertAdmin(o)
  \/ Fail(o)

Next == \E o \in Operations : Handle(o)

Spec == Init /\ [][Next]_vars
-----------------------------------------------------------------------------
(* Properties *)

(* The variables hold rows, labels and answers of the declared kinds.      *)
TypeOK ==
  /\ users \in Seq(User)
  /\ localDev \in BOOLEAN
  /\ stage \in [Operations -> {"idle", "existing", "duplicate", "insert", "update",
                               "disable", "admin", "insertAdmin", "done"}]
  /\ request \in [Operations -> Requests]
  /\ result \in [Operations -> {0, 200, 400, 401, 403, 404, 409, 500}]

Table == INSTANCE UniqueTable WITH
  Keys <- Usernames,
  keys <- [i \in DOMAIN users |-> users[i].username]

(* The users table is a unique table: however creations, renamings and     *)
(* initialisations interleave between look-up and write, no two users      *)
(* share a name, and none is removed.                                      *)
ImplementsUniqueTable == Table!Spec

(* A column of a user changes only by a request that names it for that     *)
(* user: edits under way do not undo each other, revive a disabled user or *)
(* reset a password.                                                       *)
Names(r, column) ==
  \/ r.kind = "update" /\ r[column] # Keep
  \/ r.kind = "disable" /\ column = "status"

OnlyNamedColumnsChange ==
  [][\A i \in DOMAIN users, column \in {"username", "password", "role", "status"} :
       users'[i][column] # users[i][column] =>
         \E o \in Operations :
           /\ stage[o] \in {"update", "disable"} /\ stage'[o] = "done"
           /\ request[o].id = i /\ Names(request[o], column)]_vars
=============================================================================
