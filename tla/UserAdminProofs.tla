-------------------------- MODULE UserAdminProofs ---------------------------
(***************************************************************************)
(* UserAdmin, for any number of requests, users and deployments: the users *)
(* keep their types, their names are a unique column, and a column changes *)
(* only by a request that names it.                                        *)
(***************************************************************************)
EXTENDS UserAdmin, SequenceTheorems, TLAPS

Labels == {"idle", "existing", "duplicate", "insert", "update", "disable", "admin",
           "insertAdmin", "done"}

(* What the checks behind a handler have established: a body that creates  *)
(* is whole, a name that is looked up is one, the row of an edit is there. *)
PastChecks(o) ==
  LET r == request[o] IN
  /\ stage[o] = "duplicate" =>
       /\ r.username # Keep
       /\ \/ r.kind = "create" /\ r.wellFormed
          \/ r.kind = "update" /\ Exists(r.id)
  /\ stage[o] = "insert" => r.kind = "create" /\ r.wellFormed
  /\ stage[o] = "update" => Exists(r.id) /\ r.kind = "update"
  /\ stage[o] = "disable" => r.kind = "disable"
  /\ stage[o] \in {"admin", "insertAdmin"} => r.kind = "init" /\ r.wellFormed
  /\ stage[o] = "existing" => r.kind = "update"

Typed == TypeOK /\ \A o \in Operations : PastChecks(o)

-----------------------------------------------------------------------------
(* Rows *)

LEMMA RequestType ==
  ASSUME Typed, NEW o \in Operations
  PROVE  request[o] \in Requests /\ request[o] \in UserRequest
BY UserAssumption DEF Typed, TypeOK

LEMMA PatchedType ==
  ASSUME NEW row \in User, NEW r \in UserRequest
  PROVE  Patched(row, r) \in User
<1>1. Given(r.username, row.username) \in Usernames
  BY DEF Given, User, UserRequest
<1>2. Given(r.password, row.password) \in Passwords
  BY DEF Given, User, UserRequest
<1>3. Given(r.role, row.role) \in 1..3
  BY DEF Given, User, UserRequest
<1>4. Given(r.status, row.status) \in {0, 1}
  BY DEF Given, User, UserRequest
<1> QED BY <1>1, <1>2, <1>3, <1>4 DEF Patched, User

(* A patch leaves a column alone that the body does not name.              *)
LEMMA PatchedColumns ==
  ASSUME NEW row \in User, NEW r \in UserRequest,
         NEW column \in {"username", "password", "role", "status"},
         Patched(row, r)[column] # row[column]
  PROVE  r[column] # Keep
<1>1. Patched(row, r)[column] = Given(r[column], row[column])
  <2>1. CASE column = "username"
    BY <2>1 DEF Patched
  <2>2. CASE column = "password"
    BY <2>2 DEF Patched
  <2>3. CASE column = "role"
    BY <2>3 DEF Patched
  <2>4. CASE column = "status"
    BY <2>4 DEF Patched
  <2> QED BY <2>1, <2>2, <2>3, <2>4
<1> QED BY <1>1 DEF Given

LEMMA DisabledType ==
  ASSUME NEW row \in User
  PROVE  /\ [row EXCEPT !.status = 0] \in User
         /\ \A column \in {"username", "password", "role", "status"} :
              [row EXCEPT !.status = 0][column] # row[column] => column = "status"
BY DEF User

LEMMA NewUserType ==
  ASSUME NEW r \in Requests, r.wellFormed, r.kind \in {"init", "create"},
         NEW role \in 1..3
  PROVE  NewUser(r, role) \in User /\ NewUser(r, role).username = r.username
<1>1. r.username \in Usernames /\ r.password \in Passwords
  BY UserAssumption DEF UserRequest
<1> QED BY <1>1 DEF NewUser, User

LEMMA CreateRole ==
  ASSUME NEW r \in Requests, r.wellFormed, r.kind = "create"
  PROVE  r.role \in 1..3
BY UserAssumption DEF UserRequest

(* The row an edit leaves behind keeps the table a table.                  *)
LEMMA RowReplaced ==
  ASSUME users \in Seq(User), NEW i \in DOMAIN users, NEW row \in User
  PROVE  /\ [users EXCEPT ![i] = row] \in Seq(User)
         /\ DOMAIN [users EXCEPT ![i] = row] = DOMAIN users
<1>1. i \in 1..Len(users)
  OBVIOUS
<1> QED BY <1>1, ExceptSeq

-----------------------------------------------------------------------------
(* What a step does to the table: nothing, an insert or an edit.           *)

Inserted == \E row \in User : users' = Append(users, row) /\ ~Taken(row.username)

Edited(i, row) ==
  /\ i \in DOMAIN users /\ row \in User /\ users' = [users EXCEPT ![i] = row]
  /\ row.username = users[i].username \/ ~Taken(row.username)

(* The row belongs to the body of o, which is being answered.              *)
NamedBy(i, row, o) ==
  /\ stage[o] \in {"update", "disable"} /\ stage'[o] = "done" /\ request[o].id = i
  /\ \A column \in {"username", "password", "role", "status"} :
       row[column] # users[i][column] => Names(request[o], column)

Change ==
  \/ users' = users
  \/ Inserted
  \/ \E i \in DOMAIN users, row \in User, o \in Operations : Edited(i, row) /\ NamedBy(i, row, o)

LEMMA InsertChange ==
  ASSUME Typed, NEW o \in Operations, Insert(o) \/ InsertAdmin(o)
  PROVE  Change
<1> DEFINE r == request[o]
<1>1. CASE Refuse(o, 500)
  BY <1>1 DEF Refuse, Change
<1>2. ASSUME NEW role \in 1..3, r.wellFormed, r.kind \in {"init", "create"},
             users' = Append(users, NewUser(r, role)), ~Taken(r.username)
      PROVE  Change
  <2>1. NewUser(r, role) \in User /\ NewUser(r, role).username = r.username
    BY <1>2, RequestType, NewUserType
  <2> QED BY <1>2, <2>1 DEF Change, Inserted
<1>3. CASE Insert(o)
  <2>1. r.wellFormed /\ r.kind = "create"
    BY <1>3 DEF Insert, Typed, PastChecks
  <2>2. r.role \in 1..3
    BY <2>1, RequestType, CreateRole
  <2> QED BY <1>1, <1>2, <1>3, <2>1, <2>2 DEF Insert
<1>4. CASE InsertAdmin(o)
  <2>1. r.wellFormed /\ r.kind = "init"
    BY <1>4 DEF InsertAdmin, Typed, PastChecks
  <2> QED BY <1>1, <1>2, <1>4, <2>1 DEF InsertAdmin
<1> QED BY <1>3, <1>4

LEMMA WrittenDone ==
  ASSUME Typed, NEW o \in Operations, Written(o)
  PROVE  stage'[o] = "done"
BY DEF Written, Answer, Typed, TypeOK

LEMMA UpdateChange ==
  ASSUME Typed, NEW o \in Operations, Update(o)
  PROVE  Change
<1> DEFINE r == request[o]
           row == Patched(users[r.id], r)
<1>1. CASE Refuse(o, 500)
  BY <1>1 DEF Refuse, Change
<1>2. CASE /\ users' = [users EXCEPT ![r.id] = row] /\ Written(o)
           /\ ~(r.username # Keep /\ \E j \in DOMAIN users \ {r.id} :
                                        users[j].username = r.username)
  <2>1. r.id \in DOMAIN users /\ stage[o] = "update" /\ r.kind = "update"
    BY DEF Update, Typed, PastChecks, Exists
  <2>2. users[r.id] \in User /\ r \in UserRequest
    BY <2>1, RequestType DEF Typed, TypeOK
  <2>3. row \in User
    BY <2>2, PatchedType
  <2>4. row.username = Given(r.username, users[r.id].username)
    BY DEF Patched
  <2>5. \A column \in {"username", "password", "role", "status"} :
          row[column] # users[r.id][column] => r[column] # Keep
    BY <2>2, PatchedColumns
  <2> HIDE DEF row
  <2>6. row.username = users[r.id].username \/ ~Taken(row.username)
    BY <1>2, <2>4 DEF Given, Taken
  <2>7. Edited(r.id, row)
    BY <1>2, <2>1, <2>3, <2>6 DEF Edited
  <2>8. NamedBy(r.id, row, o)
    BY <1>2, <2>1, <2>5, WrittenDone DEF NamedBy, Names
  <2> QED BY <2>1, <2>3, <2>7, <2>8 DEF Change
<1> QED BY <1>1, <1>2 DEF Update

LEMMA DisableChange ==
  ASSUME Typed, NEW o \in Operations, Disable(o)
  PROVE  Change
<1> DEFINE i == request[o].id
           row == [users[i] EXCEPT !.status = 0]
<1>1. CASE Refuse(o, 404)
  BY <1>1 DEF Refuse, Change
<1>2. CASE Exists(i) /\ users' = [users EXCEPT ![i].status = 0] /\ Written(o)
  <2>1. i \in DOMAIN users /\ users[i] \in User
    BY <1>2 DEF Exists, Typed, TypeOK
  <2>2. stage[o] = "disable" /\ request[o].kind = "disable"
    BY DEF Disable, Typed, PastChecks
  <2>3. row \in User /\ row.username = users[i].username
    BY <2>1, DisabledType DEF User
  <2>4. \A column \in {"username", "password", "role", "status"} :
          row[column] # users[i][column] => column = "status"
    BY <2>1, DisabledType
  <2>5. users' = [users EXCEPT ![i] = row]
    BY <1>2
  <2> HIDE DEF row
  <2>6. Edited(i, row)
    BY <2>1, <2>3, <2>5 DEF Edited
  <2>7. NamedBy(i, row, o)
    BY <1>2, <2>2, <2>4, WrittenDone DEF NamedBy, Names
  <2> QED BY <2>1, <2>3, <2>6, <2>7 DEF Change
<1> QED BY <1>1, <1>2 DEF Disable

LEMMA StepChange ==
  ASSUME Typed, Next
  PROVE  Change
<1>1. PICK o \in Operations : Handle(o)
  BY DEF Next
<1>2. CASE Authenticate(o) \/ FindExisting(o) \/ FindDuplicate(o) \/ ReceiveInit(o)
           \/ FindAdmin(o) \/ Fail(o)
  <2>1. users' = users
    BY <1>2 DEF Authenticate, FindExisting, FindDuplicate, ReceiveInit, FindAdmin, Fail,
                Refuse, Await
  <2> QED BY <2>1 DEF Change
<1> QED BY <1>1, <1>2, InsertChange, UpdateChange, DisableChange DEF Handle

(* The table stays a table, and its rows keep their ids.                   *)
LEMMA ChangeTypes ==
  ASSUME Typed, Change
  PROVE  users' \in Seq(User) /\ DOMAIN users \subseteq DOMAIN users'
<1>t. users \in Seq(User)
  BY DEF Typed, TypeOK
<1>1. CASE users' = users
  BY <1>t, <1>1
<1>2. CASE Inserted
  <2>1. PICK row \in User : users' = Append(users, row)
    BY <1>2 DEF Inserted
  <2>2. users' \in Seq(User) /\ Len(users') = Len(users) + 1
    BY <1>t, <2>1, AppendProperties
  <2> QED BY <1>t, <2>2, LenProperties
<1>3. ASSUME NEW i \in DOMAIN users, NEW row \in User, Edited(i, row)
      PROVE  users' \in Seq(User) /\ DOMAIN users \subseteq DOMAIN users'
  BY <1>t, <1>3, RowReplaced DEF Edited
<1> QED BY <1>1, <1>2, <1>3 DEF Change

-----------------------------------------------------------------------------
(* Types *)

LEMMA TypedInit == Init => Typed
<1> SUFFICES ASSUME Init PROVE Typed
  OBVIOUS
<1>1. users \in Seq(User) /\ localDev \in BOOLEAN
  BY UserAssumption DEF Init
<1>2. stage = [o \in Operations |-> "idle"]
  BY DEF Init
<1> QED BY <1>1, <1>2 DEF Init, Typed, TypeOK, PastChecks

(* A handler that goes on, or ends, must know what its next label asks for.*)
LEMMA TypedMove ==
  ASSUME Typed, Change, NEW o \in Operations, NEW label \in Labels,
         stage' = [stage EXCEPT ![o] = label],
         result' \in [Operations -> {0, 200, 400, 401, 403, 404, 409, 500}],
         UNCHANGED <<localDev, request>>,
         label # "done" => PastChecks(o)'
  PROVE  Typed'
<1>1. users' \in Seq(User) /\ DOMAIN users \subseteq DOMAIN users'
  BY ChangeTypes
<1>2. TypeOK'
  BY <1>1 DEF Typed, TypeOK, Labels
<1>3. \A p \in Operations : stage'[p] = IF p = o THEN label ELSE stage[p]
  BY DEF Typed, TypeOK
<1>4. ASSUME NEW p \in Operations PROVE PastChecks(p)'
  <2>1. CASE p = o /\ label # "done"
    BY <2>1
  <2>2. CASE p = o /\ label = "done"
    BY <1>3, <2>2 DEF PastChecks
  <2>3. CASE p # o
    BY <1>1, <1>3, <2>3 DEF Typed, PastChecks, Exists
  <2> QED BY <2>1, <2>2, <2>3
<1> QED BY <1>2, <1>4 DEF Typed

LEMMA TypedAnswer ==
  ASSUME Typed, Change, NEW o \in Operations,
         NEW status \in {200, 400, 401, 403, 404, 409, 500}, Answer(o, status)
  PROVE  Typed'
<1>1. result' \in [Operations -> {0, 200, 400, 401, 403, 404, 409, 500}]
  BY DEF Answer, Typed, TypeOK
<1> QED BY <1>1, TypedMove DEF Answer, Labels

LEMMA TypedAwait ==
  ASSUME Typed, NEW o \in Operations, NEW label \in Labels, Await(o, label),
         label # "done" => PastChecks(o)'
  PROVE  Typed'
<1>1. /\ stage' = [stage EXCEPT ![o] = label] /\ users' = users
      /\ UNCHANGED <<localDev, request>>
      /\ result' \in [Operations -> {0, 200, 400, 401, 403, 404, 409, 500}]
  BY DEF Await, Typed, TypeOK
<1> QED BY <1>1, TypedMove DEF Change

LEMMA AwaitStage ==
  ASSUME Typed, NEW o \in Operations, NEW label, Await(o, label)
  PROVE  stage'[o] = label /\ request' = request /\ users' = users
BY DEF Await, Typed, TypeOK

LEMMA TypedNext == Typed /\ [Next]_vars => Typed'
<1> SUFFICES ASSUME Typed, [Next]_vars PROVE Typed'
  OBVIOUS
<1>r. ASSUME NEW o \in Operations, NEW status \in {400, 401, 403, 404, 409, 500},
             Refuse(o, status)
      PROVE  Typed'
  BY <1>r, TypedAnswer DEF Refuse, Change
<1>1. ASSUME NEW o \in Operations, Authenticate(o) PROVE Typed'
  <2> DEFINE r == request[o]
  <2>1. CASE r.wellFormed /\ r.kind # "init" /\ Await(o, FirstAwait(r))
    <3>1. r \in Requests /\ r.kind \in {"create", "update", "disable"}
      BY <2>1, RequestType DEF UserRequest
    <3>2. CASE r.kind = "create"
      <4>1. FirstAwait(r) = "duplicate" /\ r.username # Keep
        BY <2>1, <3>1, <3>2, UserAssumption DEF FirstAwait
      <4> QED BY <2>1, <3>2, <4>1, AwaitStage, TypedAwait DEF Labels, PastChecks
    <3>3. CASE r.kind = "update"
      <4>1. FirstAwait(r) = "existing"
        BY <3>3 DEF FirstAwait
      <4> QED BY <2>1, <3>3, <4>1, AwaitStage, TypedAwait DEF Labels, PastChecks
    <3>4. CASE r.kind = "disable"
      <4>1. FirstAwait(r) = "disable"
        BY <3>4 DEF FirstAwait
      <4> QED BY <2>1, <3>4, <4>1, AwaitStage, TypedAwait DEF Labels, PastChecks
    <3> QED BY <3>1, <3>2, <3>3, <3>4
  <2> QED BY <1>1, <2>1, <1>r DEF Authenticate
<1>2. ASSUME NEW o \in Operations, FindExisting(o) PROVE Typed'
  <2>1. stage[o] = "existing" /\ request[o].kind = "update"
    BY <1>2 DEF FindExisting, Typed, PastChecks
  <2>2. CASE Exists(request[o].id) /\ request[o].username # Keep /\ Await(o, "duplicate")
    BY <2>1, <2>2, AwaitStage, TypedAwait DEF Labels, PastChecks, Exists
  <2>3. CASE Exists(request[o].id) /\ Await(o, "update")
    BY <2>1, <2>3, AwaitStage, TypedAwait DEF Labels, PastChecks, Exists
  <2> QED BY <1>2, <2>2, <2>3, <1>r DEF FindExisting
<1>3. ASSUME NEW o \in Operations, FindDuplicate(o) PROVE Typed'
  <2>1. \/ request[o].kind = "create" /\ request[o].wellFormed
        \/ request[o].kind = "update" /\ Exists(request[o].id)
    BY <1>3 DEF FindDuplicate, Typed, PastChecks
  <2>2. CASE request[o].kind = "create" /\ request[o].wellFormed /\ Await(o, "insert")
    BY <2>2, AwaitStage, TypedAwait DEF Labels, PastChecks
  <2>3. CASE request[o].kind = "update" /\ Await(o, "update")
    BY <2>1, <2>3, AwaitStage, TypedAwait DEF Labels, PastChecks, Exists
  <2> QED BY <1>3, <2>1, <2>2, <2>3, <1>r DEF FindDuplicate
<1>4. ASSUME NEW o \in Operations, Insert(o) \/ InsertAdmin(o) PROVE Typed'
  <2>1. Change
    BY <1>4, InsertChange
  <2> QED BY <1>4, <2>1, TypedAnswer DEF Insert, InsertAdmin, Refuse, Written
<1>5. ASSUME NEW o \in Operations, Update(o) PROVE Typed'
  BY <1>5, UpdateChange, TypedAnswer DEF Update, Refuse, Written
<1>6. ASSUME NEW o \in Operations, Disable(o) PROVE Typed'
  BY <1>6, DisableChange, TypedAnswer DEF Disable, Refuse, Written
<1>7. ASSUME NEW o \in Operations, ReceiveInit(o) PROVE Typed'
  <2>1. CASE request[o].kind = "init" /\ request[o].wellFormed /\ Await(o, "admin")
    BY <2>1, AwaitStage, TypedAwait DEF Labels, PastChecks
  <2> QED BY <1>7, <2>1, <1>r DEF ReceiveInit
<1>8. ASSUME NEW o \in Operations, FindAdmin(o) PROVE Typed'
  <2>1. request[o].kind = "init" /\ request[o].wellFormed
    BY <1>8 DEF FindAdmin, Typed, PastChecks
  <2>2. CASE Await(o, "insertAdmin")
    BY <2>1, <2>2, AwaitStage, TypedAwait DEF Labels, PastChecks
  <2> QED BY <1>8, <2>2, <1>r DEF FindAdmin
<1>9. ASSUME NEW o \in Operations, Fail(o) PROVE Typed'
  BY <1>9, <1>r DEF Fail
<1>10. CASE UNCHANGED vars
  BY <1>10 DEF vars, Typed, TypeOK, PastChecks, Exists
<1> QED BY <1>1, <1>2, <1>3, <1>4, <1>5, <1>6, <1>7, <1>8, <1>9, <1>10 DEF Next, Handle

LEMMA Invariance == Spec => []Typed
BY TypedInit, TypedNext, PTL DEF Spec

(* The users, labels and answers keep their types.                         *)
THEOREM TypesHold == Spec => []TypeOK
<1>1. Typed => TypeOK
  BY DEF Typed
<1> QED BY <1>1, Invariance, PTL

-----------------------------------------------------------------------------
(* Refinement: the user names are a unique table. *)

ColumnOf(table) == [i \in DOMAIN table |-> table[i].username]

Column == ColumnOf(users)

LEMMA ColumnType ==
  ASSUME NEW table \in Seq(User)
  PROVE  /\ ColumnOf(table) \in Seq(Usernames)
         /\ DOMAIN ColumnOf(table) = DOMAIN table
         /\ Len(ColumnOf(table)) = Len(table)
<1>1. Len(table) \in Nat /\ DOMAIN table = 1..Len(table)
      /\ \A i \in 1..Len(table) : table[i] \in User
  BY LenProperties
<1>2. ColumnOf(table) \in [1..Len(table) -> Usernames]
  BY <1>1 DEF ColumnOf, User
<1>3. ColumnOf(table) \in Seq(Usernames) /\ DOMAIN ColumnOf(table) = 1..Len(table)
  BY <1>1, <1>2, IsASeq
<1> QED BY <1>1, <1>3, LenProperties

LEMMA TableInit == Init => Table!Init
<1> SUFFICES ASSUME Init PROVE Table!Init
  OBVIOUS
<1>1. \A i, j \in DOMAIN users : users[i].username = users[j].username => i = j
  BY UserAssumption DEF Init
<1>2. Column \in Seq(Usernames) /\ DOMAIN Column = DOMAIN users
  BY TypedInit, ColumnType DEF Typed, TypeOK, Column
<1>3. \A i, j \in DOMAIN Column : Column[i] = Column[j] => i = j
  BY <1>1, <1>2 DEF Column, ColumnOf
<1> QED BY <1>2, <1>3 DEF Table!Init, Table!IsInjective, Column, ColumnOf

LEMMA ColumnEdited ==
  ASSUME users \in Seq(User), NEW i, NEW row, Edited(i, row)
  PROVE  Table!Next \/ Column' = Column
<1>1. /\ i \in DOMAIN users /\ row \in User /\ users' = [users EXCEPT ![i] = row]
      /\ DOMAIN users' = DOMAIN users
  BY RowReplaced DEF Edited
<1>2. CASE row.username = users[i].username
  <2>1. \A j \in DOMAIN users : users'[j].username = users[j].username
    BY <1>1, <1>2
  <2> QED BY <1>1, <2>1 DEF Column, ColumnOf
<1>3. CASE ~Taken(row.username)
  <2>1. Column' = [Column EXCEPT ![i] = row.username]
    BY <1>1 DEF Column, ColumnOf
  <2>2. \A j \in DOMAIN Column : Column[j] # row.username
    BY <1>3 DEF Column, ColumnOf, Taken
  <2>3. row.username \in Usernames /\ i \in DOMAIN Column
    BY <1>1 DEF Column, ColumnOf, User
  <2> QED BY <2>1, <2>2, <2>3 DEF Table!Next, Table!Rename, Column, ColumnOf
<1> QED BY <1>2, <1>3 DEF Edited

LEMMA ColumnExtended ==
  ASSUME users \in Seq(User), NEW row \in User, users' = Append(users, row),
         ~Taken(row.username)
  PROVE  Table!Next
<1> DEFINE longer == Append(Column, row.username)
<1>1. /\ users' \in Seq(User) /\ Len(users') = Len(users) + 1
      /\ \A i \in 1..Len(users) : users'[i] = users[i]
      /\ users'[Len(users) + 1] = row
  BY AppendProperties
<1>2. /\ Len(users) \in Nat /\ DOMAIN users = 1..Len(users)
      /\ DOMAIN users' = 1..Len(users')
  BY <1>1, LenProperties
<1>3. Column \in Seq(Usernames) /\ Len(Column) = Len(users)
  BY ColumnType DEF Column, ColumnOf
<1>4. ColumnOf(users') \in Seq(Usernames) /\ Len(ColumnOf(users')) = Len(users')
  BY <1>1, ColumnType
<1>5. row.username \in Usernames
  BY DEF User
<1>6. longer \in Seq(Usernames) /\ Len(longer) = Len(users) + 1
      /\ (\A i \in 1..Len(users) : longer[i] = Column[i])
      /\ longer[Len(users) + 1] = row.username
  BY <1>3, <1>5, AppendProperties
<1>7. \A i \in 1..Len(users') : ColumnOf(users')[i] = longer[i]
  BY <1>1, <1>2, <1>6 DEF Column, ColumnOf
<1>8. ColumnOf(users') = longer
  <2> HIDE DEF longer
  <2> QED BY <1>1, <1>4, <1>6, <1>7, SeqEqual
<1>9. \A j \in DOMAIN Column : Column[j] # row.username
  BY DEF Column, ColumnOf, Taken
<1> QED BY <1>5, <1>8, <1>9 DEF Table!Next, Table!Insert, Column, ColumnOf

LEMMA TableNext == Typed /\ [Next]_vars => [Table!Next]_Column
<1> SUFFICES ASSUME Typed, [Next]_vars PROVE Table!Next \/ Column' = Column
  BY DEF Column, ColumnOf
<1>t. users \in Seq(User)
  BY DEF Typed, TypeOK
<1>1. CASE users' = users
  BY <1>1 DEF Column, ColumnOf
<1>2. CASE Inserted
  BY <1>t, <1>2, ColumnExtended DEF Inserted
<1>3. ASSUME NEW i, NEW row, Edited(i, row) PROVE Table!Next \/ Column' = Column
  BY <1>t, <1>3, ColumnEdited
<1>4. CASE UNCHANGED vars
  BY <1>1, <1>4 DEF vars
<1> QED BY <1>1, <1>2, <1>3, <1>4, StepChange DEF Change

(* However creations, renamings and initialisations interleave between     *)
(* look-up and write, the users implement a unique table.                  *)
THEOREM UsersAreUnique == Spec => ImplementsUniqueTable
BY TableInit, TableNext, Invariance, PTL
   DEF Spec, ImplementsUniqueTable, Table!Spec, Column, ColumnOf

(* No two users share a name: what the unique column of users promises.    *)
UniqueNames ==
  \A i, j \in DOMAIN users : users[i].username = users[j].username => i = j

(* No id that was handed out is ever without its row.                      *)
RowsKept == [][DOMAIN users \subseteq DOMAIN users']_users

(* A unique table loses no row and gives no name twice: an insertion or a  *)
(* renaming takes a name that no row has.                                  *)
LEMMA TableKeepsUnique ==
  ASSUME Typed, Typed', UniqueNames, [Table!Next]_Column
  PROVE  UniqueNames' /\ DOMAIN users \subseteq DOMAIN users'
<1> DEFINE c == Column
          d == Column'
<1>1. /\ c \in Seq(Usernames) /\ DOMAIN c = DOMAIN users
      /\ d \in Seq(Usernames) /\ DOMAIN d = DOMAIN users'
  BY ColumnType DEF Typed, TypeOK, Column
<1>2. /\ \A i \in DOMAIN users : c[i] = users[i].username
      /\ \A i \in DOMAIN users' : d[i] = users'[i].username
  BY DEF Column, ColumnOf
<1>3. \A i, j \in DOMAIN c : c[i] = c[j] => i = j
  BY <1>1, <1>2 DEF UniqueNames
<1>4. ASSUME NEW k \in Usernames, Table!Insert(k)
      PROVE  /\ DOMAIN c \subseteq DOMAIN d
             /\ \A i, j \in DOMAIN d : d[i] = d[j] => i = j
  <2>1. d = Append(c, k) /\ \A i \in DOMAIN c : c[i] # k
    BY <1>4 DEF Table!Insert, Column, ColumnOf
  <2> HIDE DEF c, d
  <2> QED  BY <1>1, <1>3, <2>1, AppendProperties, LenProperties
<1>5. ASSUME NEW i \in DOMAIN c, NEW k \in Usernames, Table!Rename(i, k)
      PROVE  /\ DOMAIN c \subseteq DOMAIN d
             /\ \A h, j \in DOMAIN d : d[h] = d[j] => h = j
  <2>1. d = [c EXCEPT ![i] = k] /\ \A j \in DOMAIN c : c[j] # k
    BY <1>5 DEF Table!Rename, Column, ColumnOf
  <2> HIDE DEF c, d
  <2> QED  BY <1>3, <2>1
<1>6. ASSUME d = c
      PROVE  /\ DOMAIN c \subseteq DOMAIN d
             /\ \A i, j \in DOMAIN d : d[i] = d[j] => i = j
  <2> HIDE DEF c, d
  <2> QED  BY <1>3, <1>6
<1>7. d = c \/ (\E k \in Usernames : Table!Insert(k))
      \/ \E i \in DOMAIN c, k \in Usernames : Table!Rename(i, k)
  BY DEF Table!Next, Column, ColumnOf
<1>8. DOMAIN c \subseteq DOMAIN d /\ \A i, j \in DOMAIN d : d[i] = d[j] => i = j
  <2> HIDE DEF c, d
  <2> QED  BY <1>3, <1>4, <1>5, <1>6, <1>7
<1> HIDE DEF c, d
<1> QED  BY <1>1, <1>2, <1>8 DEF UniqueNames

(* So whatever is looked up at login is one user, and ids that customers,  *)
(* call logs and tokens refer to stay those of a row.                      *)
THEOREM NamesStayUnique == Spec => []UniqueNames /\ RowsKept
<1>1. Init => UniqueNames
  BY TypedInit, TableInit, ColumnType
     DEF Typed, TypeOK, Table!Init, Table!IsInjective, Column, ColumnOf, UniqueNames
<1>2. Typed /\ Typed' /\ [Next]_vars /\ UniqueNames => UniqueNames'
  BY TableNext, TableKeepsUnique
<1>3. Typed /\ Typed' /\ [Next]_vars /\ UniqueNames => [DOMAIN users \subseteq DOMAIN users']_users
  BY TableNext, TableKeepsUnique
<1> QED  BY <1>1, <1>2, <1>3, Invariance, PTL DEF Spec, RowsKept

-----------------------------------------------------------------------------
(* Columns *)

ColumnsNamed ==
  \A i \in DOMAIN users, column \in {"username", "password", "role", "status"} :
    users'[i][column] # users[i][column] =>
      \E o \in Operations :
        /\ stage[o] \in {"update", "disable"} /\ stage'[o] = "done"
        /\ request[o].id = i /\ Names(request[o], column)

LEMMA ChangeIsNamed ==
  ASSUME Typed, Change
  PROVE  ColumnsNamed
<1>t. users \in Seq(User)
  BY DEF Typed, TypeOK
<1>1. CASE users' = users
  BY <1>1 DEF ColumnsNamed
<1>2. CASE Inserted
  <2>1. PICK row \in User : users' = Append(users, row)
    BY <1>2 DEF Inserted
  <2>2. \A i \in DOMAIN users : users'[i] = users[i]
    BY <1>t, <2>1, AppendProperties, LenProperties
  <2> QED BY <2>2 DEF ColumnsNamed
<1>3. ASSUME NEW j \in DOMAIN users, NEW row \in User, NEW o \in Operations,
             Edited(j, row), NamedBy(j, row, o)
      PROVE  ColumnsNamed
  <2>1. \A i \in DOMAIN users : users'[i] = IF i = j THEN row ELSE users[i]
    BY <1>3 DEF Edited
  <2>2. /\ stage[o] \in {"update", "disable"} /\ stage'[o] = "done" /\ request[o].id = j
        /\ \A column \in {"username", "password", "role", "status"} :
             row[column] # users[j][column] => Names(request[o], column)
    BY <1>3 DEF NamedBy
  <2> QED BY <2>1, <2>2 DEF ColumnsNamed
<1> QED BY <1>1, <1>2, <1>3 DEF Change

(* No edit under way undoes another, enables a disabled user or resets a   *)
(* password that its body does not name.                                   *)
THEOREM ColumnsAreNamed == Spec => OnlyNamedColumnsChange
<1>1. Typed /\ [Next]_vars => [ColumnsNamed]_vars
  BY StepChange, ChangeIsNamed
<1>2. [][ColumnsNamed]_vars => OnlyNamedColumnsChange
  BY PTL DEF OnlyNamedColumnsChange, ColumnsNamed
<1> QED BY <1>1, <1>2, Invariance, PTL DEF Spec
=============================================================================
