------------------------- MODULE CustomerDeskProofs -------------------------
(***************************************************************************)
(* CustomerDesk, for any number of customers, users and operations: owners *)
(* never change off the record, the previous owner that is logged did own  *)
(* the customer, an assignment logs as many rows as it says, and a         *)
(* deletion is final.                                                      *)
(***************************************************************************)
EXTENDS CustomerDesk, FiniteSetTheorems, TLAPS

Result == [status : {0, 200, 400, 401, 403, 404, 500}, count : Nat]
Labels == {"idle", "target", "customers", "assign", "existing",
           "patch", "state", "delete", "active", "batch", "done"}
Seen == UNION {[S -> Users \cup {NoUser}] : S \in SUBSET Customers}

(* What the checks of a handler have established when it awaits a          *)
(* statement.                                                              *)
PastChecks(o) ==
  /\ stage[o] \notin {"idle", "done"} => request[o].operator \in Users
  /\ stage[o] \in {"customers", "assign"} => request[o].target \in Users \cup {NoUser}
  /\ DOMAIN seen[o] \subseteq Found(o)

Typed == TypeOK /\ \A o \in Operations : PastChecks(o)

(* An owner that an assignment has read is nobody, or was put on record.   *)
OnRecord(c, u) == u = NoUser \/ \E j \in 1..Len(assignmentLogs[c]) : assignmentLogs[c][j].to = u
SeenOnRecord == \A o \in Operations : \A c \in DOMAIN seen[o] : OnRecord(c, seen[o][c])

Inv == Typed /\ OwnerIsLogged /\ FromUserWasOwner /\ SeenOnRecord

LEMMA RequestTypes ==
  ASSUME TypeOK, NEW o \in Operations
  PROVE  /\ request[o] \in DeskRequest /\ IsFiniteSet(request[o].ids)
         /\ Found(o) \subseteq Customers /\ IsFiniteSet(Found(o))
         /\ seen[o] \in [DOMAIN seen[o] -> Users \cup {NoUser}]
         /\ DOMAIN seen[o] \subseteq Customers
<1>1. request[o] \in DeskRequest /\ IsFiniteSet(request[o].ids)
  BY DeskAssumption DEF TypeOK
<1>2. Found(o) \subseteq Customers /\ Found(o) \subseteq request[o].ids
  BY DEF Found
<1>3. IsFiniteSet(Found(o))
  BY <1>1, <1>2, FS_Subset
<1>4. PICK S \in SUBSET Customers : seen[o] \in [S -> Users \cup {NoUser}]
  BY DEF TypeOK
<1> QED BY <1>1, <1>2, <1>3, <1>4

-----------------------------------------------------------------------------
(* The statements, by what they do to a table                              *)

LEMMA SetOwnerTable ==
  ASSUME NEW table \in [Customers -> CustomerRow], NEW ids, NEW u \in Users \cup {NoUser}
  PROVE  /\ SetOwner(table, ids, u) \in [Customers -> CustomerRow]
         /\ \A c \in Customers :
              /\ SetOwner(table, ids, u)[c].isDeleted = table[c].isDeleted
              /\ SetOwner(table, ids, u)[c].owner =
                   IF c \in ids /\ table[c].isDeleted = 0 THEN u ELSE table[c].owner
<1>1. ASSUME NEW c \in Customers
      PROVE  /\ [table[c] EXCEPT !.owner = u] \in CustomerRow
             /\ [table[c] EXCEPT !.owner = u].isDeleted = table[c].isDeleted
             /\ [table[c] EXCEPT !.owner = u].owner = u
  BY DEF CustomerRow
<1> QED BY <1>1 DEF SetOwner

LEMMA PatchedRow ==
  ASSUME NEW row \in CustomerRow, NEW p \in Patch
  PROVE  /\ Patched(row, p) \in CustomerRow
         /\ Patched(row, p).owner = row.owner /\ Patched(row, p).isDeleted = row.isDeleted
BY TableAssumption DEF Patched, SetField, CustomerRow, Patch, Types

LEMMA PatchTable ==
  ASSUME NEW table \in [Customers -> CustomerRow], NEW ids, NEW p \in Patch
  PROVE  /\ PatchRows(table, ids, p) \in [Customers -> CustomerRow]
         /\ \A c \in Customers : /\ PatchRows(table, ids, p)[c].isDeleted = table[c].isDeleted
                                 /\ PatchRows(table, ids, p)[c].owner = table[c].owner
BY PatchedRow DEF PatchRows

LEMMA MarkDeletedTable ==
  ASSUME NEW table \in [Customers -> CustomerRow], NEW d \in Customers
  PROVE  /\ MarkDeleted(table, d) \in [Customers -> CustomerRow]
         /\ \A c \in Customers :
              /\ MarkDeleted(table, d)[c].isDeleted = IF c = d THEN 1 ELSE table[c].isDeleted
              /\ MarkDeleted(table, d)[c].owner = table[c].owner
<1>1. MarkDeleted(table, d) = [table EXCEPT ![d] = [table[d] EXCEPT !.isDeleted = 1]]
  BY DEF MarkDeleted
<1>2. /\ [table[d] EXCEPT !.isDeleted = 1] \in CustomerRow
      /\ [table[d] EXCEPT !.isDeleted = 1].isDeleted = 1
      /\ [table[d] EXCEPT !.isDeleted = 1].owner = table[d].owner
  BY DEF CustomerRow
<1> QED BY <1>1, <1>2

LEMMA CustomersTyped ==
  ASSUME TypeOK
  PROVE  customers \in [Customers -> CustomerRow]
BY DEF TypeOK

-----------------------------------------------------------------------------
(* Steps by what they change                                               *)

(* The handler of o goes on to await label; its answer is of the type.     *)
Moves(o, label) ==
  /\ stage' = [stage EXCEPT ![o] = label]
  /\ result' \in [Operations -> Result]
  /\ request' = request

LEMMA AnswerMoves ==
  ASSUME TypeOK, NEW o \in Operations, NEW r \in Result, Answer(o, r)
  PROVE  Moves(o, "done") /\ seen' = seen
BY DEF Answer, Moves, TypeOK, Result

LEMMA SettleMoves ==
  ASSUME TypeOK, NEW o \in Operations, NEW r \in Result, Settle(o, r)
  PROVE  Moves(o, "done") /\ seen' = seen
<1>1. Refused(500) \in Result
  BY DEF Refused, Result
<1> QED BY <1>1, AnswerMoves DEF Settle

LEMMA TypedStep ==
  ASSUME Typed, NEW o \in Operations, NEW label \in Labels, Moves(o, label), seen' = seen,
         label \notin {"idle", "done"} => request[o].operator \in Users,
         label \in {"customers", "assign"} => request[o].target \in Users \cup {NoUser},
         customers' \in [Customers -> CustomerRow],
         deletedBy' \in [Customers -> Operations \cup {NoOperation}],
         assignmentLogs' \in [Customers -> Seq(AssignmentLog)],
         users' = users
  PROVE  Typed'
<1>1. TypeOK'
  BY DEF Typed, TypeOK, Moves, Labels, Result
<1>2. ASSUME NEW q \in Operations PROVE PastChecks(q)'
  BY DEF Typed, TypeOK, Moves, PastChecks, Found
<1> QED BY <1>1, <1>2 DEF Typed

(* A step that touches neither the owners and deletions nor the log nor    *)
(* what assignments have read.                                             *)
Inert ==
  /\ \A c \in Customers : /\ customers'[c].isDeleted = customers[c].isDeleted
                          /\ customers'[c].owner = customers[c].owner
  /\ assignmentLogs' = assignmentLogs /\ seen' = seen

LEMMA InertInv ==
  ASSUME Inv, Inert, Typed'
  PROVE  Inv'
BY DEF Inv, Inert, OwnerIsLogged, LoggedOwner, Live, FromUserWasOwner, SeenOnRecord, OnRecord

LEMMA ReadInv ==
  ASSUME Inv, NEW o \in Operations, NEW label \in Labels, Moves(o, label), seen' = seen,
         label \notin {"idle", "done"} => request[o].operator \in Users,
         label \in {"customers", "assign"} => request[o].target \in Users \cup {NoUser},
         UNCHANGED tableVars
  PROVE  Inv'
<1>1. /\ customers' = customers /\ deletedBy' = deletedBy
      /\ assignmentLogs' = assignmentLogs /\ users' = users
  BY DEF tableVars
<1>2. Typed'
  BY <1>1, TypedStep DEF Inv, Typed, TypeOK
<1> QED BY <1>1, <1>2, InertInv DEF Inert

LEMMA AnswerInv ==
  ASSUME Inv, NEW o \in Operations, NEW r \in Result, Answer(o, r), UNCHANGED tableVars
  PROVE  Inv'
BY AnswerMoves, ReadInv DEF Inv, Typed, Labels

LEMMA RefuseInv ==
  ASSUME Inv, NEW o \in Operations, NEW code \in {400, 401, 403, 404, 500}, Refuse(o, code)
  PROVE  Inv'
<1>1. Refused(code) \in Result
  BY DEF Refused, Result
<1> QED BY <1>1, AnswerInv DEF Refuse

LEMMA AwaitInv ==
  ASSUME Inv, NEW o \in Operations, NEW label \in Labels, Await(o, label), seen' = seen,
         label \notin {"idle", "done"} => request[o].operator \in Users,
         label \in {"customers", "assign"} => request[o].target \in Users \cup {NoUser}
  PROVE  Inv'
<1>1. Moves(o, label) /\ UNCHANGED tableVars
  BY DEF Await, Moves, Inv, Typed, TypeOK, Result
<1> QED BY <1>1, ReadInv

-----------------------------------------------------------------------------
(* The handlers                                                            *)

LEMMA AuthenticateInv ==
  ASSUME Inv, NEW o \in Operations, Authenticate(o)
  PROVE  Inv'
<1> DEFINE r == request[o]
<1>1. CASE \E code \in {400, 401, 403} : Refuse(o, code)
  BY <1>1, RefuseInv
<1>2. CASE r.operator \in Users /\ Await(o, FirstRead(r)) /\ UNCHANGED seen
  <2>1. r \in DeskRequest
    BY RequestTypes DEF Inv, Typed
  <2>2. FirstRead(r) \in Labels /\ (FirstRead(r) = "customers" => r.target = NoUser)
        /\ FirstRead(r) # "assign"
    BY <2>1 DEF FirstRead, Labels, DeskRequest
  <2> QED BY <1>2, <2>2, AwaitInv
<1> QED BY <1>1, <1>2 DEF Authenticate

LEMMA ReadTargetInv ==
  ASSUME Inv, NEW o \in Operations, ReadTarget(o)
  PROVE  Inv'
<1>1. CASE \E code \in {400, 404} : Refuse(o, code)
  BY <1>1, RefuseInv
<1>2. CASE request[o].target \in Users /\ Await(o, "customers") /\ UNCHANGED seen
  <2>1. request[o].operator \in Users
    BY DEF ReadTarget, Inv, Typed, PastChecks
  <2> QED BY <1>2, <2>1, AwaitInv DEF Labels
<1> QED BY <1>1, <1>2 DEF ReadTarget

(* The owners that are read are those of live customers, hence on record.  *)
LEMMA ReadCustomersInv ==
  ASSUME Inv, NEW o \in Operations, ReadCustomers(o)
  PROVE  Inv'
<1>1. CASE Answer(o, Done(0)) /\ UNCHANGED tableVars
  <2>1. Done(0) \in Result
    BY DEF Done, Result
  <2> QED BY <1>1, <2>1, AnswerInv
<1>2. CASE Refuse(o, 400)
  BY <1>2, RefuseInv
<1>3. CASE /\ \A c \in Found(o) : Live(c)
           /\ Await(o, "assign")
           /\ seen' = [seen EXCEPT ![o] = [c \in Found(o) |-> customers[c].owner]]
  <2> DEFINE read == [c \in Found(o) |-> customers[c].owner]
  <2>0. TypeOK /\ Found(o) \subseteq Customers
    BY RequestTypes DEF Inv, Typed
  <2>1. /\ stage' = [stage EXCEPT ![o] = "assign"]
        /\ customers' = customers /\ deletedBy' = deletedBy /\ users' = users
        /\ assignmentLogs' = assignmentLogs /\ request' = request /\ result' = result
    BY <1>3 DEF Await, tableVars
  <2>2. read \in Seen /\ DOMAIN read = Found(o)
    <3>1. read \in [Found(o) -> Users \cup {NoUser}]
      BY <2>0 DEF TypeOK, CustomerRow
    <3> QED BY <2>0, <3>1 DEF Seen
  <2>3. \A q \in Operations : seen'[q] = IF q = o THEN read ELSE seen[q]
    BY <1>3, <2>0 DEF TypeOK
  <2>4. request[o].operator \in Users /\ request[o].target \in Users \cup {NoUser}
    BY DEF ReadCustomers, Inv, Typed, PastChecks
  <2>5. \A c \in Found(o) : OnRecord(c, read[c])
    <3> SUFFICES ASSUME NEW c \in Found(o) PROVE OnRecord(c, customers[c].owner)
      OBVIOUS
    <3>1. customers[c].owner = LoggedOwner(c) /\ assignmentLogs[c] \in Seq(AssignmentLog)
      BY <1>3, <2>0 DEF Inv, OwnerIsLogged, TypeOK
    <3>2. CASE assignmentLogs[c] = <<>>
      BY <3>1, <3>2 DEF LoggedOwner, OnRecord
    <3>3. CASE assignmentLogs[c] # <<>>
      <4>1. Len(assignmentLogs[c]) \in 1..Len(assignmentLogs[c])
        BY <3>1, <3>3
      <4> QED BY <3>1, <3>3, <4>1 DEF LoggedOwner, OnRecord
    <3> QED BY <3>2, <3>3
  <2> HIDE DEF read
  <2>6. seen' \in [Operations -> Seen]
    BY <1>3, <2>0, <2>2 DEF TypeOK, Seen, read
  <2>7. TypeOK'
    BY <2>0, <2>1, <2>6 DEF TypeOK, Seen
  <2>8. \A q \in Operations : PastChecks(q)'
    BY <2>0, <2>1, <2>2, <2>3, <2>4 DEF Inv, Typed, TypeOK, PastChecks, Found
  <2>9. SeenOnRecord'
    BY <2>1, <2>2, <2>3, <2>5 DEF Inv, SeenOnRecord, OnRecord
  <2>10. OwnerIsLogged' /\ FromUserWasOwner'
    BY <2>1 DEF Inv, OwnerIsLogged, LoggedOwner, Live, FromUserWasOwner
  <2> QED BY <2>7, <2>8, <2>9, <2>10 DEF Inv, Typed
<1> QED BY <1>1, <1>2, <1>3 DEF ReadCustomers

(* The log after an assignment: one row more for each customer it has read. *)
LEMMA LogsExtended ==
  ASSUME Inv, NEW o \in Operations, WriteAssignment(o)
  PROVE  /\ assignmentLogs' \in [Customers -> Seq(AssignmentLog)]
         /\ \A c \in Customers : c \notin DOMAIN seen[o] => assignmentLogs'[c] = assignmentLogs[c]
         /\ \A c \in DOMAIN seen[o] :
              /\ c \in Customers
              /\ Len(assignmentLogs'[c]) = Len(assignmentLogs[c]) + 1
              /\ Len(assignmentLogs[c]) \in Nat
              /\ assignmentLogs'[c][Len(assignmentLogs'[c])] = LogRow(o, c)
              /\ \A i \in 1..Len(assignmentLogs[c]) : assignmentLogs'[c][i] = assignmentLogs[c][i]
<1> DEFINE ids == DOMAIN seen[o]
           to == request[o].target
<1>1. /\ TypeOK /\ ids \subseteq Customers
      /\ request[o].operator \in Users /\ to \in Users \cup {NoUser}
      /\ \A c \in ids : seen[o][c] \in Users \cup {NoUser}
  BY RequestTypes DEF WriteAssignment, Inv, Typed, PastChecks
<1>2. assignmentLogs' = [c \in Customers |->
        IF c \in ids THEN Append(assignmentLogs[c], LogRow(o, c)) ELSE assignmentLogs[c]]
  BY DEF WriteAssignment
<1>3. \A c \in ids : LogRow(o, c) \in AssignmentLog
  BY <1>1 DEF LogRow, AssignmentLog, AssignmentAction
<1> HIDE DEF ids, to
<1>4. \A c \in Customers :
        /\ c \notin ids => assignmentLogs'[c] = assignmentLogs[c]
        /\ c \in ids => assignmentLogs'[c] = Append(assignmentLogs[c], LogRow(o, c))
  BY <1>2
<1>5. assignmentLogs' \in [Customers -> Seq(AssignmentLog)]
  BY <1>1, <1>2, <1>3 DEF TypeOK
<1>6. \A c \in ids :
         /\ Len(assignmentLogs'[c]) = Len(assignmentLogs[c]) + 1
         /\ Len(assignmentLogs[c]) \in Nat
         /\ assignmentLogs'[c][Len(assignmentLogs'[c])] = LogRow(o, c)
         /\ \A i \in 1..Len(assignmentLogs[c]) : assignmentLogs'[c][i] = assignmentLogs[c][i]
  <2> SUFFICES ASSUME NEW c \in ids
               PROVE  LET old == assignmentLogs[c]
                          new == Append(old, LogRow(o, c))
                      IN /\ Len(new) = Len(old) + 1 /\ Len(old) \in Nat
                         /\ new[Len(new)] = LogRow(o, c)
                         /\ \A i \in 1..Len(old) : new[i] = old[i]
    BY <1>1, <1>4
  <2>1. assignmentLogs[c] \in Seq(AssignmentLog) /\ LogRow(o, c) \in AssignmentLog
    BY <1>1, <1>3 DEF TypeOK
  <2> QED BY <2>1
<1> QED BY <1>1, <1>4, <1>5, <1>6 DEF ids

(* One transaction: a live customer's new owner and the new last row of    *)
(* its log are the same, and what is logged as its old owner is on record. *)
LEMMA WriteAssignmentInv ==
  ASSUME Inv, NEW o \in Operations, WriteAssignment(o)
  PROVE  Inv'
<1> DEFINE ids == DOMAIN seen[o]
           to == request[o].target
<1>1. /\ TypeOK /\ stage[o] = "assign" /\ ids \subseteq Customers
      /\ request[o].operator \in Users /\ to \in Users \cup {NoUser}
      /\ ids \subseteq Found(o) /\ IsFiniteSet(Found(o))
      /\ \A c \in ids : seen[o][c] \in Users \cup {NoUser}
  BY RequestTypes DEF WriteAssignment, Inv, Typed, PastChecks
<1>2. /\ customers' = SetOwner(customers, ids, to)
      /\ assignmentLogs' = [c \in Customers |->
           IF c \in ids THEN Append(assignmentLogs[c], LogRow(o, c)) ELSE assignmentLogs[c]]
      /\ Settle(o, Done(Cardinality(ids))) /\ deletedBy' = deletedBy /\ users' = users
  BY DEF WriteAssignment
<1>3. Done(Cardinality(ids)) \in Result
  <2>1. IsFiniteSet(ids)
    BY <1>1, FS_Subset
  <2> QED BY <2>1, FS_CardinalityType DEF Done, Result
<1>4. Moves(o, "done") /\ seen' = seen
  BY <1>1, <1>2, <1>3, SettleMoves
<1>5. \A c \in ids : LogRow(o, c).to = to /\ LogRow(o, c).from = seen[o][c]
  BY DEF LogRow
<1>6. /\ customers' \in [Customers -> CustomerRow]
      /\ \A c \in Customers :
           /\ customers'[c].isDeleted = customers[c].isDeleted
           /\ customers'[c].owner =
                IF c \in ids /\ customers[c].isDeleted = 0 THEN to ELSE customers[c].owner
  <2> HIDE DEF ids, to
  <2>1. customers \in [Customers -> CustomerRow]
    BY <1>1, CustomersTyped
  <2> QED BY <1>1, <1>2, <2>1, SetOwnerTable
<1>7. /\ assignmentLogs' \in [Customers -> Seq(AssignmentLog)]
      /\ \A c \in Customers : c \notin ids => assignmentLogs'[c] = assignmentLogs[c]
      /\ \A c \in ids :
           /\ Len(assignmentLogs'[c]) = Len(assignmentLogs[c]) + 1
           /\ Len(assignmentLogs[c]) \in Nat
           /\ assignmentLogs'[c][Len(assignmentLogs'[c])] = LogRow(o, c)
           /\ \A i \in 1..Len(assignmentLogs[c]) : assignmentLogs'[c][i] = assignmentLogs[c][i]
  BY LogsExtended
<1> HIDE DEF ids, to
<1>8. Typed'
  BY <1>1, <1>2, <1>4, <1>6, <1>7, TypedStep DEF Inv, Typed, TypeOK, Labels
<1>9. OwnerIsLogged'
  <2> SUFFICES ASSUME NEW c \in Customers, customers'[c].isDeleted = 0
               PROVE  customers'[c].owner = LoggedOwner(c)'
    BY DEF OwnerIsLogged, Live
  <2>1. CASE c \in ids
    <3>1. customers'[c].owner = to
      BY <1>6, <2>1
    <3>2. assignmentLogs'[c] # <<>> /\ LoggedOwner(c)' = to
      BY <1>5, <1>7, <2>1 DEF LoggedOwner
    <3> QED BY <3>1, <3>2
  <2>2. CASE c \notin ids
    BY <1>6, <1>7, <2>2 DEF Inv, OwnerIsLogged, Live, LoggedOwner
  <2> QED BY <2>1, <2>2
<1>10. \A u : \A c \in Customers : OnRecord(c, u) => OnRecord(c, u)'
  <2> SUFFICES ASSUME NEW u, NEW c \in Customers, u # NoUser,
                      NEW j \in 1..Len(assignmentLogs[c]), assignmentLogs[c][j].to = u
               PROVE  \E i \in 1..Len(assignmentLogs'[c]) : assignmentLogs'[c][i].to = u
    BY DEF OnRecord
  <2>1. j \in 1..Len(assignmentLogs'[c]) /\ assignmentLogs'[c][j] = assignmentLogs[c][j]
    BY <1>7
  <2> QED BY <2>1
<1>11. SeenOnRecord'
  BY <1>1, <1>4, <1>10, RequestTypes DEF Inv, SeenOnRecord
<1>12. FromUserWasOwner'
  <2> SUFFICES ASSUME NEW c \in Customers, NEW i \in 1..Len(assignmentLogs'[c]),
                      assignmentLogs'[c][i].from # NoUser
               PROVE  \E j \in 1..(i - 1) : assignmentLogs'[c][j].to = assignmentLogs'[c][i].from
    BY DEF FromUserWasOwner
  <2>1. CASE c \notin ids
    BY <1>7, <2>1 DEF Inv, FromUserWasOwner
  <2>2. CASE c \in ids /\ i = Len(assignmentLogs'[c])
    <3>1. assignmentLogs'[c][i].from = seen[o][c]
      BY <1>5, <1>7, <2>2
    <3>2. OnRecord(c, seen[o][c])
      BY <2>2 DEF Inv, SeenOnRecord, ids
    <3>3. PICK j \in 1..Len(assignmentLogs[c]) : assignmentLogs[c][j].to = seen[o][c]
      BY <3>1, <3>2 DEF OnRecord
    <3>4. j \in 1..(i - 1) /\ assignmentLogs'[c][j] = assignmentLogs[c][j]
      BY <1>7, <2>2
    <3> QED BY <3>1, <3>3, <3>4
  <2>3. CASE c \in ids /\ i # Len(assignmentLogs'[c])
    <3>1. i \in 1..Len(assignmentLogs[c]) /\ assignmentLogs'[c][i] = assignmentLogs[c][i]
      BY <1>7, <2>3
    <3>2. PICK j \in 1..(i - 1) : assignmentLogs[c][j].to = assignmentLogs[c][i].from
      BY <3>1 DEF Inv, FromUserWasOwner
    <3>3. assignmentLogs'[c][j] = assignmentLogs[c][j]
      BY <1>7, <2>3, <3>1, <3>2
    <3> QED BY <3>1, <3>2, <3>3
  <2> QED BY <2>1, <2>2, <2>3
<1> QED BY <1>8, <1>9, <1>11, <1>12 DEF Inv

(* The other writes leave owners and log alone; a deletion only takes rows *)
(* out of what OwnerIsLogged speaks of.                                    *)
LEMMA PatchInv ==
  ASSUME Inv, NEW o \in Operations, NEW ids, NEW r \in Result,
         customers' = PatchRows(customers, ids, request[o].patch), Settle(o, r),
         UNCHANGED <<deletedBy, assignmentLogs, users>>
  PROVE  Inv'
<1>1. TypeOK /\ request[o].patch \in Patch
  BY RequestTypes DEF Inv, Typed, DeskRequest
<1>2. Moves(o, "done") /\ seen' = seen
  BY <1>1, SettleMoves
<1>3. customers' \in [Customers -> CustomerRow] /\ Inert
  <2>1. customers \in [Customers -> CustomerRow]
    BY <1>1, CustomersTyped
  <2> QED BY <1>1, <1>2, <2>1, PatchTable DEF Inert
<1>4. Typed'
  BY <1>1, <1>2, <1>3, TypedStep DEF Inv, TypeOK, Labels
<1> QED BY <1>3, <1>4, InertInv

LEMMA WritePatchInv ==
  ASSUME Inv, NEW o \in Operations, WritePatch(o)
  PROVE  Inv'
<1> DEFINE ids == {c \in Found(o) : Live(c)}
<1>1. (IF ids = {} THEN Refused(404) ELSE Done(1)) \in Result
  BY DEF Refused, Done, Result
<1> QED BY <1>1, PatchInv DEF WritePatch

LEMMA WriteBatchPatchInv ==
  ASSUME Inv, NEW o \in Operations, WriteBatchPatch(o)
  PROVE  Inv'
<1>1. IsFiniteSet(Found(o))
  BY RequestTypes DEF Inv, Typed
<1>2. Done(Cardinality(Found(o))) \in Result
  BY <1>1, FS_CardinalityType DEF Done, Result
<1> QED BY <1>2, PatchInv DEF WriteBatchPatch

LEMMA WriteDeleteInv ==
  ASSUME Inv, NEW o \in Operations, WriteDelete(o)
  PROVE  Inv'
<1>1. PICK d \in Found(o) : /\ customers' = MarkDeleted(customers, d)
                            /\ deletedBy' = [deletedBy EXCEPT ![d] = o]
  BY DEF WriteDelete
<1>2. TypeOK /\ d \in Customers
  BY RequestTypes DEF Inv, Typed
<1>3. /\ customers' \in [Customers -> CustomerRow]
      /\ \A c \in Customers :
           /\ customers'[c].isDeleted = IF c = d THEN 1 ELSE customers[c].isDeleted
           /\ customers'[c].owner = customers[c].owner
  <2>1. customers \in [Customers -> CustomerRow]
    BY <1>2, CustomersTyped
  <2> QED BY <1>1, <1>2, <2>1, MarkDeletedTable
<1>4. Moves(o, "done") /\ seen' = seen /\ assignmentLogs' = assignmentLogs /\ users' = users
  <2>1. Done(1) \in Result
    BY DEF Done, Result
  <2> QED BY <1>2, <2>1, SettleMoves DEF WriteDelete
<1>5. deletedBy' \in [Customers -> Operations \cup {NoOperation}]
  BY <1>1, <1>2 DEF TypeOK
<1>6. Typed'
  BY <1>2, <1>3, <1>4, <1>5, TypedStep DEF Inv, TypeOK, Labels
<1>7. OwnerIsLogged'
  BY <1>3, <1>4 DEF Inv, OwnerIsLogged, LoggedOwner, Live
<1>8. FromUserWasOwner' /\ SeenOnRecord'
  BY <1>4 DEF Inv, FromUserWasOwner, SeenOnRecord, OnRecord
<1> QED BY <1>6, <1>7, <1>8 DEF Inv

LEMMA OtherReadsInv ==
  ASSUME Inv, NEW o \in Operations, ReadExisting(o) \/ ReadDeleteState(o) \/ ReadActive(o)
  PROVE  Inv'
<1>1. CASE \E code \in {400, 404} : Refuse(o, code)
  BY <1>1, RefuseInv
<1>2. CASE \E label \in {"patch", "delete", "batch"} : Await(o, label) /\ UNCHANGED seen
  <2>1. request[o].operator \in Users
    BY DEF ReadExisting, ReadDeleteState, ReadActive, Inv, Typed, PastChecks
  <2> QED BY <1>2, <2>1, AwaitInv DEF Labels
<1>3. CASE Answer(o, Done(1)) /\ UNCHANGED tableVars
  <2>1. Done(1) \in Result
    BY DEF Done, Result
  <2> QED BY <1>3, <2>1, AnswerInv
<1> QED BY <1>1, <1>2, <1>3 DEF ReadExisting, ReadDeleteState, ReadActive

LEMMA EnvironmentInv == Inv /\ Environment => Inv'
<1> SUFFICES ASSUME Inv, Environment PROVE Inv'
  OBVIOUS
<1>1. ASSUME NEW c \in Customers, NEW p \in Outcomes, CallRecorded(c, p) PROVE Inv'
  <2>1. /\ customers' = PatchRows(customers, {c}, p) /\ p \in Patch
        /\ UNCHANGED <<deletedBy, assignmentLogs, users, stage, request, seen, result>>
    BY <1>1, DeskAssumption DEF CallRecorded, deskVars
  <2>2. customers' \in [Customers -> CustomerRow] /\ Inert
    <3>1. customers \in [Customers -> CustomerRow]
      BY CustomersTyped DEF Inv, Typed
    <3> QED BY <2>1, <3>1, PatchTable DEF Inert
  <2>3. Typed'
    BY <2>1, <2>2 DEF Inv, Typed, TypeOK, PastChecks, Found
  <2> QED BY <2>2, <2>3, InertInv
<1>2. ASSUME NEW u \in Users, NEW row \in UserRows, UserChanged(u, row) PROVE Inv'
  <2>1. /\ users' = [users EXCEPT ![u] = row] /\ row \in UserRow
        /\ UNCHANGED <<customers, deletedBy, assignmentLogs, stage, request, seen, result>>
    BY <1>2, DeskAssumption DEF UserChanged, deskVars
  <2>2. Typed'
    BY <2>1 DEF Inv, Typed, TypeOK, PastChecks, Found
  <2> QED BY <2>1, <2>2, InertInv DEF Inert
<1> QED BY <1>1, <1>2 DEF Environment

-----------------------------------------------------------------------------
LEMMA InitInv == Init => Inv
<1> SUFFICES ASSUME Init PROVE Inv
  OBVIOUS
<1> USE DEF Init
<1>1. TypeOK
  <2>1. ImportedRow \in CustomerRow
    BY DEF ImportedRow, CustomerRow, Types
  <2>2. Nothing \in Seen
    <3>1. Nothing \in [{} -> Users \cup {NoUser}]
      BY DEF Nothing
    <3> QED BY <3>1 DEF Seen
  <2>3. NoResult \in Result
    BY DEF NoResult, Result
  <2>4. users \in [Users -> UserRow]
    BY DeskAssumption
  <2> QED BY <2>1, <2>2, <2>3, <2>4 DEF TypeOK, Seen, Result
<1>2. \A o \in Operations : DOMAIN seen[o] = {}
  BY DEF Nothing
<1>3. Typed
  BY <1>1, <1>2 DEF Typed, PastChecks
<1>4. OwnerIsLogged /\ FromUserWasOwner
  BY DEF OwnerIsLogged, LoggedOwner, ImportedRow, FromUserWasOwner
<1> QED BY <1>2, <1>3, <1>4 DEF Inv, SeenOnRecord

LEMMA NextInv == Inv /\ [Next]_vars => Inv'
<1> SUFFICES ASSUME Inv, [Next]_vars PROVE Inv'
  OBVIOUS
<1>1. ASSUME NEW o \in Operations, Handle(o) PROVE Inv'
  <2>1. CASE Fail(o)
    BY <2>1, RefuseInv DEF Fail
  <2> QED BY <1>1, <2>1, AuthenticateInv, ReadTargetInv, ReadCustomersInv, WriteAssignmentInv,
             WritePatchInv, WriteDeleteInv, WriteBatchPatchInv, OtherReadsInv DEF Handle
<1>2. CASE UNCHANGED vars
  <2>1. UNCHANGED <<customers, deletedBy, assignmentLogs, users, stage, request, seen, result>>
    BY <1>2 DEF vars, tableVars, deskVars
  <2>2. Typed'
    BY <2>1 DEF Inv, Typed, TypeOK, PastChecks, Found
  <2> QED BY <2>1, <2>2, InertInv DEF Inert
<1> QED BY <1>1, <1>2, EnvironmentInv DEF Next

LEMMA Invariance == Spec => []Inv
BY InitInv, NextInv, PTL DEF Spec

(* The tables, handlers and answers of the desk keep their types.          *)
THEOREM TypesHold == Spec => []TypeOK
<1>1. Inv => TypeOK
  BY DEF Inv, Typed
<1> QED BY <1>1, Invariance, PTL

(* No owner of a live customer changes without a row of assignment_logs.   *)
THEOREM OwnersAreLogged == Spec => []OwnerIsLogged
<1>1. Inv => OwnerIsLogged
  BY DEF Inv
<1> QED BY <1>1, Invariance, PTL

(* The previous owner in a log row is nobody or the target of an earlier   *)
(* row of the same customer, however stale it was when it was written.     *)
THEOREM FromUsersWereOwners == Spec => []FromUserWasOwner
<1>1. Inv => FromUserWasOwner
  BY DEF Inv
<1> QED BY <1>1, Invariance, PTL

-----------------------------------------------------------------------------
(* The rows of one assignment                                              *)

(* Which handlers await a label.                                           *)
KindAt(o, label) ==
  /\ label \in {"target", "customers", "assign"} => request[o].kind = "assign"
  /\ label \in {"existing", "patch", "state", "delete", "active", "batch"} =>
       request[o].kind # "assign"

Counted ==
  \A o \in Operations :
    /\ KindAt(o, stage[o])
    /\ stage[o] # "done" => RowsLoggedBy(o) = {} /\ result[o] = NoResult
    /\ request[o].kind = "assign" /\ result[o].status # 500 =>
         Cardinality(RowsLoggedBy(o)) = result[o].count

LEMMA RowsLogged ==
  ASSUME NEW o
  PROVE  \A row : row \in RowsLoggedBy(o) <=>
           \E c \in Customers : \E i \in 1..Len(assignmentLogs[c]) :
             row = <<c, i>> /\ assignmentLogs[c][i].operation = o
BY DEF RowsLoggedBy

(* A step that logs nothing and answers, if the request is an assignment,  *)
(* with a count of 0.                                                      *)
LEMMA CountedMove ==
  ASSUME Inv, Counted, NEW o \in Operations, stage[o] # "done",
         NEW label \in Labels, NEW r,
         stage' = [stage EXCEPT ![o] = label], result' = [result EXCEPT ![o] = r],
         request' = request, assignmentLogs' = assignmentLogs,
         KindAt(o, label), label # "done" => r = NoResult,
         request[o].kind = "assign" => r.count = 0
  PROVE  Counted'
<1>1. \A q \in Operations : /\ stage'[q] = IF q = o THEN label ELSE stage[q]
                            /\ result'[q] = IF q = o THEN r ELSE result[q]
  BY DEF Inv, Typed, TypeOK
<1>2. \A q : RowsLoggedBy(q)' = RowsLoggedBy(q)
  BY DEF RowsLoggedBy
<1> SUFFICES ASSUME NEW q \in Operations
             PROVE  /\ KindAt(q, stage'[q])
                    /\ stage'[q] # "done" => RowsLoggedBy(q) = {} /\ result'[q] = NoResult
                    /\ request[q].kind = "assign" /\ result'[q].status # 500 =>
                         Cardinality(RowsLoggedBy(q)) = result'[q].count
  BY <1>2 DEF Counted, KindAt
<1>3. CASE q = o
  <2>1. RowsLoggedBy(o) = {} /\ Cardinality({}) = 0
    BY FS_EmptySet DEF Counted
  <2> QED BY <1>1, <1>3, <2>1
<1>4. CASE q # o
  BY <1>1, <1>4 DEF Counted
<1> QED BY <1>3, <1>4

LEMMA CountedAnswer ==
  ASSUME Inv, Counted, NEW o \in Operations, stage[o] # "done", NEW r, Answer(o, r),
         assignmentLogs' = assignmentLogs, request[o].kind = "assign" => r.count = 0
  PROVE  Counted'
BY CountedMove DEF Answer, Labels, KindAt

LEMMA CountedRefuse ==
  ASSUME Inv, Counted, NEW o \in Operations, stage[o] # "done", NEW code, Refuse(o, code)
  PROVE  Counted'
BY CountedAnswer DEF Refuse, Refused, tableVars

LEMMA CountedSettle ==
  ASSUME Inv, Counted, NEW o \in Operations, stage[o] # "done", NEW r, Settle(o, r),
         assignmentLogs' = assignmentLogs, request[o].kind # "assign"
  PROVE  Counted'
BY CountedAnswer DEF Settle

LEMMA CountedAwait ==
  ASSUME Inv, Counted, NEW o \in Operations, stage[o] # "done", NEW label \in Labels,
         Await(o, label), label # "done", KindAt(o, label)
  PROVE  Counted'
<1>1. /\ stage' = [stage EXCEPT ![o] = label] /\ request' = request
      /\ assignmentLogs' = assignmentLogs /\ result' = result
  BY DEF Await, tableVars
<1>2. result' = [result EXCEPT ![o] = NoResult] /\ NoResult.count = 0
  BY <1>1 DEF Counted, Inv, Typed, TypeOK, NoResult
<1> QED BY <1>1, <1>2, CountedMove

(* The rows an assignment logs are the last ones of the customers it has   *)
(* read, one each.                                                         *)
LEMMA CountedAssignment ==
  ASSUME Inv, Counted, NEW o \in Operations, WriteAssignment(o)
  PROVE  Counted'
<1> DEFINE ids == DOMAIN seen[o]
<1>1. /\ stage[o] = "assign" /\ Settle(o, Done(Cardinality(ids)))
      /\ RowsLoggedBy(o) = {} /\ IsFiniteSet(ids)
  BY RequestTypes, FS_Subset DEF WriteAssignment, Counted, Inv, Typed, PastChecks
<1>2. /\ request' = request
      /\ \A q \in Operations : stage'[q] = IF q = o THEN "done" ELSE stage[q]
      /\ \A q \in Operations : q # o => result'[q] = result[q]
      /\ result'[o].status # 500 => result'[o].count = Cardinality(ids)
  BY <1>1 DEF Settle, Answer, Done, Refused, Inv, Typed, TypeOK
<1>3. /\ \A c \in Customers : c \notin ids => assignmentLogs'[c] = assignmentLogs[c]
      /\ \A c \in ids :
           /\ c \in Customers
           /\ Len(assignmentLogs'[c]) = Len(assignmentLogs[c]) + 1
           /\ Len(assignmentLogs[c]) \in Nat
           /\ assignmentLogs'[c][Len(assignmentLogs[c]) + 1].operation = o
           /\ \A i \in 1..Len(assignmentLogs[c]) : assignmentLogs'[c][i] = assignmentLogs[c][i]
  <2> HIDE DEF ids
  <2>1. /\ \A c \in Customers : c \notin ids => assignmentLogs'[c] = assignmentLogs[c]
        /\ \A c \in ids :
             /\ c \in Customers
             /\ Len(assignmentLogs'[c]) = Len(assignmentLogs[c]) + 1
             /\ Len(assignmentLogs[c]) \in Nat
             /\ assignmentLogs'[c][Len(assignmentLogs'[c])] = LogRow(o, c)
             /\ \A i \in 1..Len(assignmentLogs[c]) : assignmentLogs'[c][i] = assignmentLogs[c][i]
    BY LogsExtended DEF ids
  <2>2. \A c : LogRow(o, c).operation = o
    BY DEF LogRow
  <2> QED BY <2>1, <2>2
<1> HIDE DEF ids
<1>4. ASSUME NEW q \in Operations, q # o PROVE RowsLoggedBy(q)' = RowsLoggedBy(q)
  <2>1. ASSUME NEW c \in Customers, NEW i
        PROVE  (i \in 1..Len(assignmentLogs[c]) /\ assignmentLogs[c][i].operation = q)
               <=> (i \in 1..Len(assignmentLogs'[c]) /\ assignmentLogs'[c][i].operation = q)
    <3>1. CASE c \notin ids
      BY <1>3, <3>1
    <3>2. CASE c \in ids /\ i = Len(assignmentLogs[c]) + 1
      BY <1>3, <1>4, <3>2
    <3>3. CASE c \in ids /\ i # Len(assignmentLogs[c]) + 1
      <4>1. i \in 1..Len(assignmentLogs[c]) <=> i \in 1..Len(assignmentLogs'[c])
        BY <1>3, <3>3
      <4> QED BY <1>3, <3>3, <4>1
    <3> QED BY <3>1, <3>2, <3>3
  <2>2. \A row : row \in RowsLoggedBy(q)' <=>
           \E c \in Customers : \E i \in 1..Len(assignmentLogs'[c]) :
             row = <<c, i>> /\ assignmentLogs'[c][i].operation = q
    BY DEF RowsLoggedBy
  <2>3. \A row : row \in RowsLoggedBy(q) <=> row \in RowsLoggedBy(q)'
    BY <2>1, <2>2, RowsLogged
  <2>4. \A S, T : (\A row : row \in S <=> row \in T) => S = T
    OBVIOUS
  <2> QED BY <2>3, <2>4
<1>5. Cardinality(RowsLoggedBy(o)') = Cardinality(ids)
  <2> DEFINE f == [c \in ids |-> <<c, Len(assignmentLogs[c]) + 1>>]
  <2>1. ASSUME NEW c \in Customers, NEW i \in 1..Len(assignmentLogs'[c])
        PROVE  assignmentLogs'[c][i].operation = o <=>
                 c \in ids /\ i = Len(assignmentLogs[c]) + 1
    <3>1. \A j \in 1..Len(assignmentLogs[c]) : assignmentLogs[c][j].operation # o
      <4>1. ASSUME NEW j \in 1..Len(assignmentLogs[c]), assignmentLogs[c][j].operation = o
            PROVE  <<c, j>> \in RowsLoggedBy(o)
        BY <4>1, RowsLogged
      <4> QED BY <1>1, <4>1
    <3>2. CASE c \notin ids
      BY <1>3, <3>1, <3>2
    <3>3. CASE c \in ids /\ i = Len(assignmentLogs[c]) + 1
      BY <1>3, <3>3
    <3>4. CASE c \in ids /\ i # Len(assignmentLogs[c]) + 1
      <4>1. i \in 1..Len(assignmentLogs[c])
        BY <1>3, <3>4
      <4> QED BY <1>3, <3>1, <3>4, <4>1
    <3> QED BY <3>2, <3>3, <3>4
  <2>2. \A row : row \in RowsLoggedBy(o)' <=>
           \E c \in Customers : \E i \in 1..Len(assignmentLogs'[c]) :
             row = <<c, i>> /\ assignmentLogs'[c][i].operation = o
    BY DEF RowsLoggedBy
  <2>3. \A row : row \in RowsLoggedBy(o)' <=>
           \E c \in ids : row = <<c, Len(assignmentLogs[c]) + 1>>
    <3>1. ASSUME NEW row \in RowsLoggedBy(o)'
          PROVE  \E c \in ids : row = <<c, Len(assignmentLogs[c]) + 1>>
      BY <2>1, <2>2
    <3>2. ASSUME NEW c \in ids
          PROVE  <<c, Len(assignmentLogs[c]) + 1>> \in RowsLoggedBy(o)'
      <4>1. c \in Customers /\ Len(assignmentLogs[c]) + 1 \in 1..Len(assignmentLogs'[c])
        BY <1>3
      <4> QED BY <1>3, <2>2, <4>1
    <3> QED BY <3>1, <3>2
  <2> DEFINE T == RowsLoggedBy(o)'
  <2>4. f \in Bijection(ids, T)
    <3>1. f \in [ids -> T]
      BY <2>3
    <3>2. \A c, d \in ids : f[c] = f[d] => c = d
      OBVIOUS
    <3>3. \A row \in T : \E c \in ids : f[c] = row
      BY <2>3
    <3> HIDE DEF f, T
    <3> QED BY <3>1, <3>2, <3>3 DEF Bijection, Injection, Surjection, IsInjective
  <2> HIDE DEF f, T
  <2>5. ExistsBijection(ids, T)
    BY <2>4 DEF ExistsBijection
  <2>6. Cardinality(T) = Cardinality(ids)
    BY <1>1, <2>5, FS_Bijection
  <2> QED BY <2>6 DEF T
<1> SUFFICES ASSUME NEW q \in Operations
             PROVE  /\ KindAt(q, stage'[q])
                    /\ stage'[q] # "done" => RowsLoggedBy(q)' = {} /\ result'[q] = NoResult
                    /\ request[q].kind = "assign" /\ result'[q].status # 500 =>
                         Cardinality(RowsLoggedBy(q)') = result'[q].count
  BY <1>2 DEF Counted, KindAt
<1>6. CASE q = o
  BY <1>2, <1>5, <1>6 DEF KindAt
<1>7. CASE q # o
  BY <1>2, <1>4, <1>7 DEF Counted
<1> QED BY <1>6, <1>7

LEMMA CountedHandle ==
  ASSUME Inv, Counted, NEW o \in Operations, Handle(o)
  PROVE  Counted'
<1>1. CASE Authenticate(o)
  <2>1. CASE \E code \in {400, 401, 403} : Refuse(o, code)
    BY <1>1, <2>1, CountedRefuse DEF Authenticate
  <2>2. CASE Await(o, FirstRead(request[o]))
    <3>1. request[o] \in DeskRequest
      BY RequestTypes DEF Inv, Typed
    <3>2. /\ FirstRead(request[o]) \in Labels \ {"done"}
          /\ KindAt(o, FirstRead(request[o]))
      BY <3>1 DEF FirstRead, Labels, DeskRequest, KindAt
    <3> QED BY <1>1, <2>2, <3>2, CountedAwait DEF Authenticate
  <2> QED BY <1>1, <2>1, <2>2 DEF Authenticate
<1>2. CASE ReadTarget(o) \/ ReadCustomers(o)
  <2>1. stage[o] \in {"target", "customers"} /\ request[o].kind = "assign"
    BY <1>2 DEF ReadTarget, ReadCustomers, Counted, KindAt
  <2>2. CASE \E code \in {400, 404} : Refuse(o, code)
    BY <2>1, <2>2, CountedRefuse
  <2>3. CASE \E label \in {"customers", "assign"} : Await(o, label)
    BY <2>1, <2>3, CountedAwait DEF Labels, KindAt
  <2>4. CASE Answer(o, Done(0)) /\ UNCHANGED tableVars
    BY <2>1, <2>4, CountedAnswer DEF Done, tableVars
  <2> QED BY <1>2, <2>2, <2>3, <2>4 DEF ReadTarget, ReadCustomers
<1>3. CASE ReadExisting(o) \/ ReadDeleteState(o) \/ ReadActive(o)
  <2>1. stage[o] \in {"existing", "state", "active"} /\ request[o].kind # "assign"
    BY <1>3 DEF ReadExisting, ReadDeleteState, ReadActive, Counted, KindAt
  <2>2. CASE \E code \in {400, 404} : Refuse(o, code)
    BY <2>1, <2>2, CountedRefuse
  <2>3. CASE \E label \in {"patch", "delete", "batch"} : Await(o, label)
    BY <2>1, <2>3, CountedAwait DEF Labels, KindAt
  <2>4. CASE Answer(o, Done(1)) /\ UNCHANGED tableVars
    BY <2>1, <2>4, CountedAnswer DEF tableVars
  <2> QED BY <1>3, <2>2, <2>3, <2>4 DEF ReadExisting, ReadDeleteState, ReadActive
<1>4. CASE WritePatch(o) \/ WriteBatchPatch(o) \/ WriteDelete(o)
  <2>1. stage[o] \in {"patch", "batch", "delete"} /\ request[o].kind # "assign"
    BY <1>4 DEF WritePatch, WriteBatchPatch, WriteDelete, Counted, KindAt
  <2>2. assignmentLogs' = assignmentLogs /\ \E r : Settle(o, r)
    BY <1>4 DEF WritePatch, WriteBatchPatch, WriteDelete
  <2> QED BY <2>1, <2>2, CountedSettle
<1>5. CASE Fail(o)
  BY <1>5, CountedRefuse DEF Fail
<1> QED BY <1>1, <1>2, <1>3, <1>4, <1>5, CountedAssignment DEF Handle

LEMMA CountedNext == Inv /\ Counted /\ [Next]_vars => Counted'
<1> SUFFICES ASSUME Inv, Counted, [Next]_vars PROVE Counted'
  OBVIOUS
<1>1. CASE Environment \/ UNCHANGED vars
  <2>1. /\ stage' = stage /\ result' = result /\ request' = request
        /\ assignmentLogs' = assignmentLogs
    BY <1>1 DEF Environment, CallRecorded, UserChanged, vars, tableVars, deskVars
  <2>2. \A q : RowsLoggedBy(q)' = RowsLoggedBy(q)
    BY <2>1 DEF RowsLoggedBy
  <2> QED BY <2>1, <2>2 DEF Counted, KindAt
<1> QED BY <1>1, CountedHandle DEF Next

LEMMA CountedInit == Init => Counted
<1> SUFFICES ASSUME Init PROVE Counted
  OBVIOUS
<1>1. \A o \in Operations : RowsLoggedBy(o) = {}
  <2>1. \A c \in Customers : Len(assignmentLogs[c]) = 0
    BY DEF Init
  <2> QED BY <2>1 DEF RowsLoggedBy
<1> QED BY <1>1, FS_EmptySet DEF Init, Counted, KindAt, NoResult

(* The count an assignment answers is the number of rows it has logged.    *)
THEOREM CountsAreLogged == Spec => []CountIsLogged
<1>1. Counted => CountIsLogged
  BY DEF Counted, CountIsLogged
<1>2. Spec => []Counted
  BY CountedInit, CountedNext, Invariance, PTL DEF Spec
<1> QED BY <1>1, <1>2, PTL

-----------------------------------------------------------------------------
(* Deletion                                                                *)

StaysDeleted ==
  \A c \in Customers : ~Live(c) =>
    customers'[c].isDeleted = 1 /\ customers'[c].owner = customers[c].owner

LEMMA StepKeepsDeleted ==
  ASSUME Inv, Next
  PROVE  StaysDeleted
<1>0. /\ TypeOK /\ customers \in [Customers -> CustomerRow]
      /\ \A c \in Customers : ~Live(c) => customers[c].isDeleted = 1
  BY CustomersTyped DEF Inv, Typed, Live, CustomerRow
<1>1. CASE customers' = customers
  BY <1>0, <1>1 DEF StaysDeleted
<1>2. ASSUME NEW p \in Patch, NEW ids, customers' = PatchRows(customers, ids, p)
      PROVE  StaysDeleted
  BY <1>0, <1>2, PatchTable DEF StaysDeleted
<1>3. ASSUME NEW o \in Operations, WriteAssignment(o) PROVE StaysDeleted
  <2>1. request[o].target \in Users \cup {NoUser}
    BY <1>3 DEF WriteAssignment, Inv, Typed, PastChecks
  <2>2. customers' = SetOwner(customers, DOMAIN seen[o], request[o].target)
    BY <1>3 DEF WriteAssignment
  <2> QED BY <1>0, <2>1, <2>2, SetOwnerTable DEF StaysDeleted
<1>4. ASSUME NEW o \in Operations, WriteDelete(o) PROVE StaysDeleted
  <2>1. PICK d \in Found(o) : customers' = MarkDeleted(customers, d)
    BY <1>4 DEF WriteDelete
  <2>2. d \in Customers
    BY <1>0, <2>1, RequestTypes
  <2> QED BY <1>0, <2>1, <2>2, MarkDeletedTable DEF StaysDeleted
<1>5. ASSUME NEW o \in Operations, WritePatch(o) \/ WriteBatchPatch(o) PROVE StaysDeleted
  <2>1. request[o].patch \in Patch
    BY <1>0, RequestTypes DEF DeskRequest
  <2> QED BY <1>2, <1>5, <2>1 DEF WritePatch, WriteBatchPatch
<1>6. ASSUME NEW o \in Operations,
             Authenticate(o) \/ ReadTarget(o) \/ ReadCustomers(o) \/ ReadExisting(o)
             \/ ReadDeleteState(o) \/ ReadActive(o) \/ Fail(o)
      PROVE  customers' = customers
  BY <1>6 DEF Authenticate, ReadTarget, ReadCustomers, ReadExisting, ReadDeleteState,
              ReadActive, Fail, Refuse, Await, tableVars
<1>7. CASE Environment
  BY <1>1, <1>2, <1>7, DeskAssumption DEF Environment, CallRecorded, UserChanged
<1> QED BY <1>1, <1>3, <1>4, <1>5, <1>6, <1>7 DEF Next, Handle

(* A deleted customer stays deleted and keeps its owner, whatever was read *)
(* before the deletion and is written after it.                            *)
THEOREM DeletionsAreFinal == Spec => DeletedIsFinal
<1>1. Inv /\ [Next]_vars => [StaysDeleted]_vars
  BY StepKeepsDeleted
<1>2. [][StaysDeleted]_vars => DeletedIsFinal
  BY PTL DEF DeletedIsFinal, StaysDeleted
<1> QED BY <1>1, <1>2, Invariance, PTL DEF Spec
=============================================================================
