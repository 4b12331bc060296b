---------------------------- MODULE CustomerDesk ----------------------------
(***************************************************************************)
(* The managers' requests on customer leads: POST /customers/assign,       *)
(* PATCH and DELETE /customers/:id, POST /customers/batch-update.          *)
(*                                                                         *)
(* Every handler reads first (its own user, the target user, the           *)
(* customers) and decides on what it read; the statement that writes is    *)
(* sent later, and other requests run in between.  What the rest of the    *)
(* system does to the two tables it shares, customers and users, is the    *)
(* Environment.                                                            *)
(***************************************************************************)
EXTENDS CustomerTable, FiniteSets, Sequences

CONSTANTS
  CustomerIds,  \* the customer ids a request may name
  UserIds,      \* the user ids a request may name
  Operations,   \* requests, each handled once
  Requests,     \* the bodies the console sends, with who sends them
  UserRows,     \* what the user administration makes of a user
  Outcomes,     \* what call reports write to a customer
  MaxAssign,    \* MAX_ASSIGN_CUSTOMERS
  MaxBatch      \* the limit of batch-update

UserRow == [role : 1..3, status : 0..1]

DeskRequest ==
  [kind : {"assign", "patch", "delete", "batch"}, operator : UserIds,
   wellFormed : BOOLEAN,         \* the controller's checks of names and types
   ids : SUBSET CustomerIds,     \* finite; without repetitions
   length : Nat,                 \* of the array of ids, repetitions included
   target : UserIds \cup {NoUser}, patch : Patch]

AssignmentLog ==
  [operation : Operations, from : Users \cup {NoUser}, to : Users \cup {NoUser},
   operator : Users, action : 1..3]

ASSUME DeskAssumption ==
  /\ Requests \subseteq DeskRequest
  /\ \A r \in Requests : IsFiniteSet(r.ids)
  /\ Customers \subseteq CustomerIds
  /\ Users \subseteq UserIds /\ NoUser \notin UserIds
  /\ UserRows \subseteq UserRow
  /\ Outcomes \subseteq Patch
  /\ MaxAssign \in Nat /\ MaxBatch \in Nat

VARIABLES
  customers,       \* the customers table, by id
  deletedBy,       \* its columns deleted_by, deleted_at, delete_reason: the
                   \* operation that filled them
  assignmentLogs,  \* the rows of assignment_logs of a customer, by id
  users,           \* role and status of the users table
  stage,           \* what the handler of an operation awaits next
  request,         \* the request the operation comes with
  seen,            \* the customers an assignment has read, with their owners
  result           \* the answer to the operation

tableVars == <<customers, deletedBy, assignmentLogs, users>>
deskVars == <<stage, request, seen, result>>
vars == <<tableVars, deskVars>>

-----------------------------------------------------------------------------
NoOperation == "none"
NoResult == [status |-> 0, count |-> 0]
Refused(code) == [status |-> code, count |-> 0]
Done(n) == [status |-> 200, count |-> n]

Nothing == [c \in {} |-> NoUser]

Live(c) == customers[c].isDeleted = 0
Found(o) == request[o].ids \cap Customers

(* resolveAssignmentAction: 3 reclaim, 1 assign, 2 transfer *)
AssignmentAction(from, to) ==
  IF to = NoUser THEN 3 ELSE IF from = NoUser THEN 1 ELSE 2

(* What the controller and the service refuse before they read anything.   *)
ValidRequest(r) ==
  /\ r.wellFormed
  /\ r.kind = "assign" => r.length \in 1..MaxAssign
  /\ r.kind = "batch" => r.length \in 1..MaxBatch

FirstRead(r) ==
  CASE r.kind = "assign" -> IF r.target = NoUser THEN "customers" ELSE "target"
    [] r.kind = "patch" -> "existing"
    [] r.kind = "delete" -> "state"
    [] r.kind = "batch" -> "active"

Init ==
  /\ customers = [c \in Customers |-> ImportedRow]
  /\ deletedBy = [c \in Customers |-> NoOperation]
  /\ assignmentLogs = [c \in Customers |-> <<>>]
  /\ users \in [Users -> UserRows]
  /\ stage = [o \in Operations |-> "idle"]
  /\ request \in [Operations -> Requests]
  /\ seen = [o \in Operations |-> Nothing]
  /\ result = [o \in Operations |-> NoResult]

-----------------------------------------------------------------------------
(* The handler of operation o *)

Answer(o, r) ==
  /\ stage' = [stage EXCEPT ![o] = "done"]
  /\ result' = [result EXCEPT ![o] = r]
  /\ UNCHANGED <<request, seen>>

(* A write's answer, or 500 when it committed and the news of it is lost.  *)
Settle(o, r) == Answer(o, r) \/ Answer(o, Refused(500))

Refuse(o, code) == Answer(o, Refused(code)) /\ UNCHANGED tableVars

Await(o, label) ==
  /\ stage' = [stage EXCEPT ![o] = label]
  /\ UNCHANGED <<tableVars, request, result>>

(* requireAuth reads the caller's row, requireRoles([1, 2]) looks at it    *)
(* and nobody reads it again; then the controller checks the body.         *)
Authenticate(o) ==
  /\ stage[o] = "idle"
  /\ LET r == request[o]
         active == r.operator \in Users /\ users[r.operator].status = 1
     IN \/ ~active /\ Refuse(o, 401)
        \/ active /\ users[r.operator].role = 3 /\ Refuse(o, 403)
        \/ /\ active /\ users[r.operator].role # 3
           /\ IF ValidRequest(r)
              THEN Await(o, FirstRead(r)) /\ UNCHANGED seen
              ELSE Refuse(o, 400)

(* Mutant: a target that does not exist passes.                            *)
ReadTargetIfAny(o) ==
  /\ stage[o] = "target"
  /\ LET u == request[o].target IN
     IF u \in Users /\ users[u].status # 1 THEN Refuse(o, 400)
     ELSE Await(o, "customers") /\ UNCHANGED seen

(* assign: the target must exist, be active and be a manager or an agent.  *)
ReadTarget(o) ==
  /\ stage[o] = "target"
  /\ LET u == request[o].target IN
     \/ u \notin Users /\ Refuse(o, 404)
     \/ u \in Users /\ users[u].status # 1 /\ Refuse(o, 400)
     \/ u \in Users /\ users[u].status = 1 /\ users[u].role \notin {2, 3} /\ Refuse(o, 400)
     \/ /\ u \in Users /\ users[u].status = 1 /\ users[u].role \in {2, 3}
        /\ Await(o, "customers")
        /\ UNCHANGED seen

(* assign: ids that are no customer drop out; one deleted row refuses all. *)
ReadCustomers(o) ==
  /\ stage[o] = "customers"
  /\ \/ Found(o) = {} /\ Answer(o, Done(0)) /\ UNCHANGED tableVars
     \/ (\E c \in Found(o) : ~Live(c)) /\ Refuse(o, 400)
     \/ /\ Found(o) # {} /\ \A c \in Found(o) : Live(c)
        /\ Await(o, "assign")
        /\ seen' = [seen EXCEPT ![o] = [c \in Found(o) |-> customers[c].owner]]

(* Mutant: the log names the new owner as the old one.                     *)
LogRowFromTarget(o, c) ==
  [operation |-> o, from |-> request[o].target, to |-> request[o].target,
   operator |-> request[o].operator,
   action |-> AssignmentAction(seen[o][c], request[o].target)]

LogRow(o, c) ==
  [operation |-> o, from |-> seen[o][c], to |-> request[o].target,
   operator |-> request[o].operator,
   action |-> AssignmentAction(seen[o][c], request[o].target)]

(* Mutant: the owners and the log are two statements, and the Worker is    *)
(* cut off between them.                                                   *)
WriteOwnersOnly(o) ==
  /\ stage[o] = "assign"
  /\ customers' = SetOwner(customers, DOMAIN seen[o], request[o].target)
  /\ Answer(o, Refused(500))
  /\ UNCHANGED <<deletedBy, assignmentLogs, users>>

(* Mutant: the owner is set without is_deleted = 0.                        *)
WriteAssignmentAnyRow(o) ==
  /\ stage[o] = "assign"
  /\ LET ids == DOMAIN seen[o] IN
     /\ customers' = [c \in Customers |->
          IF c \in ids THEN [customers[c] EXCEPT !.owner = request[o].target]
          ELSE customers[c]]
     /\ assignmentLogs' = [c \in Customers |->
          IF c \in ids THEN Append(assignmentLogs[c], LogRow(o, c))
          ELSE assignmentLogs[c]]
     /\ Settle(o, Done(Cardinality(ids)))
  /\ UNCHANGED <<deletedBy, users>>

(* Mutant: the answer counts the ids of the body.                          *)
WriteAssignmentCountingIds(o) ==
  /\ stage[o] = "assign"
  /\ LET ids == DOMAIN seen[o] IN
     /\ customers' = SetOwner(customers, ids, request[o].target)
     /\ assignmentLogs' = [c \in Customers |->
          IF c \in ids THEN Append(assignmentLogs[c], LogRow(o, c))
          ELSE assignmentLogs[c]]
     /\ Settle(o, Done(Cardinality(request[o].ids)))
  /\ UNCHANGED <<deletedBy, users>>

(* One transaction: the owners of the live rows, and a log row for each    *)
(* customer that was read, deleted since or not.                           *)
WriteAssignment(o) ==
  /\ stage[o] = "assign"
  /\ LET ids == DOMAIN seen[o] IN
     /\ customers' = SetOwner(customers, ids, request[o].target)
     /\ assignmentLogs' = [c \in Customers |->
          IF c \in ids THEN Append(assignmentLogs[c], LogRow(o, c))
          ELSE assignmentLogs[c]]
     /\ Settle(o, Done(Cardinality(ids)))
  /\ UNCHANGED <<deletedBy, users>>

(* patch: update ... where id and is_deleted = 0, returning the row *)
ReadExisting(o) ==
  /\ stage[o] = "existing"
  /\ IF \E c \in Found(o) : Live(c)
     THEN Await(o, "patch") /\ UNCHANGED seen
     ELSE Refuse(o, 404)

WritePatch(o) ==
  /\ stage[o] = "patch"
  /\ LET ids == {c \in Found(o) : Live(c)} IN
     /\ customers' = PatchRows(customers, ids, request[o].patch)
     /\ Settle(o, IF ids = {} THEN Refused(404) ELSE Done(1))
  /\ UNCHANGED <<deletedBy, assignmentLogs, users>>

(* delete: a deleted customer is left as it is and answered with ok.       *)
ReadDeleteState(o) ==
  /\ stage[o] = "state"
  /\ \/ Found(o) = {} /\ Refuse(o, 404)
     \/ (\E c \in Found(o) : ~Live(c)) /\ Answer(o, Done(1)) /\ UNCHANGED tableVars
     \/ (\E c \in Found(o) : Live(c)) /\ Await(o, "delete") /\ UNCHANGED seen

(* Mutant: the deletion frees the customer as well.                        *)
WriteDeleteAndFree(o) ==
  /\ stage[o] = "delete"
  /\ \E c \in Found(o) :
       /\ customers' = MarkDeleted(SetOwner(customers, {c}, NoUser), c)
       /\ deletedBy' = [deletedBy EXCEPT ![c] = o]
  /\ Settle(o, Done(1))
  /\ UNCHANGED <<assignmentLogs, users>>

WriteDelete(o) ==
  /\ stage[o] = "delete"
  /\ \E c \in Found(o) :
       /\ customers' = MarkDeleted(customers, c)
       /\ deletedBy' = [deletedBy EXCEPT ![c] = o]
  /\ Settle(o, Done(1))
  /\ UNCHANGED <<assignmentLogs, users>>

(* batch-update: all or nothing, by the rows as they are read now.         *)
ReadActive(o) ==
  /\ stage[o] = "active"
  /\ IF request[o].ids \subseteq Customers /\ \A c \in Found(o) : Live(c)
     THEN Await(o, "batch") /\ UNCHANGED seen
     ELSE Refuse(o, 400)

WriteBatchPatch(o) ==
  /\ stage[o] = "batch"
  /\ customers' = PatchRows(customers, Found(o), request[o].patch)
  /\ Settle(o, Done(Cardinality(Found(o))))
  /\ UNCHANGED <<deletedBy, assignmentLogs, users>>

(* A database call rejects without effect, or the Worker is cut off.       *)
Fail(o) ==
  /\ stage[o] # "done"
  /\ Refuse(o, 500)

Handle(o) ==
  \/ Authenticate(o)
  \/ ReadTarget(o) \/ ReadCustomers(o) \/ WriteAssignment(o)
  \/ ReadExisting(o) \/ WritePatch(o)
  \/ ReadDeleteState(o) \/ WriteDelete(o)
  \/ ReadActive(o) \/ WriteBatchPatch(o)
  \/ Fail(o)

-----------------------------------------------------------------------------
(* The environment *)

CallRecorded(c, outcome) ==
  /\ customers' = PatchRows(customers, {c}, outcome)
  /\ UNCHANGED <<deletedBy, assignmentLogs, users, deskVars>>

UserChanged(u, row) ==
  /\ users' = [users EXCEPT ![u] = row]
  /\ UNCHANGED <<customers, deletedBy, assignmentLogs, deskVars>>

Environment ==
  \/ \E c \in Customers, p \in Outcomes : CallRecorded(c, p)
  \/ \E u \in Users, row \in UserRows : UserChanged(u, row)

Next == (\E o \in Operations : Handle(o)) \/ Environment

Spec == Init /\ [][Next]_vars
-----------------------------------------------------------------------------
(* Properties *)

(* The variables hold rows, labels and answers of the declared kinds.      *)
TypeOK ==
  /\ customers \in [Customers -> CustomerRow]
  /\ deletedBy \in [Customers -> Operations \cup {NoOperation}]
  /\ assignmentLogs \in [Customers -> Seq(AssignmentLog)]
  /\ users \in [Users -> UserRow]
  /\ stage \in [Operations -> {"idle", "target", "customers", "assign", "existing",
                               "patch", "state", "delete", "active", "batch", "done"}]
  /\ request \in [Operations -> Requests]
  /\ seen \in [Operations -> UNION {[S -> Users \cup {NoUser}] : S \in SUBSET Customers}]
  /\ result \in [Operations -> [status : {0, 200, 400, 401, 403, 404, 500}, count : Nat]]

(* The last row of a live customer's log names its owner: however          *)
(* assignments, deletions and failures interleave, no owner changes off    *)
(* the record.  (A deleted customer keeps its owner, see DeletedIsFinal,   *)
(* while an assignment that read it alive may still be logged.)            *)
LoggedOwner(c) ==
  LET log == assignmentLogs[c] IN IF log = <<>> THEN NoUser ELSE log[Len(log)].to

OwnerIsLogged ==
  \A c \in Customers : Live(c) => customers[c].owner = LoggedOwner(c)

(* The from_user_id of a log row is read before the batch that writes it   *)
(* and may be stale, but it is no invention: it is nobody, the owner after *)
(* an import, or the target of an earlier row, an owner once.              *)
FromUserWasOwner ==
  \A c \in Customers : \A i \in 1..Len(assignmentLogs[c]) :
    LET from == assignmentLogs[c][i].from IN
    from = NoUser \/ \E j \in 1..(i - 1) : assignmentLogs[c][j].to = from

(* loggedCount of an answered assignment is the number of rows it logged,  *)
(* and a refused one logged nothing.  (After a 500 nobody knows.)          *)
RowsLoggedBy(o) ==
  {row \in UNION {{c} \X (1..Len(assignmentLogs[c])) : c \in Customers} :
     assignmentLogs[row[1]][row[2]].operation = o}

CountIsLogged ==
  \A o \in Operations :
    request[o].kind = "assign" /\ result[o].status # 500 =>
      Cardinality(RowsLoggedBy(o)) = result[o].count

(* A deleted customer stays deleted and keeps the owner it had, also when  *)
(* an assignment that read it alive writes after the deletion.             *)
DeletedIsFinal ==
  [][\A c \in Customers : ~Live(c) =>
       customers'[c].isDeleted = 1 /\ customers'[c].owner = customers[c].owner]_vars
=============================================================================
