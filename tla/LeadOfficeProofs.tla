-------------------------- MODULE LeadOfficeProofs --------------------------
(***************************************************************************)
(* LeadOffice, for offices of any size: each of the two components is an   *)
(* environment the other allows, callers were assigned their customers,    *)
(* and statuses have their origin on record.                               *)
(***************************************************************************)
EXTENDS LeadOffice, TLAPS

CallLabels == {"idle", "lookup", "customer", "write", "conflict", "respond", "done"}
DeskLabels == {"idle", "target", "customers", "assign", "existing",
               "patch", "state", "delete", "active", "batch", "done"}
Seen == UNION {[S -> Users \cup {NoUser}] : S \in SUBSET Customers}
LogRows ==
  [operation : Operations, from : Users \cup {NoUser}, to : Users \cup {NoUser},
   operator : UserIds, action : 1..3]

(* The log has a row that gives c to u. *)
Assigned(c, u) == \E i \in 1..Len(assignmentLogs[c]) : assignmentLogs[c][i].to = u

(* A report that has passed its checks speaks of a customer its agent was  *)
(* assigned.                                                               *)
CallInv ==
  /\ pc \in [Attempts -> CallLabels]
  /\ input \in [Attempts -> Inputs]
  /\ \A a \in Attempts :
       /\ pc[a] \in {"lookup", "customer", "write"} => input[a].customerType \in Types
       /\ pc[a] = "write" =>
            input[a].customer \in Customers /\ Assigned(input[a].customer, input[a].user)

(* What a request of the console has established when it awaits a          *)
(* statement.                                                              *)
DeskInv ==
  /\ stage \in [Operations -> DeskLabels]
  /\ request \in [Operations -> Requests]
  /\ seen \in [Operations -> Seen]
  /\ DOMAIN result = Operations
  /\ \A o \in Operations :
       /\ stage[o] \in {"customers", "assign"} => request[o].target \in Users \cup {NoUser}
       /\ stage[o] \in {"existing", "patch"} => request[o].kind = "patch"
       /\ stage[o] \in {"active", "batch"} => request[o].kind = "batch"
       /\ stage[o] # "done" => result[o].status = 0

TableInv ==
  /\ customers \in [Customers -> CustomerRow]
  /\ assignmentLogs \in [Customers -> Seq(LogRows)]

OwnersAssigned ==
  \A c \in Customers : customers[c].owner # NoUser => Assigned(c, customers[c].owner)

CallsAssigned ==
  \A l \in callLogs : l.customer \in Customers /\ Assigned(l.customer, l.user)

(* A call, or an edit that was not refused, has given c the status n.      *)
Origin(c, n) ==
  \/ \E l \in callLogs : l.customer = c /\ l.callResult = n
  \/ \E o \in Operations : /\ request[o].kind \in {"patch", "batch"}
                           /\ c \in request[o].ids /\ result[o].status \in {200, 500}
                           /\ request[o].patch.status = n

Origins == \A c \in Customers : \A n : customers[c].status = n /\ n # 0 => Origin(c, n)

Inv ==
  /\ CallInv /\ DeskInv /\ TableInv
  /\ OwnersAssigned /\ CallsAssigned /\ Origins

LEMMA InputTypes ==
  ASSUME CallInv, NEW a \in Attempts
  PROVE  input[a] \in Inputs /\ input[a] \in Calls!ReportInput
BY OfficeAssumption DEF CallInv

LEMMA RequestTypes ==
  ASSUME DeskInv, NEW o \in Operations
  PROVE  /\ request[o] \in Requests /\ request[o] \in Desk!DeskRequest
         /\ request[o].patch \in EditPatches
         /\ DOMAIN seen[o] \subseteq Customers
         /\ \A c \in DOMAIN seen[o] : seen[o][c] \in Users \cup {NoUser}
<1>1. request[o] \in Requests /\ request[o] \in Desk!DeskRequest
  BY OfficeAssumption DEF DeskInv
<1>2. PICK S \in SUBSET Customers : seen[o] \in [S -> Users \cup {NoUser}]
  BY DEF DeskInv, Seen
<1> QED BY <1>1, <1>2 DEF EditPatches

-----------------------------------------------------------------------------
(* Steps by what they do to the tables that are shared                     *)

LEMMA OwnerSet ==
  ASSUME NEW table \in [Customers -> CustomerRow], NEW ids, NEW u \in Users \cup {NoUser}
  PROVE  /\ SetOwner(table, ids, u) \in [Customers -> CustomerRow]
         /\ \A c \in Customers :
              /\ SetOwner(table, ids, u)[c].status = table[c].status
              /\ SetOwner(table, ids, u)[c].owner =
                   IF c \in ids /\ table[c].isDeleted = 0 THEN u ELSE table[c].owner
<1>1. ASSUME NEW c \in Customers
      PROVE  /\ [table[c] EXCEPT !.owner = u] \in CustomerRow
             /\ [table[c] EXCEPT !.owner = u].status = table[c].status
             /\ [table[c] EXCEPT !.owner = u].owner = u
  BY DEF CustomerRow
<1> QED BY <1>1 DEF SetOwner

LEMMA RowsPatched ==
  ASSUME NEW table \in [Customers -> CustomerRow], NEW ids, NEW p \in Patch
  PROVE  /\ PatchRows(table, ids, p) \in [Customers -> CustomerRow]
         /\ \A c \in Customers :
              /\ PatchRows(table, ids, p)[c].owner = table[c].owner
              /\ PatchRows(table, ids, p)[c].status =
                   IF c \in ids /\ p.status # Keep THEN p.status ELSE table[c].status
<1>1. ASSUME NEW row \in CustomerRow
      PROVE  /\ Patched(row, p) \in CustomerRow /\ Patched(row, p).owner = row.owner
             /\ Patched(row, p).status = IF p.status # Keep THEN p.status ELSE row.status
  BY TableAssumption DEF Patched, SetField, CustomerRow, Patch, Types
<1> QED BY <1>1 DEF PatchRows

LEMMA RowDeleted ==
  ASSUME NEW table \in [Customers -> CustomerRow], NEW d \in Customers
  PROVE  /\ MarkDeleted(table, d) \in [Customers -> CustomerRow]
         /\ \A c \in Customers : /\ MarkDeleted(table, d)[c].owner = table[c].owner
                                 /\ MarkDeleted(table, d)[c].status = table[c].status
<1>1. MarkDeleted(table, d) = [table EXCEPT ![d] = [table[d] EXCEPT !.isDeleted = 1]]
  BY DEF MarkDeleted
<1>2. /\ [table[d] EXCEPT !.isDeleted = 1] \in CustomerRow
      /\ [table[d] EXCEPT !.isDeleted = 1].owner = table[d].owner
      /\ [table[d] EXCEPT !.isDeleted = 1].status = table[d].status
  BY DEF CustomerRow
<1> QED BY <1>1, <1>2

(* Both components send the statements of CustomerTable.                   *)
LEMMA SameStatements ==
  ASSUME NEW table, NEW ids, NEW u, NEW p, NEW c
  PROVE  /\ Desk!SetOwner(table, ids, u) = SetOwner(table, ids, u)
         /\ Desk!PatchRows(table, ids, p) = PatchRows(table, ids, p)
         /\ Desk!MarkDeleted(table, c) = MarkDeleted(table, c)
         /\ Calls!SetOwner(table, ids, u) = SetOwner(table, ids, u)
         /\ Calls!PatchRows(table, ids, p) = PatchRows(table, ids, p)
         /\ Calls!MarkDeleted(table, c) = MarkDeleted(table, c)
BY DEF Desk!SetOwner, SetOwner, Desk!PatchRows, PatchRows, Desk!Patched, Patched, Desk!SetField,
       SetField, Desk!MarkDeleted, MarkDeleted, Calls!SetOwner, Calls!PatchRows, Calls!Patched,
       Calls!SetField, Calls!MarkDeleted

(* What the console does: it reads, assigns, edits or deletes.             *)
Reads == UNCHANGED <<customers, assignmentLogs>>

Assigns(o) ==
  /\ stage[o] = "assign"
  /\ customers' = SetOwner(customers, DOMAIN seen[o], request[o].target)
  /\ assignmentLogs' = [c \in Customers |->
       IF c \in DOMAIN seen[o] THEN Append(assignmentLogs[c], Desk!LogRow(o, c))
       ELSE assignmentLogs[c]]

Edits(o, ids) ==
  /\ request[o].kind \in {"patch", "batch"}
  /\ customers' = PatchRows(customers, ids, request[o].patch)
  /\ assignmentLogs' = assignmentLogs
  /\ ids # {} => result'[o].status \in {200, 500}

Deletes(c) == customers' = MarkDeleted(customers, c) /\ assignmentLogs' = assignmentLogs

LEMMA ManageSteps ==
  ASSUME DeskInv, NEW o \in Operations, Desk!Handle(o)
  PROVE  \/ Reads
         \/ Assigns(o)
         \/ \E ids \in SUBSET (Customers \cap request[o].ids) : Edits(o, ids)
         \/ \E c \in Customers : Deletes(c)
<1> USE DEF Desk!Refuse, Desk!Await, Desk!tableVars
<1>1. CASE Desk!Authenticate(o)
  BY <1>1 DEF Desk!Authenticate, Reads
<1>2. CASE Desk!ReadTarget(o)
  BY <1>2 DEF Desk!ReadTarget, Reads
<1>3. CASE Desk!ReadCustomers(o)
  BY <1>3 DEF Desk!ReadCustomers, Reads
<1>4. CASE Desk!WriteAssignment(o)
  BY <1>4, SameStatements DEF Desk!WriteAssignment, Assigns
<1>5. CASE Desk!ReadExisting(o) \/ Desk!ReadDeleteState(o) \/ Desk!ReadActive(o)
  BY <1>5 DEF Desk!ReadExisting, Desk!ReadDeleteState, Desk!ReadActive, Reads
<1>6. CASE Desk!WritePatch(o)
  <2> DEFINE ids == {c \in Desk!Found(o) : Desk!Live(c)}
  <2>1. ids \in SUBSET (Customers \cap request[o].ids)
    BY DEF Desk!Found
  <2>2. /\ stage[o] = "patch" /\ assignmentLogs' = assignmentLogs
        /\ customers' = PatchRows(customers, ids, request[o].patch)
        /\ Desk!Settle(o, IF ids = {} THEN Desk!Refused(404) ELSE Desk!Done(1))
    BY <1>6, SameStatements DEF Desk!WritePatch
  <2>3. ids # {} => result'[o].status \in {200, 500}
    BY <2>2 DEF Desk!Settle, Desk!Answer, Desk!Done, Desk!Refused, DeskInv
  <2>4. Edits(o, ids)
    BY <2>2, <2>3 DEF Edits, DeskInv
  <2> QED BY <2>1, <2>4
<1>7. CASE Desk!WriteDelete(o)
  BY <1>7, SameStatements DEF Desk!WriteDelete, Desk!Found, Deletes
<1>8. CASE Desk!WriteBatchPatch(o)
  <2>1. result'[o].status \in {200, 500}
    BY <1>8 DEF Desk!WriteBatchPatch, Desk!Settle, Desk!Answer, Desk!Done, Desk!Refused, DeskInv
  <2>2. Edits(o, Desk!Found(o))
    BY <1>8, <2>1, SameStatements DEF Desk!WriteBatchPatch, Edits, DeskInv
  <2> QED BY <2>2 DEF Desk!Found
<1>9. CASE Desk!Fail(o)
  BY <1>9 DEF Desk!Fail, Reads
<1> QED BY <1>1, <1>2, <1>3, <1>4, <1>5, <1>6, <1>7, <1>8, <1>9 DEF Desk!Handle

(* What a report does: it moves on without a trace, or records its call.   *)
Records(a) ==
  /\ pc[a] = "write"
  /\ callLogs' = callLogs \cup {Calls!CallRow(a)}
  /\ customers' = PatchRows(customers, {input[a].customer},
                             Calls!Outcome(Calls!CallRow(a), input[a].customerType))

LEMMA ReportSteps ==
  ASSUME NEW a \in Attempts, Report(a)
  PROVE  UNCHANGED <<customers, callLogs>> \/ Records(a)
<1> USE DEF Calls!Reply, Calls!dbVars
<1>1. CASE Calls!WriteBatch(a)
  BY <1>1, SameStatements DEF Calls!WriteBatch, Calls!CallRow, Records
<1>2. CASE Authorize(a)
  BY <1>2 DEF Authorize, Calls!Receive, Calls!Reject
<1>3. CASE Calls!LookupRequestId(a) \/ Calls!ResolveConflict(a)
  BY <1>3 DEF Calls!LookupRequestId, Calls!ResolveConflict, Calls!ReplyFromLog
<1>4. CASE Calls!ReadCustomer(a) \/ Calls!WriteConflict(a)
  BY <1>4 DEF Calls!ReadCustomer, Calls!WriteConflict
<1>5. CASE Calls!Respond(a) \/ Calls!Fail(a)
  BY <1>5 DEF Calls!Respond, Calls!Fail
<1> QED BY <1>1, <1>2, <1>3, <1>4, <1>5 DEF Report

LEMMA OutcomeTypes ==
  ASSUME NEW a \in Attempts, input[a] \in Inputs, input[a] \in Calls!ReportInput,
         input[a].customerType \in Types
  PROVE  LET p == Calls!Outcome(Calls!CallRow(a), input[a].customerType)
         IN p \in ReportOutcomes /\ p \in Patch /\ p.status = input[a].callResult /\ p.status # Keep
<1> DEFINE p == Calls!Outcome(Calls!CallRow(a), input[a].customerType)
           i == input[a]
<1>1. p = [status |-> i.callResult, type |-> i.customerType,
           remark |-> IF i.callResult = 1 THEN i.callRemark ELSE Keep]
  BY DEF Calls!Outcome, Calls!CallRow
<1>2. p \in ReportOutcomes
  BY <1>1 DEF ReportOutcomes
<1>3. /\ i.callResult \in Nat /\ i.callRemark \in Remarks \cup {NoRemark}
  BY DEF Calls!ReportInput
<1>4. p \in Patch /\ p.status = i.callResult /\ p.status # Keep
  BY <1>1, <1>3, TableAssumption DEF Patch
<1> QED BY <1>2, <1>4

-----------------------------------------------------------------------------
(* Types and promises of each component are kept by its own steps          *)

LEMMA AnsweredInv ==
  ASSUME DeskInv, NEW o \in Operations, NEW r, Desk!Answer(o, r)
  PROVE  DeskInv'
BY DEF DeskInv, Desk!Answer, DeskLabels

LEMMA RefusedInv ==
  ASSUME DeskInv, NEW o \in Operations, NEW code, Desk!Refuse(o, code)
  PROVE  DeskInv'
BY AnsweredInv DEF Desk!Refuse

LEMMA AwaitedInv ==
  ASSUME DeskInv, NEW o \in Operations, stage[o] # "done",
         NEW label \in DeskLabels \ {"done"}, Desk!Await(o, label), seen' \in [Operations -> Seen],
         label \in {"customers", "assign"} => request[o].target \in Users \cup {NoUser},
         label \in {"existing", "patch"} => request[o].kind = "patch",
         label \in {"active", "batch"} => request[o].kind = "batch"
  PROVE  DeskInv'
BY DEF DeskInv, Desk!Await

LEMMA AuthenticateInv ==
  ASSUME DeskInv, NEW o \in Operations, Desk!Authenticate(o)
  PROVE  DeskInv'
<1> DEFINE r == request[o]
<1>1. CASE \E code \in {400, 401, 403} : Desk!Refuse(o, code)
  BY <1>1, RefusedInv
<1>2. CASE Desk!Await(o, Desk!FirstRead(r)) /\ UNCHANGED seen /\ stage[o] = "idle"
  <2>1. r \in Desk!DeskRequest
    BY RequestTypes
  <2>2. /\ Desk!FirstRead(r) \in {"customers", "target", "existing", "state", "active"}
        /\ Desk!FirstRead(r) = "customers" => r.target = NoUser
        /\ Desk!FirstRead(r) = "existing" => r.kind = "patch"
        /\ Desk!FirstRead(r) = "active" => r.kind = "batch"
    BY <2>1 DEF Desk!FirstRead, Desk!DeskRequest
  <2>3. seen' \in [Operations -> Seen]
    BY <1>2 DEF DeskInv
  <2> QED BY <1>2, <2>2, <2>3, AwaitedInv DEF DeskLabels
<1> QED BY <1>1, <1>2 DEF Desk!Authenticate

LEMMA ReadTargetInv ==
  ASSUME DeskInv, NEW o \in Operations, Desk!ReadTarget(o)
  PROVE  DeskInv'
<1>1. CASE \E code \in {400, 404} : Desk!Refuse(o, code)
  BY <1>1, RefusedInv
<1>2. CASE request[o].target \in Users /\ Desk!Await(o, "customers") /\ UNCHANGED seen
  <2>1. stage[o] # "done" /\ seen' \in [Operations -> Seen]
    BY <1>2 DEF Desk!ReadTarget, DeskInv
  <2> QED BY <1>2, <2>1, AwaitedInv DEF DeskLabels
<1> QED BY <1>1, <1>2 DEF Desk!ReadTarget

LEMMA ReadCustomersInv ==
  ASSUME DeskInv, TableInv, NEW o \in Operations, Desk!ReadCustomers(o)
  PROVE  DeskInv'
<1>1. CASE Desk!Refuse(o, 400)
  BY <1>1, RefusedInv
<1>2. CASE Desk!Answer(o, Desk!Done(0))
  BY <1>2, AnsweredInv
<1>3. CASE /\ Desk!Await(o, "assign")
           /\ seen' = [seen EXCEPT ![o] = [c \in Desk!Found(o) |-> customers[c].owner]]
  <2>1. stage[o] = "customers" /\ request[o].target \in Users \cup {NoUser}
    BY DEF Desk!ReadCustomers, DeskInv
  <2>2. Desk!Found(o) \subseteq Customers
    BY DEF Desk!Found
  <2>3. [c \in Desk!Found(o) |-> customers[c].owner] \in [Desk!Found(o) -> Users \cup {NoUser}]
    BY <2>2 DEF TableInv, CustomerRow
  <2>4. [c \in Desk!Found(o) |-> customers[c].owner] \in Seen
    BY <2>2, <2>3 DEF Seen
  <2> DEFINE read == [c \in Desk!Found(o) |-> customers[c].owner]
  <2> HIDE DEF read
  <2>5. seen' = [seen EXCEPT ![o] = read] /\ read \in Seen
    BY <1>3, <2>4 DEF read
  <2>6. seen' \in [Operations -> Seen]
    BY <2>5 DEF DeskInv
  <2> QED BY <1>3, <2>1, <2>6, AwaitedInv DEF DeskLabels
<1> QED BY <1>1, <1>2, <1>3 DEF Desk!ReadCustomers

LEMMA ManageInv ==
  ASSUME DeskInv, TableInv, NEW o \in Operations, Desk!Handle(o)
  PROVE  DeskInv'
<1>1. CASE \E r : Desk!Answer(o, r)
  BY <1>1, AnsweredInv
<1>2. CASE \E code : Desk!Refuse(o, code)
  BY <1>2, RefusedInv
<1>3. CASE Desk!Authenticate(o) \/ Desk!ReadTarget(o) \/ Desk!ReadCustomers(o)
  BY <1>3, AuthenticateInv, ReadTargetInv, ReadCustomersInv
<1>4. CASE Desk!WriteAssignment(o) \/ Desk!WritePatch(o) \/ Desk!WriteDelete(o)
           \/ Desk!WriteBatchPatch(o)
  BY <1>1, <1>4 DEF Desk!WriteAssignment, Desk!WritePatch, Desk!WriteDelete,
                    Desk!WriteBatchPatch, Desk!Settle
<1>5. CASE Desk!ReadDeleteState(o)
  <2>1. CASE Desk!Await(o, "delete") /\ UNCHANGED seen
    <3>1. stage[o] # "done" /\ seen' \in [Operations -> Seen]
      BY <1>5, <2>1 DEF Desk!ReadDeleteState, DeskInv
    <3> QED BY <2>1, <3>1, AwaitedInv DEF DeskLabels
  <2> QED BY <1>1, <1>2, <1>5, <2>1 DEF Desk!ReadDeleteState
<1>6. CASE Desk!ReadExisting(o)
  <2>1. CASE Desk!Await(o, "patch") /\ UNCHANGED seen
    <3>1. stage[o] # "done" /\ seen' \in [Operations -> Seen] /\ request[o].kind = "patch"
      BY <1>6, <2>1 DEF Desk!ReadExisting, DeskInv
    <3> QED BY <2>1, <3>1, AwaitedInv DEF DeskLabels
  <2> QED BY <1>2, <1>6, <2>1 DEF Desk!ReadExisting
<1>7. CASE Desk!ReadActive(o)
  <2>1. CASE Desk!Await(o, "batch") /\ UNCHANGED seen
    <3>1. stage[o] # "done" /\ seen' \in [Operations -> Seen] /\ request[o].kind = "batch"
      BY <1>7, <2>1 DEF Desk!ReadActive, DeskInv
    <3> QED BY <2>1, <3>1, AwaitedInv DEF DeskLabels
  <2> QED BY <1>2, <1>7, <2>1 DEF Desk!ReadActive
<1>8. CASE Desk!Fail(o)
  BY <1>2, <1>8 DEF Desk!Fail
<1> QED BY <1>3, <1>4, <1>5, <1>6, <1>7, <1>8 DEF Desk!Handle

LEMMA CallGoes ==
  ASSUME CallInv, NEW a \in Attempts, NEW label \in CallLabels,
         pc' = [pc EXCEPT ![a] = label], input' = input, assignmentLogs' = assignmentLogs,
         label \in {"lookup", "customer", "write"} => input[a].customerType \in Types,
         label = "write" =>
           input[a].customer \in Customers /\ Assigned(input[a].customer, input[a].user)
  PROVE  CallInv'
BY DEF CallInv, Assigned

LEMMA ReportInv ==
  ASSUME CallInv, TableInv, OwnersAssigned, NEW a \in Attempts, Report(a)
  PROVE  CallInv'
<1>0. input' = input /\ assignmentLogs' = assignmentLogs
  BY DEF Report, deskVars, Authorize, Calls!Receive, Calls!Reject, Calls!LookupRequestId,
         Calls!ResolveConflict, Calls!ReplyFromLog, Calls!ReadCustomer, Calls!WriteBatch,
         Calls!WriteConflict, Calls!Respond, Calls!Fail, Calls!Reply, Calls!Goto
<1>1. CASE \E r : Calls!Reply(a, r)
  BY <1>0, <1>1, CallGoes DEF Calls!Reply, CallLabels
<1>2. CASE Authorize(a)
  <2>1. CASE Calls!ValidBody(input[a]) /\ pc' = [pc EXCEPT ![a] = Calls!FirstAwait(input[a])]
    <3>1. input[a].customerType \in Types
      BY <2>1 DEF Calls!ValidBody, Calls!Types, Types
    <3> QED BY <1>0, <2>1, <3>1, CallGoes DEF Calls!FirstAwait, CallLabels
  <2> QED BY <1>1, <1>2, <2>1 DEF Authorize, Calls!Receive, Calls!Reject
<1>3. CASE Calls!LookupRequestId(a)
  <2>1. CASE pc[a] = "lookup" /\ pc' = [pc EXCEPT ![a] = "customer"]
    BY <1>0, <2>1, CallGoes DEF CallInv, CallLabels
  <2> QED BY <1>1, <1>3, <2>1 DEF Calls!LookupRequestId, Calls!ReplyFromLog, Calls!Goto
<1>4. CASE Calls!ReadCustomer(a)
  <2> DEFINE c == input[a].customer
  <2>1. CASE /\ pc[a] = "customer" /\ pc' = [pc EXCEPT ![a] = "write"]
             /\ Calls!Live(c) /\ customers[c].owner = input[a].user
    <3>1. c \in Customers /\ input[a].user # NoUser
      BY <2>1, InputTypes, TableAssumption DEF Calls!Live, Calls!ReportInput
    <3>2. Assigned(c, input[a].user) /\ input[a].customerType \in Types
      BY <2>1, <3>1 DEF OwnersAssigned, CallInv
    <3> QED BY <1>0, <2>1, <3>1, <3>2, CallGoes DEF CallLabels
  <2> QED BY <1>1, <1>4, <2>1 DEF Calls!ReadCustomer, Calls!Goto
<1>5. CASE Calls!WriteBatch(a) \/ Calls!WriteConflict(a)
  BY <1>0, <1>5, CallGoes DEF Calls!WriteBatch, Calls!WriteConflict, Calls!Goto, CallLabels
<1>6. CASE Calls!ResolveConflict(a) \/ Calls!Respond(a) \/ Calls!Fail(a)
  BY <1>1, <1>6 DEF Calls!ResolveConflict, Calls!ReplyFromLog, Calls!Respond, Calls!Fail
<1> QED BY <1>2, <1>3, <1>4, <1>5, <1>6 DEF Report

-----------------------------------------------------------------------------
(* The invariant of the office                                             *)

LEMMA InitInv == Init => Inv
<1> SUFFICES ASSUME Init PROVE Inv
  OBVIOUS
<1> USE DEF Init, Calls!Init, Desk!Init
<1>1. CallInv
  BY DEF CallInv, CallLabels
<1>2. DeskInv
  <2>1. seen = [o \in Operations |-> Desk!Nothing]
    OBVIOUS
  <2>2. Desk!Nothing \in [{} -> Users \cup {NoUser}]
    BY DEF Desk!Nothing
  <2>3. seen \in [Operations -> Seen]
    BY <2>1, <2>2 DEF Seen
  <2> QED BY <2>3 DEF DeskInv, DeskLabels, Desk!NoResult
<1>3. \A c \in Customers : /\ customers[c] = ImportedRow /\ customers[c].owner = NoUser
                          /\ customers[c].status = 0 /\ customers[c] \in CustomerRow
  BY DEF Desk!ImportedRow, ImportedRow, CustomerRow, Types
<1>4. TableInv
  <2>1. customers \in [Customers -> CustomerRow]
    BY <1>3
  <2>2. assignmentLogs \in [Customers -> Seq(LogRows)]
    OBVIOUS
  <2> QED BY <2>1, <2>2 DEF TableInv
<1>5. OwnersAssigned /\ CallsAssigned /\ Origins
  BY <1>3 DEF OwnersAssigned, CallsAssigned, Origins
<1> QED BY <1>1, <1>2, <1>4, <1>5 DEF Inv

(* A report that records its call leaves owners and log alone, and the     *)
(* row it adds is the origin of the status it writes.                      *)
LEMMA RecordsInv ==
  ASSUME Inv, NEW a \in Attempts, Records(a), UNCHANGED deskVars
  PROVE  TableInv' /\ OwnersAssigned' /\ CallsAssigned' /\ Origins'
<1> DEFINE c0 == input[a].customer
           call == Calls!CallRow(a)
           p == Calls!Outcome(Calls!CallRow(a), input[a].customerType)
<1>1. /\ c0 \in Customers /\ Assigned(c0, input[a].user)
      /\ p \in Patch /\ p.status = input[a].callResult
  BY InputTypes, OutcomeTypes DEF Inv, CallInv, Records
<1>2. call.customer = c0 /\ call.user = input[a].user /\ call.callResult = input[a].callResult
  BY DEF Calls!CallRow
<1>3. /\ customers' = PatchRows(customers, {c0}, p) /\ callLogs' = callLogs \cup {call}
      /\ assignmentLogs' = assignmentLogs /\ request' = request /\ result' = result
  BY DEF Records, deskVars
<1> HIDE DEF c0, call, p
<1>4. customers \in [Customers -> CustomerRow] /\ assignmentLogs \in [Customers -> Seq(LogRows)]
  BY DEF Inv, TableInv
<1>5. /\ customers' \in [Customers -> CustomerRow]
      /\ \A c \in Customers :
           /\ customers'[c].owner = customers[c].owner
           /\ customers'[c].status =
                IF c \in {c0} /\ p.status # Keep THEN p.status ELSE customers[c].status
  BY <1>1, <1>3, <1>4, RowsPatched
<1>6. TableInv'
  BY <1>3, <1>4, <1>5 DEF TableInv
<1>7. OwnersAssigned'
  BY <1>3, <1>5 DEF Inv, OwnersAssigned, Assigned
<1>8. CallsAssigned'
  BY <1>1, <1>2, <1>3 DEF Inv, CallsAssigned, Assigned
<1>9. Origins'
  <2> SUFFICES ASSUME NEW c \in Customers, NEW n, customers'[c].status = n, n # 0
               PROVE  Origin(c, n)'
    BY DEF Origins
  <2>1. CASE n = customers[c].status
    <3>1. Origin(c, n)
      BY <2>1 DEF Inv, Origins
    <3> QED BY <1>3, <3>1 DEF Origin
  <2>2. CASE c = c0 /\ n = p.status
    <3>1. call \in callLogs' /\ call.customer = c /\ call.callResult = n
      BY <1>1, <1>2, <1>3, <2>2
    <3> QED BY <3>1 DEF Origin
  <2> QED BY <1>5, <2>1, <2>2
<1> QED BY <1>6, <1>7, <1>8, <1>9

LEMMA ReportKeepsInv ==
  ASSUME Inv, NEW a \in Attempts, Report(a)
  PROVE  Inv'
<1>1. CallInv' /\ UNCHANGED deskVars
  BY ReportInv DEF Inv, Report
<1>2. DeskInv'
  BY <1>1 DEF Inv, DeskInv, deskVars
<1>3. CASE UNCHANGED <<customers, callLogs>>
  BY <1>1, <1>2, <1>3 DEF Inv, deskVars, TableInv, OwnersAssigned, CallsAssigned, Origins,
     Origin, Assigned
<1>4. CASE Records(a)
  BY <1>1, <1>2, <1>4, RecordsInv DEF Inv
<1> QED BY <1>3, <1>4, ReportSteps

(* A request of the console answers for itself alone, and once.            *)
LEMMA ManageAnswers ==
  ASSUME DeskInv, NEW o \in Operations, Desk!Handle(o)
  PROVE  /\ stage[o] # "done" /\ request' = request
         /\ \A q \in Operations \ {o} : result'[q] = result[q]
<1>1. stage[o] # "done"
  BY DEF Desk!Handle, Desk!Authenticate, Desk!ReadTarget, Desk!ReadCustomers,
     Desk!WriteAssignment, Desk!ReadExisting, Desk!WritePatch, Desk!ReadDeleteState,
     Desk!WriteDelete, Desk!ReadActive, Desk!WriteBatchPatch, Desk!Fail
<1>2. (\E r : Desk!Answer(o, r)) \/ \E label : Desk!Await(o, label)
  BY DEF Desk!Handle, Desk!Authenticate, Desk!ReadTarget, Desk!ReadCustomers,
     Desk!WriteAssignment, Desk!ReadExisting, Desk!WritePatch, Desk!ReadDeleteState,
     Desk!WriteDelete, Desk!ReadActive, Desk!WriteBatchPatch, Desk!Fail,
     Desk!Refuse, Desk!Settle
<1> QED BY <1>1, <1>2 DEF Desk!Answer, Desk!Await, DeskInv

(* No status loses its origin.                                             *)
LEMMA OriginStays ==
  ASSUME DeskInv, NEW o \in Operations, Desk!Handle(o), callLogs' = callLogs
  PROVE  \A c, n : Origin(c, n) => Origin(c, n)'
BY ManageAnswers DEF Origin, DeskInv

(* An assignment: the rows of the log before it stay where they are.       *)
LEMMA LogsExtended ==
  ASSUME Inv, NEW o \in Operations, Assigns(o), request' = request
  PROVE  /\ assignmentLogs' \in [Customers -> Seq(LogRows)]
         /\ \A c \in Customers : \A u : Assigned(c, u) => Assigned(c, u)'
         /\ \A c \in DOMAIN seen[o] : Assigned(c, request[o].target)'
<1> DEFINE ids == DOMAIN seen[o]
           row(c) == Desk!LogRow(o, c)
<1>1. /\ assignmentLogs \in [Customers -> Seq(LogRows)] /\ ids \subseteq Customers
      /\ request[o].operator \in UserIds /\ request[o].target \in Users \cup {NoUser}
      /\ \A c \in ids : seen[o][c] \in Users \cup {NoUser}
  BY RequestTypes DEF Inv, TableInv, DeskInv, Assigns, Desk!DeskRequest
<1>2. \A c \in ids : row(c) \in LogRows /\ row(c).to = request[o].target
  BY <1>1 DEF Desk!LogRow, LogRows, Desk!AssignmentAction
<1>3. assignmentLogs' = [c \in Customers |->
        IF c \in ids THEN Append(assignmentLogs[c], row(c)) ELSE assignmentLogs[c]]
  BY DEF Assigns
<1> HIDE DEF ids, row
<1>4. assignmentLogs' \in [Customers -> Seq(LogRows)]
  BY <1>1, <1>2, <1>3
<1>5. ASSUME NEW c \in Customers
      PROVE  /\ \A i \in 1..Len(assignmentLogs[c]) :
                   i \in 1..Len(assignmentLogs'[c]) /\ assignmentLogs'[c][i] = assignmentLogs[c][i]
             /\ c \in ids => \E i \in 1..Len(assignmentLogs'[c]) : assignmentLogs'[c][i] = row(c)
  <2>1. assignmentLogs[c] \in Seq(LogRows)
    BY <1>1
  <2>2. CASE c \notin ids
    BY <1>3, <2>1, <2>2
  <2>3. CASE c \in ids
    <3> DEFINE old == assignmentLogs[c]
               new == assignmentLogs'[c]
    <3>1. new = Append(old, row(c)) /\ row(c) \in LogRows
      BY <1>2, <1>3, <2>3
    <3> HIDE DEF old, new
    <3>2. old \in Seq(LogRows)
      BY <2>1 DEF old
    <3>3. /\ Len(new) = Len(old) + 1 /\ Len(old) \in Nat /\ new[Len(old) + 1] = row(c)
          /\ \A i \in 1..Len(old) : new[i] = old[i]
      BY <3>1, <3>2
    <3>4. Len(old) + 1 \in 1..Len(new) /\ \A i \in 1..Len(old) : i \in 1..Len(new)
      BY <3>3
    <3> QED BY <3>3, <3>4 DEF old, new
  <2> QED BY <2>2, <2>3
<1>6. \A c \in Customers : \A u : Assigned(c, u) => Assigned(c, u)'
  BY <1>5 DEF Assigned
<1>7. \A c \in ids : Assigned(c, request[o].target)'
  BY <1>1, <1>2, <1>5 DEF Assigned
<1> QED BY <1>4, <1>6, <1>7 DEF ids

NewOwnersAssigned ==
  \A c \in Customers : \A u :
    customers'[c].owner = u /\ u \notin {NoUser, customers[c].owner} => Assigned(c, u)'
NewStatusesOrigin ==
  \A c \in Customers : \A n :
    customers'[c].status = n /\ n # customers[c].status => Origin(c, n)'

(* If log and origins grow, what remains to be shown of a step of the      *)
(* console is what becomes of owners and statuses.                         *)
LEMMA GrownInv ==
  ASSUME Inv, CallInv', DeskInv', TableInv', callLogs' = callLogs,
         \A c \in Customers : \A u : Assigned(c, u) => Assigned(c, u)',
         \A c, n : Origin(c, n) => Origin(c, n)',
         NewOwnersAssigned, NewStatusesOrigin
  PROVE  Inv'
<1>1. OwnersAssigned'
  <2> SUFFICES ASSUME NEW c \in Customers, NEW u, u = customers'[c].owner, u # NoUser
               PROVE  Assigned(c, u)'
    BY DEF OwnersAssigned, Assigned
  <2>1. CASE u = customers[c].owner
    <3>1. Assigned(c, u)
      BY <2>1 DEF Inv, OwnersAssigned
    <3> QED BY <3>1
  <2> QED BY <2>1 DEF NewOwnersAssigned
<1>2. CallsAssigned'
  BY DEF Inv, CallsAssigned
<1>3. Origins'
  BY DEF Inv, Origins, NewStatusesOrigin
<1> QED BY <1>1, <1>2, <1>3 DEF Inv

LEMMA ManageKeepsInv ==
  ASSUME Inv, NEW o \in Operations, Manage(o)
  PROVE  Inv'
<1>1. DeskInv' /\ Desk!Handle(o) /\ UNCHANGED callVars
  BY ManageInv DEF Inv, Manage
<1>2. /\ callLogs' = callLogs /\ pc' = pc /\ input' = input
      /\ request' = request /\ stage[o] # "done"
      /\ \A c, n : Origin(c, n) => Origin(c, n)'
  BY <1>1, ManageAnswers, OriginStays DEF Inv, callVars
<1>3. ASSUME \A c \in Customers : \A u : Assigned(c, u) => Assigned(c, u)'
      PROVE  CallInv'
  BY <1>2, <1>3 DEF Inv, CallInv
<1>4. ASSUME assignmentLogs' = assignmentLogs
      PROVE  /\ \A c \in Customers : \A u : Assigned(c, u) => Assigned(c, u)'
             /\ assignmentLogs' \in [Customers -> Seq(LogRows)] /\ CallInv'
  BY <1>3, <1>4 DEF Assigned, Inv, TableInv
<1>5. customers \in [Customers -> CustomerRow]
  BY DEF Inv, TableInv
<1>6. CASE Reads
  BY <1>1, <1>2, <1>4, <1>5, <1>6, GrownInv
     DEF Reads, TableInv, NewOwnersAssigned, NewStatusesOrigin
<1>7. CASE Assigns(o)
  <2>1. /\ assignmentLogs' \in [Customers -> Seq(LogRows)] /\ CallInv'
        /\ \A c \in Customers : \A u : Assigned(c, u) => Assigned(c, u)'
        /\ \A c \in DOMAIN seen[o] : Assigned(c, request[o].target)'
    BY <1>2, <1>3, <1>7, LogsExtended
  <2>2. request[o].target \in Users \cup {NoUser}
    BY <1>7 DEF Assigns, Inv, DeskInv
  <2>3. /\ customers' \in [Customers -> CustomerRow]
        /\ \A c \in Customers :
             /\ customers'[c].status = customers[c].status
             /\ customers'[c].owner \in {customers[c].owner, request[o].target}
             /\ c \notin DOMAIN seen[o] => customers'[c].owner = customers[c].owner
    BY <1>5, <1>7, <2>2, OwnerSet DEF Assigns
  <2>4. NewOwnersAssigned /\ NewStatusesOrigin
    <3> SUFFICES ASSUME NEW c \in Customers, NEW u, u = customers'[c].owner,
                        u # customers[c].owner
                 PROVE  Assigned(c, u)'
      BY <2>3 DEF NewOwnersAssigned, NewStatusesOrigin
    <3>1. c \in DOMAIN seen[o] /\ u = request[o].target
      BY <2>3
    <3> QED BY <1>2, <2>1, <3>1 DEF Assigned
  <2> QED BY <1>1, <1>2, <2>1, <2>3, <2>4, GrownInv DEF TableInv
<1>8. CASE \E ids \in SUBSET (Customers \cap request[o].ids) : Edits(o, ids)
  <2>1. PICK ids \in SUBSET (Customers \cap request[o].ids) : Edits(o, ids)
    BY <1>8
  <2> DEFINE p == request[o].patch
  <2>2. p \in Patch
    BY RequestTypes DEF Inv, Desk!DeskRequest, Desk!Patch, Patch, Desk!Types, Types
  <2>3. /\ customers' \in [Customers -> CustomerRow]
        /\ \A c \in Customers :
             /\ customers'[c].owner = customers[c].owner
             /\ customers'[c].status =
                  IF c \in ids /\ p.status # Keep THEN p.status ELSE customers[c].status
    BY <1>5, <2>1, <2>2, RowsPatched DEF Edits
  <2>4. NewOwnersAssigned /\ NewStatusesOrigin
    <3> SUFFICES ASSUME NEW c \in Customers, NEW n, n = customers'[c].status,
                        n # customers[c].status
                 PROVE  Origin(c, n)'
      BY <2>3 DEF NewOwnersAssigned, NewStatusesOrigin
    <3>1. c \in ids /\ n = p.status
      BY <2>3
    <3>2. /\ request'[o].kind \in {"patch", "batch"} /\ c \in request'[o].ids
          /\ result'[o].status \in {200, 500} /\ request'[o].patch.status = n
      BY <1>2, <2>1, <3>1 DEF Edits
    <3> QED BY <3>2 DEF Origin
  <2> QED BY <1>1, <1>2, <1>4, <2>1, <2>3, <2>4, GrownInv DEF TableInv, Edits
<1>9. CASE \E c \in Customers : Deletes(c)
  <2>1. PICK d \in Customers : Deletes(d)
    BY <1>9
  <2>2. /\ customers' \in [Customers -> CustomerRow]
        /\ \A c \in Customers : /\ customers'[c].owner = customers[c].owner
                               /\ customers'[c].status = customers[c].status
    BY <1>5, <2>1, RowDeleted DEF Deletes
  <2> QED BY <1>1, <1>2, <1>4, <2>1, <2>2, GrownInv
           DEF TableInv, Deletes, NewOwnersAssigned, NewStatusesOrigin
<1> QED BY <1>1, <1>6, <1>7, <1>8, <1>9, ManageSteps DEF Inv

LEMMA NextInv == Inv /\ [Next]_vars => Inv'
<1> SUFFICES ASSUME Inv, [Next]_vars PROVE Inv'
  OBVIOUS
<1>1. ASSUME UNCHANGED <<customers, callVars, deskVars>> PROVE Inv'
  BY <1>1 DEF callVars, deskVars, Inv, CallInv, DeskInv, TableInv, OwnersAssigned, CallsAssigned,
     Origins, Origin, Assigned
<1>2. CASE \E a \in Attempts : Report(a)
  BY <1>2, ReportKeepsInv
<1>3. CASE \E o \in Operations : Manage(o)
  BY <1>3, ManageKeepsInv
<1>4. CASE \E u \in Users, row \in UserRows : EditUser(u, row)
  BY <1>1, <1>4 DEF EditUser, Desk!UserChanged, Desk!deskVars, deskVars
<1>5. CASE Tick
  BY <1>1, <1>5 DEF Tick, Calls!Tick, Calls!dbVars, Calls!handlerVars, callVars
<1>6. CASE UNCHANGED vars
  BY <1>1, <1>6 DEF vars
<1> QED BY <1>2, <1>3, <1>4, <1>5, <1>6 DEF Next

LEMMA Invariance == Spec => []Inv
BY InitInv, NextInv, PTL DEF Spec

(* An agent with a call in call_logs has a row in assignment_logs that     *)
(* gave him its customer, whatever the two components did in between.      *)
THEOREM CallersWereAssigned == Spec => []CallerWasAssigned
<1>1. Inv => CallerWasAssigned
  BY DEF Inv, CallsAssigned, Assigned, CallerWasAssigned
<1> QED BY <1>1, Invariance, PTL

(* A status other than that of the import is the result of a call in       *)
(* call_logs or of an edit that was not refused.                           *)
THEOREM StatusesHaveOrigin == Spec => []StatusHasOrigin
<1>1. Inv => StatusHasOrigin
  BY DEF Inv, Origins, Origin, StatusHasOrigin
<1> QED BY <1>1, Invariance, PTL

-----------------------------------------------------------------------------
(* Each component is an environment the other allows                       *)

LEMMA ReportsInit == Init => Calls!Init
BY DEF Init

LEMMA ReportsNext == Inv /\ [Next]_vars => [Calls!Next]_(Calls!vars)
<1> SUFFICES ASSUME Inv, [Next]_vars PROVE [Calls!Next]_(Calls!vars)
  OBVIOUS
<1>1. ASSUME UNCHANGED <<clock, customers, callVars>> PROVE UNCHANGED Calls!vars
  BY <1>1 DEF callVars, Calls!vars, Calls!dbVars, Calls!handlerVars
<1>2. CASE \E a \in Attempts : Report(a)
  BY <1>2 DEF Report, Authorize, Calls!Handle, Calls!Next
<1>3. ASSUME NEW o \in Operations, Manage(o)
      PROVE  Calls!Environment \/ UNCHANGED Calls!vars
  <2>1. Desk!Handle(o) /\ clock' = clock /\ UNCHANGED callVars
    BY <1>3 DEF Manage
  <2>2. UNCHANGED <<clock, callLogs, summaries, Calls!handlerVars>>
    BY <2>1 DEF callVars, Calls!handlerVars
  <2>3. CASE Reads
    BY <1>1, <2>1, <2>3 DEF Reads
  <2>4. CASE Assigns(o)
    <3>1. request[o].target \in Users \cup {NoUser} /\ DOMAIN seen[o] \in SUBSET Customers
      BY <2>4, RequestTypes DEF Assigns, Inv, DeskInv
    <3>2. Calls!OwnersChange(DOMAIN seen[o], request[o].target)
      BY <2>2, <2>4, SameStatements DEF Assigns, Calls!OwnersChange
    <3> QED BY <3>1, <3>2 DEF Calls!Environment
  <2>5. CASE \E ids \in SUBSET (Customers \cap request[o].ids) : Edits(o, ids)
    <3>1. PICK ids \in SUBSET (Customers \cap request[o].ids) : Edits(o, ids)
      BY <2>5
    <3>2. ids \in SUBSET Customers /\ request[o].patch \in EditPatches
      BY RequestTypes DEF Inv
    <3>3. Calls!CustomersPatched(ids, request[o].patch)
      BY <2>2, <3>1, SameStatements DEF Edits, Calls!CustomersPatched
    <3> QED BY <3>2, <3>3 DEF Calls!Environment
  <2>6. CASE \E c \in Customers : Deletes(c)
    <3>1. PICK c \in Customers : Calls!CustomerDeleted(c)
      BY <2>2, <2>6, SameStatements DEF Deletes, Calls!CustomerDeleted
    <3> QED BY <3>1 DEF Calls!Environment
  <2> QED BY <2>1, <2>3, <2>4, <2>5, <2>6, ManageSteps DEF Inv
<1>4. CASE \E o \in Operations : Manage(o)
  BY <1>3, <1>4 DEF Calls!Next
<1>5. CASE \E u \in Users, row \in UserRows : EditUser(u, row)
  BY <1>1, <1>5 DEF EditUser, Desk!UserChanged
<1>6. CASE Tick
  BY <1>6 DEF Tick, Calls!Next, Calls!Environment
<1>7. CASE UNCHANGED vars
  BY <1>1, <1>7 DEF vars
<1> QED BY <1>2, <1>4, <1>5, <1>6, <1>7 DEF Next

(* To the reports, assignments, edits and deletions are the statements the *)
(* environment of CallReport may send: what is proved of CallReport holds  *)
(* in the office.                                                          *)
THEOREM ReportsImplemented == Spec => ReportsAsSpecified
BY ReportsInit, ReportsNext, Invariance, PTL DEF Spec, ReportsAsSpecified, Calls!Spec

LEMMA DeskInit == Init => Desk!Init
BY DEF Init

LEMMA DeskNext == Inv /\ [Next]_vars => [Desk!Next]_(Desk!vars)
<1> SUFFICES ASSUME Inv, [Next]_vars PROVE [Desk!Next]_(Desk!vars)
  OBVIOUS
<1>1. ASSUME UNCHANGED <<customers, users, deskVars>> PROVE UNCHANGED Desk!vars
  BY <1>1 DEF deskVars, Desk!vars, Desk!tableVars, Desk!deskVars
<1>2. ASSUME NEW a \in Attempts, Report(a)
      PROVE  Desk!Environment \/ UNCHANGED Desk!vars
  <2>1. users' = users /\ UNCHANGED deskVars
    BY <1>2 DEF Report
  <2>2. CASE UNCHANGED <<customers, callLogs>>
    BY <1>1, <2>1, <2>2
  <2>3. CASE Records(a)
    <3> DEFINE c == input[a].customer
               p == Calls!Outcome(Calls!CallRow(a), input[a].customerType)
    <3>1. c \in Customers /\ p \in ReportOutcomes
      BY <2>3, InputTypes, OutcomeTypes DEF Records, Inv, CallInv
    <3>2. customers' = Desk!PatchRows(customers, {c}, p)
      BY <2>3, SameStatements DEF Records
    <3>3. UNCHANGED <<deletedBy, assignmentLogs, users, Desk!deskVars>>
      BY <2>1 DEF deskVars, Desk!deskVars
    <3> HIDE DEF c, p
    <3>4. Desk!CallRecorded(c, p)
      BY <3>2, <3>3 DEF Desk!CallRecorded
    <3> QED BY <3>1, <3>4 DEF Desk!Environment
  <2> QED BY <1>2, <2>2, <2>3, ReportSteps
<1>3. CASE \E a \in Attempts : Report(a)
  BY <1>2, <1>3 DEF Desk!Next
<1>4. CASE \E o \in Operations : Manage(o)
  BY <1>4 DEF Manage, Desk!Next
<1>5. CASE \E u \in Users, row \in UserRows : EditUser(u, row)
  BY <1>5 DEF EditUser, Desk!Environment, Desk!Next
<1>6. CASE Tick
  BY <1>1, <1>6 DEF Tick, Calls!Tick, Calls!dbVars
<1>7. CASE UNCHANGED vars
  BY <1>1, <1>7 DEF vars
<1> QED BY <1>3, <1>4, <1>5, <1>6, <1>7 DEF Next

(* To the console, a report is one statement on one customer, with an      *)
(* outcome the environment of CustomerDesk may write: what is proved of    *)
(* CustomerDesk holds in the office.                                       *)
THEOREM DeskImplemented == Spec => DeskAsSpecified
BY DeskInit, DeskNext, Invariance, PTL DEF Spec, DeskAsSpecified, Desk!Spec
=============================================================================
