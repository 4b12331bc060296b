----------------------------- MODULE LeadOffice -----------------------------
(***************************************************************************)
(* CallReport and CustomerDesk over one database: agents report calls on   *)
(* the customers that managers assign, edit and delete at the same time.   *)
(* Each component is the other's environment, and the composition is       *)
(* checked to be a behaviour of both specifications.                       *)
(***************************************************************************)
EXTENDS CustomerTable, FiniteSets, Sequences

CONSTANTS
  CustomerIds, UserIds, Attempts, RequestIds, Inputs, Operations, Requests,
  UserRows, MaxAssign, MaxBatch, NoId, NoTime, MaxTime, DayLength

VARIABLES
  clock, customers, callLogs, summaries, pc, input, reportTime, reply, retried,
  deletedBy, assignmentLogs, users, stage, request, seen, result

(* What the console's edits, and the reports that are not malformed, write *)
(* to a customer.                                                          *)
EditPatches == {r.patch : r \in Requests}
ReportOutcomes ==
  {[status |-> i.callResult, type |-> i.customerType,
    remark |-> IF i.callResult = 1 THEN i.callRemark ELSE Keep]
   : i \in {j \in Inputs : j.customerType \in Types}}

Calls == INSTANCE CallReport WITH Patches <- EditPatches
Desk == INSTANCE CustomerDesk WITH Outcomes <- ReportOutcomes

ASSUME OfficeAssumption ==
  /\ Inputs \subseteq Calls!ReportInput
  /\ Requests \subseteq Desk!DeskRequest

callVars == <<callLogs, summaries, pc, input, reportTime, reply, retried>>
deskVars == <<deletedBy, assignmentLogs, stage, request, seen, result>>
vars == <<clock, customers, users, callVars, deskVars>>

Init == Calls!Init /\ Desk!Init

(* requireAuth and requireRoles([2, 3]) read the agent's row once, before  *)
(* the report's handler starts.                                            *)
MayReport(u) == users[u].status = 1 /\ users[u].role \in {2, 3}

Authorize(a) ==
  \/ MayReport(input[a].user) /\ Calls!Receive(a)
  \/ ~MayReport(input[a].user) /\ Calls!Reject(a)

Report(a) ==
  /\ \/ Authorize(a)
     \/ Calls!LookupRequestId(a) \/ Calls!ReadCustomer(a)
     \/ Calls!WriteBatch(a) \/ Calls!WriteConflict(a) \/ Calls!ResolveConflict(a)
     \/ Calls!Respond(a) \/ Calls!Fail(a)
  /\ UNCHANGED <<users, deskVars>>

Manage(o) == Desk!Handle(o) /\ UNCHANGED <<clock, callVars>>

Tick == Calls!Tick /\ UNCHANGED <<users, deskVars>>

EditUser(u, row) ==
  /\ Desk!UserChanged(u, row)
  /\ UNCHANGED <<clock, callVars>>

Next ==
  \/ \E a \in Attempts : Report(a)
  \/ \E o \in Operations : Manage(o)
  \/ \E u \in Users, row \in UserRows : EditUser(u, row)
  \/ Tick

Spec == Init /\ [][Next]_vars

-----------------------------------------------------------------------------
(* Properties *)

(* To the reports, the console is the environment CallReport assumes, so   *)
(* what is proved of CallReport holds in the office.                       *)
ReportsAsSpecified == Calls!Spec

(* To the console, the reports are the environment CustomerDesk assumes.   *)
DeskAsSpecified == Desk!Spec

(* Only an agent to whom the customer was assigned has a call log for it:  *)
(* the row in assignment_logs is there before the row in call_logs, though *)
(* the customer may have been taken away again in between.                 *)
CallerWasAssigned ==
  \A l \in callLogs : \E i \in 1..Len(assignmentLogs[l.customer]) :
    assignmentLogs[l.customer][i].to = l.user

(* A customer nobody has called or edited is as it was imported: a status  *)
(* other than 0 has a call log, or an edit that was not refused.           *)
StatusHasOrigin ==
  \A c \in Customers : customers[c].status # 0 =>
    \/ \E l \in callLogs : l.customer = c /\ l.callResult = customers[c].status
    \/ \E o \in Operations : /\ request[o].kind \in {"patch", "batch"}
                             /\ c \in request[o].ids /\ result[o].status \in {200, 500}
                             /\ request[o].patch.status = customers[c].status
=============================================================================
