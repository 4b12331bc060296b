----------------------------- MODULE CallReport -----------------------------
(***************************************************************************)
(* POST /api/calls/report: an agent reports the outcome of a call.         *)
(*                                                                         *)
(* An attempt is one request.  Its handler awaits the database up to three *)
(* times (look the request id up, read the customer, write the batch, and  *)
(* after a unique conflict look the id up again); each await is one action *)
(* here, so that handlers of other requests, other Worker isolates, run    *)
(* between them.  db.batch is one D1 transaction, hence one action.  What  *)
(* the other handlers do to the customers table in the meantime is the     *)
(* Environment: one action per statement the repository sends.             *)
(***************************************************************************)
EXTENDS CustomerTable, FiniteSets

CONSTANTS
  CustomerIds,  \* the customer ids a request may name
  Attempts,     \* requests, each handled once
  RequestIds,   \* client_request_id values, chosen by the app
  Inputs,       \* the report bodies the app sends
  Patches,      \* what PATCH and batch-update write to a customer
  NoId, NoTime, \* SQL null in the column of that type
  MaxTime,      \* bound: the last instant of the model
  DayLength     \* instants in a business day (Asia/Shanghai)

Instants == 0..MaxTime
BusinessDate(t) == t \div DayLength
Dates == {BusinessDate(t) : t \in Instants}

ReportInput ==
  [user : Users, customer : CustomerIds, requestId : RequestIds \cup {NoId},
   duration : Nat, callResult : Nat, callRemark : Remarks \cup {NoRemark},
   customerType : Int,
   startedAt : Instants \cup {NoTime}, endedAt : Instants \cup {NoTime}]

(* A row of call_logs.  startedAt is stored and never used again; endedAt  *)
(* is callTime whenever it is given, so callTime stands for both.          *)
CallLog ==
  [id : Attempts, user : Users, customer : Customers,
   requestId : RequestIds \cup {NoId}, callTime : Instants, duration : Nat,
   callResult : Nat, callRemark : Remarks \cup {NoRemark}]

Summary ==
  [totalCalls : Nat, connectedCalls : Nat, totalDuration : Nat,
   firstCallTime : Instants \cup {NoTime}, lastCallTime : Instants \cup {NoTime}]

ASSUME TimeAssumption ==
  /\ MaxTime \in Nat
  /\ DayLength \in Nat \ {0}
  /\ NoTime \notin Int

ASSUME InputAssumption ==
  /\ Inputs \subseteq ReportInput
  /\ Customers \subseteq CustomerIds
  /\ Patches \subseteq Patch

ASSUME IdAssumption ==
  /\ NoId \notin RequestIds
  /\ Attempts \cap RequestIds = {}

VARIABLES
  clock,       \* the time a handler reads with new Date()
  customers,   \* the customers table, by id
  callLogs,    \* the rows of call_logs
  summaries,   \* agent_daily_summaries, by user and date
  pc,          \* what the handler of an attempt awaits next
  input,       \* the body the attempt comes with
  reportTime,  \* endedAt ?? now, once the handler has computed it
  reply,       \* the answer to the attempt
  retried      \* history: its call was in call_logs when the attempt came in

dbVars == <<customers, callLogs, summaries>>
handlerVars == <<pc, input, reportTime, reply, retried>>
vars == <<clock, dbVars, handlerVars>>

-----------------------------------------------------------------------------
(* Answers *)

NoReply == [status |-> 0]
Refuse(code) == [status |-> code]
Accept(customer, date, idempotent) ==
  [status |-> 200, customer |-> customer, date |-> date, idempotent |-> idempotent]

Replies ==
  {NoReply} \cup {Refuse(code) : code \in {400, 401, 403, 404, 500}}
  \cup [status : {200}, customer : CustomerIds, date : Dates, idempotent : BOOLEAN]

(* Rows *)

(* A user has no row for a day until the first call of that day; the      *)
(* service answers a missing row with these values.                        *)
NoSummary ==
  [totalCalls |-> 0, connectedCalls |-> 0, totalDuration |-> 0,
   firstCallTime |-> NoTime, lastCallTime |-> NoTime]

Connected(call) == call.duration > 0 /\ call.callResult = 1

(* Mutant: the seconds of a call nobody answered are counted too.          *)
AccumulateAnyDuration(s, call) ==
  [totalCalls |-> s.totalCalls + 1,
   connectedCalls |-> s.connectedCalls + (IF Connected(call) THEN 1 ELSE 0),
   totalDuration |-> s.totalDuration + call.duration,
   firstCallTime |-> IF s.firstCallTime = NoTime \/ s.firstCallTime > call.callTime
                     THEN call.callTime ELSE s.firstCallTime,
   lastCallTime |-> IF s.lastCallTime = NoTime \/ s.lastCallTime < call.callTime
                    THEN call.callTime ELSE s.lastCallTime]

(* Mutant: the report that arrives last sets the last call time.           *)
AccumulateInArrivalOrder(s, call) ==
  [totalCalls |-> s.totalCalls + 1,
   connectedCalls |-> s.connectedCalls + (IF Connected(call) THEN 1 ELSE 0),
   totalDuration |-> s.totalDuration + (IF Connected(call) THEN call.duration ELSE 0),
   firstCallTime |-> IF s.firstCallTime = NoTime THEN call.callTime ELSE s.firstCallTime,
   lastCallTime |-> call.callTime]

(* insert ... on conflict (user_id, date) do update *)
Accumulate(s, call) ==
  [totalCalls |-> s.totalCalls + 1,
   connectedCalls |-> s.connectedCalls + (IF Connected(call) THEN 1 ELSE 0),
   totalDuration |-> s.totalDuration + (IF Connected(call) THEN call.duration ELSE 0),
   firstCallTime |-> IF s.firstCallTime = NoTime \/ s.firstCallTime > call.callTime
                     THEN call.callTime ELSE s.firstCallTime,
   lastCallTime |-> IF s.lastCallTime = NoTime \/ s.lastCallTime < call.callTime
                    THEN call.callTime ELSE s.lastCallTime]

(* update customers set status, remark, type where id: the remark is left  *)
(* alone unless the call was answered.                                     *)
Outcome(call, type) ==
  [status |-> call.callResult, type |-> type,
   remark |-> IF call.callResult = 1 THEN call.callRemark ELSE Keep]

CallRow(a) ==
  [id |-> a, user |-> input[a].user, customer |-> input[a].customer,
   requestId |-> input[a].requestId, callTime |-> reportTime[a],
   duration |-> input[a].duration, callResult |-> input[a].callResult,
   callRemark |-> IF input[a].callResult = 1 THEN input[a].callRemark ELSE NoRemark]

(* Mutant: the request id is taken for unique across agents.               *)
LogsUnderAnyUser(i) == {l \in callLogs : l.requestId = i.requestId /\ l.requestId # NoId}

(* findCallLogByClientRequestId; null never equals null in SQL. *)
LogsUnder(i) ==
  {l \in callLogs : l.user = i.user /\ l.requestId = i.requestId /\ l.requestId # NoId}

(* findCustomerForCall selects live rows only. *)
Live(c) == c \in Customers /\ customers[c].isDeleted = 0

(* Mutant: the customer type is not checked.                               *)
ValidBodyAnyType(i) ==
  /\ i.callResult = 1 => i.callRemark # NoRemark
  /\ i.startedAt # NoTime /\ i.endedAt # NoTime => i.startedAt <= i.endedAt

ValidBody(i) ==
  /\ i.customerType \in Types
  /\ i.callResult = 1 => i.callRemark # NoRemark
  /\ i.startedAt # NoTime /\ i.endedAt # NoTime => i.startedAt <= i.endedAt

-----------------------------------------------------------------------------
Init ==
  /\ clock = 0
  /\ customers \in [Customers ->
       {[ImportedRow EXCEPT !.owner = u] : u \in Users \cup {NoUser}}]
  /\ callLogs = {}
  /\ summaries = [u \in Users |-> [d \in Dates |-> NoSummary]]
  /\ pc = [a \in Attempts |-> "idle"]
  /\ input \in [Attempts -> Inputs]
  /\ reportTime = [a \in Attempts |-> NoTime]
  /\ reply = [a \in Attempts |-> NoReply]
  /\ retried = [a \in Attempts |-> FALSE]
-----------------------------------------------------------------------------
(* The handler of attempt a *)

Reply(a, r) ==
  /\ pc' = [pc EXCEPT ![a] = "done"]
  /\ reply' = [reply EXCEPT ![a] = r]
  /\ UNCHANGED <<clock, dbVars, input, reportTime, retried>>

Goto(a, label) ==
  /\ pc' = [pc EXCEPT ![a] = label]
  /\ UNCHANGED <<input, reply, retried>>

(* The answer for a call that call_logs already holds. *)
ReplyFromLog(a) ==
  \E l \in LogsUnder(input[a]) :
    Reply(a, Accept(l.customer, BusinessDate(l.callTime), TRUE))

(* Mutant: only the unique index guards against repeats.                   *)
FirstAwaitCustomer(i) == "customer"

(* A report that names its request is looked up before anything is read.  *)
FirstAwait(i) == IF i.requestId # NoId THEN "lookup" ELSE "customer"

(* requireAuth or requireRoles([2, 3]) turns the request away.             *)
Reject(a) ==
  /\ pc[a] = "idle"
  /\ \E code \in {401, 403} : Reply(a, Refuse(code))

(* The controller checks the body and enters the service. *)
Receive(a) ==
  /\ pc[a] = "idle"
  /\ IF ValidBody(input[a])
     THEN /\ pc' = [pc EXCEPT ![a] = FirstAwait(input[a])]
          /\ retried' = [retried EXCEPT ![a] = LogsUnder(input[a]) # {}]
          /\ UNCHANGED <<clock, dbVars, input, reportTime, reply>>
     ELSE Reply(a, Refuse(400))

LookupRequestId(a) ==
  /\ pc[a] = "lookup"
  /\ \/ ReplyFromLog(a)
     \/ /\ LogsUnder(input[a]) = {}
        /\ Goto(a, "customer")
        /\ UNCHANGED <<clock, dbVars, reportTime>>

(* Mutant: the customer's owner is not compared with the caller.           *)
ReadCustomerOfAnybody(a) ==
  /\ pc[a] = "customer"
  /\ LET c == input[a].customer IN
     \/ ~Live(c) /\ Reply(a, Refuse(404))
     \/ /\ Live(c)
        /\ Goto(a, "write")
        /\ reportTime' = [reportTime EXCEPT ![a] =
             IF input[a].endedAt # NoTime THEN input[a].endedAt ELSE clock]
        /\ UNCHANGED <<clock, dbVars>>

(* The customer must be live and the caller's; the report is then dated.   *)
ReadCustomer(a) ==
  /\ pc[a] = "customer"
  /\ LET c == input[a].customer IN
     \/ ~Live(c) /\ Reply(a, Refuse(404))
     \/ Live(c) /\ customers[c].owner # input[a].user /\ Reply(a, Refuse(403))
     \/ /\ Live(c) /\ customers[c].owner = input[a].user
        /\ Goto(a, "write")
        /\ reportTime' = [reportTime EXCEPT ![a] =
             IF input[a].endedAt # NoTime THEN input[a].endedAt ELSE clock]
        /\ UNCHANGED <<clock, dbVars>>

(* Mutant: there is no unique index.                                       *)
ConflictsNever(a) == FALSE

(* call_logs_user_client_request_unique *)
Conflicts(a) == LogsUnder(input[a]) # {}

(* Mutant: whoever reports a customer becomes its owner.                   *)
WriteBatchAndClaim(a) ==
  /\ pc[a] = "write"
  /\ ~Conflicts(a)
  /\ LET call == CallRow(a)
         date == BusinessDate(call.callTime)
     IN /\ callLogs' = callLogs \cup {call}
        /\ customers' = SetOwner(
             PatchRows(customers, {call.customer}, Outcome(call, input[a].customerType)),
             {call.customer}, call.user)
        /\ summaries' = [summaries EXCEPT
             ![call.user][date] = Accumulate(@, call)]
  /\ Goto(a, "respond")
  /\ UNCHANGED <<clock, reportTime>>

(* Mutant: no transaction, and the Worker is cut off after the customer's  *)
(* statement.                                                              *)
WriteBatchCutShort(a) ==
  /\ pc[a] = "write"
  /\ ~Conflicts(a)
  /\ customers' = PatchRows(customers, {input[a].customer},
                             Outcome(CallRow(a), input[a].customerType))
  /\ pc' = [pc EXCEPT ![a] = "done"]
  /\ reply' = [reply EXCEPT ![a] = Refuse(500)]
  /\ UNCHANGED <<clock, callLogs, summaries, input, reportTime, retried>>

(* One transaction: all three statements, or none of them. *)
WriteBatch(a) ==
  /\ pc[a] = "write"
  /\ ~Conflicts(a)
  /\ LET call == CallRow(a)
         date == BusinessDate(call.callTime)
     IN /\ callLogs' = callLogs \cup {call}
        /\ customers' = PatchRows(customers, {call.customer},
                                   Outcome(call, input[a].customerType))
        /\ summaries' = [summaries EXCEPT
             ![call.user][date] = Accumulate(@, call)]
  /\ Goto(a, "respond")
  /\ UNCHANGED <<clock, reportTime>>

(* The unique index refuses the insert, and the transaction rolls back.    *)
WriteConflict(a) ==
  /\ pc[a] = "write"
  /\ Conflicts(a)
  /\ Goto(a, "conflict")
  /\ UNCHANGED <<clock, dbVars, reportTime>>

(* Mutant: after the conflict the attempt answers with its own report.     *)
ResolveWithOwnReport(a) ==
  /\ pc[a] = "conflict"
  /\ Reply(a, Accept(input[a].customer, BusinessDate(reportTime[a]), TRUE))

(* The caught unique error: the winner's row is read and answered with;    *)
(* without such a row the error is thrown on, see Fail.                    *)
ResolveConflict(a) ==
  /\ pc[a] = "conflict"
  /\ ReplyFromLog(a)

Respond(a) ==
  /\ pc[a] = "respond"
  /\ Reply(a, Accept(input[a].customer, BusinessDate(reportTime[a]), FALSE))

(* The client gets an error or nothing at all: a D1 call rejects, the      *)
(* Worker is cut off, or, from "respond", the transaction committed and    *)
(* the news of it is lost.                                                 *)
Fail(a) ==
  /\ pc[a] # "done"
  /\ Reply(a, Refuse(500))

Handle(a) ==
  \/ Reject(a) \/ Receive(a) \/ LookupRequestId(a) \/ ReadCustomer(a)
  \/ WriteBatch(a) \/ WriteConflict(a) \/ ResolveConflict(a)
  \/ Respond(a) \/ Fail(a)

-----------------------------------------------------------------------------
(* The environment: time, and the statements of the other handlers.        *)

Tick ==
  /\ clock < MaxTime
  /\ clock' = clock + 1
  /\ UNCHANGED <<dbVars, handlerVars>>

OwnersChange(ids, owner) ==
  /\ customers' = SetOwner(customers, ids, owner)
  /\ UNCHANGED <<clock, callLogs, summaries, handlerVars>>

CustomerDeleted(c) ==
  /\ customers' = MarkDeleted(customers, c)
  /\ UNCHANGED <<clock, callLogs, summaries, handlerVars>>

CustomersPatched(ids, patch) ==
  /\ customers' = PatchRows(customers, ids, patch)
  /\ UNCHANGED <<clock, callLogs, summaries, handlerVars>>

Environment ==
  \/ Tick
  \/ \E ids \in SUBSET Customers, u \in Users \cup {NoUser} : OwnersChange(ids, u)
  \/ \E c \in Customers : CustomerDeleted(c)
  \/ \E ids \in SUBSET Customers, p \in Patches : CustomersPatched(ids, p)

Next == (\E a \in Attempts : Handle(a)) \/ Environment

Spec == Init /\ [][Next]_vars
-----------------------------------------------------------------------------
(* Properties *)

(* The variables hold rows, labels and answers of the declared kinds.      *)
TypeOK ==
  /\ clock \in Instants
  /\ customers \in [Customers -> CustomerRow]
  /\ callLogs \subseteq CallLog /\ IsFiniteSet(callLogs)
  /\ summaries \in [Users -> [Dates -> Summary]]
  /\ pc \in [Attempts -> {"idle", "lookup", "customer", "write", "conflict",
                          "respond", "done"}]
  /\ input \in [Attempts -> Inputs]
  /\ reportTime \in [Attempts -> Instants \cup {NoTime}]
  /\ reply \in [Attempts -> Replies]
  /\ retried \in [Attempts -> BOOLEAN]

(* However many attempts an agent sends under one clientRequestId, and     *)
(* however their handlers interleave between the look-up and the write,    *)
(* call_logs holds one row for it: a repeated request inserts nothing.     *)
OneLogPerRequest ==
  \A k, l \in callLogs :
    k.requestId # NoId /\ k.requestId = l.requestId /\ k.user = l.user => k = l

(* An answer 200 speaks of a row that is in call_logs: the row of the      *)
(* attempt's own request id (or, without one, its own row), with the       *)
(* customer and the business day the answer names.  So all the answers 200 *)
(* to one request id agree, also those read after a lost race.             *)
SpeaksOf(r, a, l) ==
  /\ l.user = input[a].user
  /\ l.requestId = input[a].requestId
  /\ l.requestId = NoId => l.id = a
  /\ l.customer = r.customer
  /\ BusinessDate(l.callTime) = r.date

AcceptedIsLogged ==
  \A a \in Attempts :
    reply[a].status = 200 => \E l \in callLogs : SpeaksOf(reply[a], a, l)

(* A retry of a call that is already recorded is never refused, not even   *)
(* when the customer was reassigned or deleted since: the request id is    *)
(* looked up before the customer is.                                       *)
RetryIsNeverRefused ==
  \A a \in Attempts : retried[a] => reply[a].status \notin {403, 404}

CallsOn(u, d) == {l \in callLogs : l.user = u /\ BusinessDate(l.callTime) = d}
ConnectedCallsOn(u, d) == {l \in CallsOn(u, d) : Connected(l)}
Seconds(calls) == UNION {{l} \X (1..l.duration) : l \in calls}

(* The day's summary of an agent counts exactly the agent's rows of that   *)
(* business day: the calls, the connected calls and the seconds talked.    *)
(* No retry, race or partial failure counts a call twice or not at all.    *)
SummaryTotalsMatchLogs ==
  \A u \in Users, d \in Dates :
    /\ summaries[u][d].totalCalls = Cardinality(CallsOn(u, d))
    /\ summaries[u][d].connectedCalls = Cardinality(ConnectedCallsOn(u, d))
    /\ summaries[u][d].totalDuration = Cardinality(Seconds(ConnectedCallsOn(u, d)))

(* first_call_time and last_call_time are the earliest and the latest call *)
(* of the day, in whatever order offline reports arrive.                   *)
Spans(s, calls) ==
  IF calls = {}
  THEN s.firstCallTime = NoTime /\ s.lastCallTime = NoTime
  ELSE /\ \E l \in calls : l.callTime = s.firstCallTime
       /\ \E l \in calls : l.callTime = s.lastCallTime
       /\ \A l \in calls : s.firstCallTime <= l.callTime /\ l.callTime <= s.lastCallTime

SummaryTimesMatchLogs ==
  \A u \in Users, d \in Dates : Spans(summaries[u][d], CallsOn(u, d))

(* The handlers implement the call ledger: see CallLedger.                 *)
CallName(requestId, id) == IF requestId = NoId THEN id ELSE requestId

LedgerEntry(l) ==
  [user |-> l.user, call |-> CallName(l.requestId, l.id),
   customer |-> l.customer, date |-> BusinessDate(l.callTime)]

LedgerAnswer(a) ==
  IF reply[a].status # 200 THEN {}
  ELSE {[user |-> input[a].user, call |-> CallName(input[a].requestId, a),
         customer |-> reply[a].customer, date |-> reply[a].date]}

Ledger == INSTANCE CallLedger WITH
  Entries <- [user : Users, call : Attempts \cup RequestIds,
              customer : Customers, date : Dates],
  ledger <- {LedgerEntry(l) : l \in callLogs},
  answer <- [a \in Attempts |-> LedgerAnswer(a)]

(* Every run of the handlers, races, retries and failures included, is a   *)
(* run of the ledger that records a call once and acknowledges it as       *)
(* recorded.                                                               *)
ImplementsLedger == Ledger!Spec

(* docs/api.md:1383: only live customers that belong to the caller can be  *)
(* reported.                                                               *)
ReportsOnlyOwnLiveCustomers ==
  [][\A l \in callLogs' \ callLogs :
       customers[l.customer].isDeleted = 0 /\ customers[l.customer].owner = l.user]_vars
=============================================================================
