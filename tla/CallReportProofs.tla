-------------------------- MODULE CallReportProofs --------------------------
(***************************************************************************)
(* Proofs about CallReport, for any number of agents, customers, attempts, *)
(* request ids and report bodies, and about the Dashboard that is read     *)
(* meanwhile, for any dates from 2000 on.                                  *)
(***************************************************************************)
EXTENDS Dashboard, FiniteSetTheorems, WellFoundedInduction, TLAPS

(* What holds of an attempt whose handler has got past a check.            *)
PastChecks ==
  \A a \in Attempts :
    /\ pc[a] \in {"lookup", "customer", "write", "conflict", "respond"} =>
         input[a].customerType \in Types
    /\ pc[a] \in {"write", "conflict", "respond"} =>
         input[a].customer \in Customers /\ reportTime[a] \in Instants
    /\ pc[a] # "done" => reply[a] = NoReply

Typed == TypeOK /\ PastChecks

-----------------------------------------------------------------------------
(* Lemmas about rows *)

(* The date of an instant of the model is a date of the model.             *)
LEMMA DateType == \A t \in Instants : BusinessDate(t) \in Dates
BY DEF Dates

(* What a report writes to a customer is a patch.                          *)
LEMMA OutcomeType ==
  ASSUME NEW call \in CallLog, NEW type \in Types
  PROVE  Outcome(call, type) \in Patch
BY DEF Outcome, Patch, CallLog

(* A patch leaves a customer row a customer row.                           *)
LEMMA PatchedType ==
  ASSUME NEW row \in CustomerRow, NEW patch \in Patch
  PROVE  Patched(row, patch) \in CustomerRow
<1>1. SetField(row.status, patch.status) \in Nat
  BY DEF SetField, CustomerRow, Patch
<1>2. SetField(row.type, patch.type) \in Types
  BY DEF SetField, CustomerRow, Patch
<1>3. SetField(row.remark, patch.remark) \in Remarks \cup {NoRemark}
  BY DEF SetField, CustomerRow, Patch
<1> QED  BY <1>1, <1>2, <1>3 DEF Patched, CustomerRow

(* Adding a call to a summary gives a summary.                             *)
LEMMA AccumulateType ==
  ASSUME NEW s \in Summary, NEW call \in CallLog
  PROVE  Accumulate(s, call) \in Summary
BY TimeAssumption DEF Accumulate, Summary, CallLog, Instants

(* The row an attempt writes is a row of call_logs.                        *)
LEMMA CallRowType ==
  ASSUME Typed, NEW a \in Attempts, pc[a] \in {"write", "conflict", "respond"}
  PROVE  CallRow(a) \in CallLog
BY InputAssumption DEF Typed, TypeOK, PastChecks, CallRow, CallLog, ReportInput

(* The row a look-up finds dates an answer.                                *)
LEMMA FoundType ==
  ASSUME Typed, NEW i, NEW l \in LogsUnder(i)
  PROVE  /\ l \in CallLog
         /\ Accept(l.customer, BusinessDate(l.callTime), TRUE) \in Replies
<1>1. l \in CallLog
  BY DEF Typed, TypeOK, LogsUnder
<1>2. l.customer \in CustomerIds /\ BusinessDate(l.callTime) \in Dates
  BY <1>1, DateType, InputAssumption DEF CallLog
<1> QED  BY <1>1, <1>2 DEF Accept, Replies

-----------------------------------------------------------------------------
(* Type correctness *)

(* The initial tables and handlers are typed.                              *)
LEMMA TypedInit == Init => Typed
<1> SUFFICES ASSUME Init PROVE Typed
  OBVIOUS
<1>1. customers \in [Customers -> CustomerRow]
  BY DEF Init, CustomerRow, ImportedRow, Types
<1>2. NoSummary \in Summary
  BY DEF NoSummary, Summary
<1>3. callLogs \subseteq CallLog /\ IsFiniteSet(callLogs)
  BY FS_EmptySet DEF Init
<1>4. clock \in Instants
  BY TimeAssumption DEF Init, Instants
<1> QED  BY <1>1, <1>2, <1>3, <1>4 DEF Init, Typed, TypeOK, PastChecks, Replies

(* Answering an attempt changes its label and its answer only.             *)
LEMMA TypedReply ==
  ASSUME Typed, NEW a \in Attempts, NEW r \in Replies, Reply(a, r)
  PROVE  Typed'
BY DEF Typed, TypeOK, PastChecks, Reply, dbVars

(* Every step, of a handler or of the environment, keeps the types.        *)
LEMMA TypedNext == Typed /\ [Next]_vars => Typed'
<1> SUFFICES ASSUME Typed, [Next]_vars PROVE Typed'
  OBVIOUS
<1> USE DEF Typed
<1>1. ASSUME NEW a \in Attempts, Receive(a) PROVE Typed'
  <2>1. CASE ValidBody(input[a])
    <3>1. /\ pc' = [pc EXCEPT ![a] = FirstAwait(input[a])]
          /\ retried' = [retried EXCEPT ![a] = LogsUnder(input[a]) # {}]
          /\ UNCHANGED <<clock, customers, callLogs, summaries, input, reportTime, reply>>
      BY <1>1, <2>1 DEF Receive, dbVars
    <3>2. FirstAwait(input[a]) \in {"lookup", "customer"} /\ input[a].customerType \in Types
      BY <2>1 DEF FirstAwait, ValidBody
    <3>3. (LogsUnder(input[a]) # {}) \in BOOLEAN
      OBVIOUS
    <3>4. retried' \in [Attempts -> BOOLEAN]
      BY <3>1, <3>3, Zenon DEF TypeOK
    <3>5. PastChecks'
      <4>1. \A b \in Attempts : b # a => pc'[b] = pc[b]
        BY <3>1 DEF TypeOK
      <4>2. pc[a] = "idle" /\ pc'[a] \in {"lookup", "customer"}
        BY <1>1, <3>1, <3>2 DEF TypeOK, Receive
      <4> QED  BY <3>1, <3>2, <4>1, <4>2 DEF PastChecks
    <3> QED  BY <3>1, <3>2, <3>4, <3>5 DEF TypeOK
  <2>2. CASE ~ValidBody(input[a])
    BY <1>1, <2>2, TypedReply DEF Receive, Replies
  <2> QED  BY <2>1, <2>2
<1>2. ASSUME NEW a \in Attempts, LookupRequestId(a) PROVE Typed'
  <2>1. CASE ReplyFromLog(a)
    BY <2>1, FoundType, TypedReply DEF ReplyFromLog
  <2>2. CASE ~ReplyFromLog(a)
    BY <1>2, <2>2 DEF TypeOK, PastChecks, LookupRequestId, Goto, dbVars
  <2> QED  BY <2>1, <2>2
<1>3. ASSUME NEW a \in Attempts, ReadCustomer(a) PROVE Typed'
  <2>1. CASE Reply(a, Refuse(404)) \/ Reply(a, Refuse(403))
    BY <2>1, TypedReply DEF Replies
  <2>2. CASE /\ pc[a] = "customer" /\ Live(input[a].customer)
             /\ Goto(a, "write")
             /\ reportTime' = [reportTime EXCEPT ![a] =
                  IF input[a].endedAt # NoTime THEN input[a].endedAt ELSE clock]
             /\ UNCHANGED <<clock, dbVars>>
    <3>1. (IF input[a].endedAt # NoTime THEN input[a].endedAt ELSE clock) \in Instants
      BY InputAssumption DEF TypeOK, ReportInput
    <3> QED  BY <2>2, <3>1 DEF TypeOK, PastChecks, Goto, Live, dbVars
  <2> QED  BY <1>3, <2>1, <2>2 DEF ReadCustomer
<1>4. ASSUME NEW a \in Attempts, WriteBatch(a) PROVE Typed'
  <2> DEFINE call == CallRow(a)
             date == BusinessDate(call.callTime)
  <2>1. pc[a] = "write" /\ input[a] \in ReportInput
    BY <1>4, InputAssumption DEF WriteBatch, TypeOK
  <2>2. call \in CallLog
    BY <2>1, CallRowType
  <2>3. call.customer \in Customers /\ call.user \in Users /\ date \in Dates
    BY <2>2, DateType DEF CallLog
  <2>4. input[a].customerType \in Types
    BY <2>1 DEF PastChecks
  <2>5. customers' \in [Customers -> CustomerRow]
    <3>1. Patched(customers[call.customer], Outcome(call, input[a].customerType))
            \in CustomerRow
      BY <2>2, <2>3, <2>4, OutcomeType, PatchedType DEF TypeOK
    <3> QED  BY <1>4, <2>3, <3>1 DEF TypeOK, WriteBatch, PatchRows
  <2>6. summaries' \in [Users -> [Dates -> Summary]]
    <3>1. Accumulate(summaries[call.user][date], call) \in Summary
      BY <2>2, <2>3, AccumulateType DEF TypeOK
    <3> QED  BY <1>4, <2>3, <3>1 DEF TypeOK, WriteBatch
  <2>7. callLogs' \subseteq CallLog /\ IsFiniteSet(callLogs')
    BY <1>4, <2>2, FS_AddElement DEF TypeOK, WriteBatch
  <2>8. UNCHANGED <<clock, input, reportTime, reply, retried>>
        /\ pc' = [pc EXCEPT ![a] = "respond"]
    BY <1>4 DEF WriteBatch, Goto
  <2> QED  BY <2>1, <2>5, <2>6, <2>7, <2>8 DEF TypeOK, PastChecks
<1>5. ASSUME NEW a \in Attempts, WriteConflict(a) PROVE Typed'
  BY <1>5 DEF TypeOK, PastChecks, WriteConflict, Goto, dbVars
<1>6. ASSUME NEW a \in Attempts, ResolveConflict(a) PROVE Typed'
  BY <1>6, FoundType, TypedReply DEF ResolveConflict, ReplyFromLog
<1>7. ASSUME NEW a \in Attempts, Respond(a) PROVE Typed'
  <2>1. input[a].customer \in CustomerIds /\ BusinessDate(reportTime[a]) \in Dates
    BY <1>7, DateType, InputAssumption DEF Respond, PastChecks
  <2>2. Accept(input[a].customer, BusinessDate(reportTime[a]), FALSE) \in Replies
    BY <2>1 DEF Accept, Replies
  <2> QED  BY <1>7, <2>2, TypedReply DEF Respond
<1>8. ASSUME NEW a \in Attempts, Fail(a) \/ Reject(a) PROVE Typed'
  BY <1>8, TypedReply DEF Fail, Reject, Replies
<1>9. ASSUME Environment PROVE Typed'
  <2>1. CASE Tick
    BY <2>1, TimeAssumption DEF TypeOK, PastChecks, Tick, Instants, dbVars, handlerVars
  <2>2. ASSUME NEW ids \in SUBSET Customers, NEW u \in Users \cup {NoUser},
               OwnersChange(ids, u)
        PROVE  Typed'
    <3>1. \A c \in Customers : [customers[c] EXCEPT !.owner = u] \in CustomerRow
      BY DEF TypeOK, CustomerRow
    <3>2. customers' \in [Customers -> CustomerRow]
      BY <2>2, <3>1 DEF TypeOK, OwnersChange, SetOwner
    <3> QED  BY <2>2, <3>2 DEF TypeOK, PastChecks, OwnersChange, handlerVars
  <2>3. ASSUME NEW c \in Customers, CustomerDeleted(c) PROVE Typed'
    <3>1. [customers[c] EXCEPT !.isDeleted = 1] \in CustomerRow
      BY DEF TypeOK, CustomerRow
    <3>2. customers' \in [Customers -> CustomerRow]
      BY <2>3, <3>1 DEF TypeOK, CustomerDeleted, MarkDeleted
    <3> QED  BY <2>3, <3>2 DEF TypeOK, PastChecks, CustomerDeleted, handlerVars
  <2>4. ASSUME NEW ids \in SUBSET Customers, NEW p \in Patches, CustomersPatched(ids, p)
        PROVE  Typed'
    <3>1. \A c \in Customers : Patched(customers[c], p) \in CustomerRow
      BY PatchedType, InputAssumption DEF TypeOK
    <3>2. customers' \in [Customers -> CustomerRow]
      BY <2>4, <3>1 DEF TypeOK, CustomersPatched, PatchRows
    <3> QED  BY <2>4, <3>2 DEF TypeOK, PastChecks, CustomersPatched, handlerVars
  <2> QED  BY <1>9, <2>1, <2>2, <2>3, <2>4 DEF Environment
<1>10. CASE UNCHANGED vars
  BY <1>10 DEF TypeOK, PastChecks, vars, dbVars, handlerVars
<1> QED
  BY <1>1, <1>2, <1>3, <1>4, <1>5, <1>6, <1>7, <1>8, <1>9, <1>10 DEF Next, Handle

(* The tables, the labels and the answers keep their types.                *)
THEOREM TypeCorrect == Spec => []Typed
BY TypedInit, TypedNext, PTL DEF Spec

(* So does the declared type invariant alone.                              *)
THEOREM TypesHold == Spec => []TypeOK
<1>1. Typed => TypeOK
  BY DEF Typed
<1> QED  BY <1>1, TypeCorrect, PTL

-----------------------------------------------------------------------------
(* The call log *)

(* A row is what its attempt wrote, and an attempt that is about to answer *)
(* has written its row: what the log's properties need to be inductive.    *)
RowsAreWritten ==
  \A l \in callLogs : pc[l.id] \in {"respond", "done"} /\ l = CallRow(l.id)

WrittenHasRow ==
  \A a \in Attempts : pc[a] = "respond" => CallRow(a) \in callLogs

LogInv == RowsAreWritten /\ WrittenHasRow /\ OneLogPerRequest /\ AcceptedIsLogged

(* An empty log satisfies its invariant.                                   *)
LEMMA LogInit == Init => LogInv
BY DEF Init, LogInv, RowsAreWritten, WrittenHasRow, OneLogPerRequest,
       AcceptedIsLogged, NoReply

(* An answer keeps the log's invariant if it is an error or speaks of a row. *)
LEMMA LogReply ==
  ASSUME Typed, LogInv, NEW a \in Attempts, NEW r, Reply(a, r),
         r.status = 200 => \E l \in callLogs : SpeaksOf(r, a, l)
  PROVE  LogInv'
<1>1. /\ pc' = [pc EXCEPT ![a] = "done"] /\ reply' = [reply EXCEPT ![a] = r]
      /\ UNCHANGED <<callLogs, input, reportTime>>
  BY DEF Reply, dbVars
<1>2. \A b : CallRow(b)' = CallRow(b)
  BY <1>1 DEF CallRow
<1>3. RowsAreWritten' /\ WrittenHasRow'
  BY <1>1, <1>2 DEF LogInv, RowsAreWritten, WrittenHasRow, Typed, TypeOK, CallLog
<1>4. OneLogPerRequest'
  BY <1>1 DEF LogInv, OneLogPerRequest
<1>5. AcceptedIsLogged'
  <2> SUFFICES ASSUME NEW b \in Attempts, reply'[b].status = 200
               PROVE  \E l \in callLogs : SpeaksOf(reply'[b], b, l)
    BY <1>1 DEF AcceptedIsLogged, SpeaksOf
  <2>1. CASE b = a
    BY <1>1, <2>1 DEF Typed, TypeOK
  <2>2. CASE b # a
    BY <1>1, <2>2 DEF Typed, TypeOK, LogInv, AcceptedIsLogged
  <2> QED  BY <2>1, <2>2
<1> QED  BY <1>3, <1>4, <1>5 DEF LogInv

(* So does a step that leaves the log, the answers and the bodies alone    *)
(* and does not move an attempt from or to the answering labels.           *)
LEMMA LogStutter ==
  ASSUME Typed, LogInv, UNCHANGED <<callLogs, input, reply>>,
         \A b \in Attempts :
           /\ pc[b] \in {"respond", "done"} =>
                pc'[b] = pc[b] /\ reportTime'[b] = reportTime[b]
           /\ pc'[b] = "respond" => pc[b] = "respond"
  PROVE  LogInv'
<1>1. \A b \in Attempts : pc[b] \in {"respond", "done"} => CallRow(b)' = CallRow(b)
  BY DEF CallRow
<1>2. RowsAreWritten' /\ WrittenHasRow'
  BY <1>1 DEF LogInv, RowsAreWritten, WrittenHasRow, Typed, TypeOK, CallLog
<1>3. OneLogPerRequest' /\ AcceptedIsLogged'
  BY DEF LogInv, OneLogPerRequest, AcceptedIsLogged, SpeaksOf
<1> QED  BY <1>2, <1>3 DEF LogInv

(* Every step keeps the log's invariant: only WriteBatch adds a row, and   *)
(* only when the request id has none.                                      *)
LEMMA LogNext == Typed /\ LogInv /\ [Next]_vars => LogInv'
<1> SUFFICES ASSUME Typed, LogInv, [Next]_vars PROVE LogInv'
  OBVIOUS
<1>0. ASSUME NEW a \in Attempts, ReplyFromLog(a) PROVE LogInv'
  <2>1. PICK l \in LogsUnder(input[a]) :
               Reply(a, Accept(l.customer, BusinessDate(l.callTime), TRUE))
    BY <1>0 DEF ReplyFromLog
  <2>2. SpeaksOf(Accept(l.customer, BusinessDate(l.callTime), TRUE), a, l) /\ l \in callLogs
    BY DEF SpeaksOf, Accept, LogsUnder
  <2> QED  BY <2>1, <2>2, LogReply
<1>e. ASSUME NEW a \in Attempts, NEW code \in {400, 401, 403, 404, 500}, Reply(a, Refuse(code))
      PROVE  LogInv'
  BY <1>e, LogReply DEF Refuse
<1>1. ASSUME NEW a \in Attempts, Receive(a) PROVE LogInv'
  <2>1. CASE ValidBody(input[a])
    <3>1. pc[a] = "idle" /\ pc' = [pc EXCEPT ![a] = FirstAwait(input[a])]
          /\ UNCHANGED <<callLogs, input, reply, reportTime>>
      BY <1>1, <2>1 DEF Receive, dbVars
    <3> QED  BY <3>1, LogStutter DEF FirstAwait, Typed, TypeOK
  <2>2. CASE ~ValidBody(input[a])
    BY <1>1, <2>2, <1>e DEF Receive
  <2> QED  BY <2>1, <2>2
<1>2. ASSUME NEW a \in Attempts, LookupRequestId(a) PROVE LogInv'
  <2>1. CASE Goto(a, "customer") /\ UNCHANGED <<clock, dbVars, reportTime>>
    BY <1>2, <2>1, LogStutter DEF LookupRequestId, Goto, dbVars, Typed, TypeOK
  <2> QED  BY <1>2, <1>0, <2>1 DEF LookupRequestId
<1>3. ASSUME NEW a \in Attempts, ReadCustomer(a) PROVE LogInv'
  <2>1. CASE Reply(a, Refuse(404)) \/ Reply(a, Refuse(403))
    BY <2>1, <1>e
  <2>2. CASE ~(Reply(a, Refuse(404)) \/ Reply(a, Refuse(403)))
    <3>1. /\ pc[a] = "customer" /\ pc' = [pc EXCEPT ![a] = "write"]
          /\ UNCHANGED <<callLogs, input, reply>>
          /\ \A b \in Attempts : b # a => reportTime'[b] = reportTime[b]
      BY <1>3, <2>2 DEF ReadCustomer, Goto, dbVars, Typed, TypeOK
    <3> QED  BY <3>1, LogStutter DEF Typed, TypeOK
  <2> QED  BY <2>1, <2>2
<1>4. ASSUME NEW a \in Attempts, WriteBatch(a) PROVE LogInv'
  <2>1. /\ pc[a] = "write" /\ ~Conflicts(a)
        /\ pc' = [pc EXCEPT ![a] = "respond"]
        /\ callLogs' = callLogs \cup {CallRow(a)}
        /\ UNCHANGED <<input, reportTime, reply>>
    BY <1>4 DEF WriteBatch, Goto
  <2>2. \A b : CallRow(b)' = CallRow(b)
    BY <2>1 DEF CallRow
  <2>3. CallRow(a).id = a
    BY DEF CallRow
  <2>4. RowsAreWritten'
    BY <2>1, <2>2, <2>3 DEF LogInv, RowsAreWritten, Typed, TypeOK, CallLog
  <2>5. WrittenHasRow'
    BY <2>1, <2>2 DEF LogInv, WrittenHasRow, Typed, TypeOK
  <2>6. OneLogPerRequest'
    <3>1. \A l \in callLogs :
            ~(l.requestId # NoId /\ l.requestId = CallRow(a).requestId
              /\ l.user = CallRow(a).user)
      BY <2>1 DEF Conflicts, LogsUnder, CallRow
    <3> QED  BY <2>1, <3>1 DEF LogInv, OneLogPerRequest
  <2>7. AcceptedIsLogged'
    BY <2>1 DEF LogInv, AcceptedIsLogged, SpeaksOf
  <2> QED  BY <2>4, <2>5, <2>6, <2>7 DEF LogInv
<1>5. ASSUME NEW a \in Attempts, WriteConflict(a) PROVE LogInv'
  BY <1>5, LogStutter DEF WriteConflict, Goto, dbVars, Typed, TypeOK
<1>6. ASSUME NEW a \in Attempts, ResolveConflict(a) PROVE LogInv'
  BY <1>6, <1>0 DEF ResolveConflict
<1>7. ASSUME NEW a \in Attempts, Respond(a) PROVE LogInv'
  <2> DEFINE r == Accept(input[a].customer, BusinessDate(reportTime[a]), FALSE)
  <2>1. CallRow(a) \in callLogs
    BY <1>7 DEF Respond, LogInv, WrittenHasRow
  <2>2. SpeaksOf(r, a, CallRow(a))
    BY DEF SpeaksOf, Accept, CallRow
  <2> QED  BY <1>7, <2>1, <2>2, LogReply DEF Respond
<1>8. ASSUME NEW a \in Attempts, Fail(a) \/ Reject(a) PROVE LogInv'
  BY <1>8, <1>e DEF Fail, Reject
<1>9. CASE Environment \/ UNCHANGED vars
  BY <1>9, LogStutter DEF Environment, Tick, OwnersChange, CustomerDeleted,
       CustomersPatched, vars, dbVars, handlerVars
<1> QED
  BY <1>1, <1>2, <1>3, <1>4, <1>5, <1>6, <1>7, <1>8, <1>9 DEF Next, Handle

(* The strengthened invariant of call_logs and of the answers holds.       *)
THEOREM LogCorrect == Spec => []LogInv
BY LogInit, LogNext, TypeCorrect, PTL DEF Spec

(* A clientRequestId is recorded at most once per agent, for any number of *)
(* attempts and any interleaving of their handlers.                        *)
THEOREM Idempotent == Spec => []OneLogPerRequest
<1>1. LogInv => OneLogPerRequest
  BY DEF LogInv
<1> QED  BY <1>1, LogCorrect, PTL

(* Every answer 200 speaks of a row of call_logs under its own request id. *)
THEOREM AcceptedCallsAreLogged == Spec => []AcceptedIsLogged
<1>1. LogInv => AcceptedIsLogged
  BY DEF LogInv
<1> QED  BY <1>1, LogCorrect, PTL

-----------------------------------------------------------------------------
(* Retries of recorded calls *)

(* A retry is still before its look-up, or answered; its row stays.        *)
RetryInv ==
  \A a \in Attempts :
    retried[a] => /\ LogsUnder(input[a]) # {}
                  /\ pc[a] \in {"lookup", "done"}
                  /\ reply[a].status \notin {403, 404}

(* A handler step that leaves its attempt's history alone.                 *)
LEMMA RetryStep ==
  ASSUME Typed, RetryInv, UNCHANGED <<input, retried>>, callLogs \subseteq callLogs',
         NEW a \in Attempts,
         \A b \in Attempts : b # a => pc'[b] = pc[b] /\ reply'[b] = reply[b],
         retried[a] => pc'[a] = "done" /\ reply'[a].status \notin {403, 404}
  PROVE  RetryInv'
<1> SUFFICES ASSUME NEW b \in Attempts, retried[b]
             PROVE  /\ (LogsUnder(input[b]) # {})'
                    /\ pc'[b] \in {"lookup", "done"}
                    /\ reply'[b].status \notin {403, 404}
  BY DEF RetryInv
<1>1. PICK l : l \in LogsUnder(input[b])
  BY DEF RetryInv
<1>2. l \in LogsUnder(input[b])'
  BY <1>1 DEF LogsUnder
<1> QED  BY <1>2 DEF RetryInv

(* Every step keeps what is known of retries.                              *)
LEMMA RetryNext == Typed /\ RetryInv /\ [Next]_vars => RetryInv'
<1> SUFFICES ASSUME Typed, RetryInv, [Next]_vars PROVE RetryInv'
  OBVIOUS
<1>e. ASSUME NEW a \in Attempts, NEW r, Reply(a, r),
             retried[a] => r.status \notin {403, 404}
      PROVE  RetryInv'
  BY <1>e, RetryStep DEF Reply, dbVars, Typed, TypeOK
<1>0. ASSUME NEW a \in Attempts, ReplyFromLog(a) PROVE RetryInv'
  BY <1>0, <1>e DEF ReplyFromLog, Accept
<1>1. ASSUME NEW a \in Attempts, Receive(a) PROVE RetryInv'
  <2>1. CASE ValidBody(input[a])
    <3>1. /\ pc[a] = "idle" /\ pc' = [pc EXCEPT ![a] = FirstAwait(input[a])]
          /\ retried' = [retried EXCEPT ![a] = LogsUnder(input[a]) # {}]
          /\ UNCHANGED <<callLogs, input, reply>>
      BY <1>1, <2>1 DEF Receive, dbVars
    <3>2. \A b : LogsUnder(input[b])' = LogsUnder(input[b])
      BY <3>1 DEF LogsUnder
    <3>3. \A b \in Attempts : b # a => pc'[b] = pc[b] /\ reply'[b] = reply[b]
      BY <3>1 DEF Typed, TypeOK
    <3>r. \A b \in Attempts : b # a => (retried'[b] <=> retried[b])
      BY <3>1, Zenon DEF Typed, TypeOK
    <3>4. retried'[a] => LogsUnder(input[a]) # {}
      BY <3>1, Zenon DEF Typed, TypeOK
    <3>5. LogsUnder(input[a]) # {} => pc'[a] = "lookup"
      BY <3>1 DEF LogsUnder, FirstAwait, Typed, TypeOK
    <3>6. reply'[a].status \notin {403, 404}
      BY <3>1 DEF Typed, TypeOK, PastChecks, NoReply
    <3> QED  BY <3>2, <3>3, <3>r, <3>4, <3>5, <3>6 DEF RetryInv
  <2>2. CASE ~ValidBody(input[a])
    BY <1>1, <2>2, <1>e DEF Receive, Refuse
  <2> QED  BY <2>1, <2>2
<1>2. ASSUME NEW a \in Attempts, LookupRequestId(a) PROVE RetryInv'
  <2>1. CASE LogsUnder(input[a]) = {} /\ Goto(a, "customer")
             /\ UNCHANGED <<clock, dbVars, reportTime>>
    BY <2>1, RetryStep DEF Goto, dbVars, RetryInv, Typed, TypeOK
  <2> QED  BY <1>2, <1>0, <2>1 DEF LookupRequestId
<1>3. ASSUME NEW a \in Attempts,
             ReadCustomer(a) \/ WriteBatch(a) \/ WriteConflict(a) \/ Respond(a)
      PROVE  RetryInv'
  <2>1. ~retried[a]
    BY <1>3 DEF RetryInv, ReadCustomer, WriteBatch, WriteConflict, Respond
  <2>2. /\ UNCHANGED <<input, retried>> /\ callLogs \subseteq callLogs'
        /\ \A b \in Attempts : b # a => pc'[b] = pc[b] /\ reply'[b] = reply[b]
    BY <1>3 DEF ReadCustomer, WriteBatch, WriteConflict, Respond, Reply, Goto, dbVars,
         Typed, TypeOK
  <2> QED  BY <2>1, <2>2, RetryStep
<1>4. ASSUME NEW a \in Attempts, ResolveConflict(a) PROVE RetryInv'
  BY <1>4, <1>0 DEF ResolveConflict
<1>5. ASSUME NEW a \in Attempts, Fail(a) \/ Reject(a) PROVE RetryInv'
  <2>1. CASE Fail(a)
    BY <2>1, <1>e DEF Fail, Refuse
  <2>2. CASE Reject(a)
    <3>1. ~retried[a]
      BY <2>2 DEF RetryInv, Reject
    <3> QED  BY <2>2, <3>1, <1>e DEF Reject
  <2> QED  BY <1>5, <2>1, <2>2
<1>6. CASE Environment \/ UNCHANGED vars
  <2>1. UNCHANGED <<callLogs, input, retried, pc, reply>>
    BY <1>6 DEF Environment, Tick, OwnersChange, CustomerDeleted, CustomersPatched,
         vars, dbVars, handlerVars
  <2> QED  BY <2>1 DEF RetryInv, LogsUnder
<1> QED
  BY <1>1, <1>2, <1>3, <1>4, <1>5, <1>6 DEF Next, Handle

(* A retry of a recorded call is never refused, whatever happened to the   *)
(* customer in the meantime.                                               *)
THEOREM RetriesAreNotRefused == Spec => []RetryIsNeverRefused
<1>1. Init => RetryInv
  BY DEF Init, RetryInv
<1>2. RetryInv => RetryIsNeverRefused
  BY DEF RetryInv, RetryIsNeverRefused
<1> QED  BY <1>1, <1>2, RetryNext, TypeCorrect, PTL DEF Spec

-----------------------------------------------------------------------------
(* Refinement of the call ledger *)

(* Initial states map to the empty ledger.                                 *)
LEMMA LedgerInit == Init => Ledger!Init
<1> SUFFICES ASSUME Init PROVE Ledger!Init
  OBVIOUS
<1>1. \A a \in Attempts : LedgerAnswer(a) = {}
  BY DEF Init, LedgerAnswer, NoReply
<1>2. {LedgerEntry(l) : l \in callLogs} = {}
  BY DEF Init
<1> QED  BY <1>1, <1>2 DEF Ledger!Init

(* A row of call_logs maps to an entry the ledger can hold.                *)
LEMMA EntryType ==
  ASSUME NEW l \in CallLog
  PROVE  LedgerEntry(l) \in [user : Users, call : Attempts \cup RequestIds,
                             customer : Customers, date : Dates]
BY DateType DEF CallLog, LedgerEntry, CallName

(* The ledger does not notice an answer that is an error ...               *)
LEMMA LedgerRefuses ==
  ASSUME Typed, NEW a \in Attempts, NEW r, Reply(a, r), r.status # 200, pc[a] # "done"
  PROVE  UNCHANGED Ledger!ledgerVars
<1>1. /\ reply' = [reply EXCEPT ![a] = r] /\ UNCHANGED <<callLogs, input>>
  BY DEF Reply, dbVars
<1>2. reply[a].status # 200
  BY DEF Typed, PastChecks, NoReply
<1>3. ASSUME NEW b \in Attempts PROVE LedgerAnswer(b)' = LedgerAnswer(b)
  <2>1. CASE b = a
    <3>1. reply'[a].status # 200
      BY <1>1 DEF Typed, TypeOK
    <3> QED  BY <2>1, <3>1, <1>2 DEF LedgerAnswer
  <2>2. CASE b # a
    BY <1>1, <2>2 DEF LedgerAnswer, Typed, TypeOK
  <2> QED  BY <2>1, <2>2
<1>4. [b \in Attempts |-> LedgerAnswer(b)]' = [b \in Attempts |-> LedgerAnswer(b)]
  BY <1>3
<1>5. {LedgerEntry(l) : l \in callLogs}' = {LedgerEntry(l) : l \in callLogs}
  BY <1>1 DEF LedgerEntry
<1> QED  BY <1>4, <1>5 DEF Ledger!ledgerVars

(* ... and an answer that speaks of a row acknowledges the row's entry.    *)
LEMMA LedgerAccepts ==
  ASSUME Typed, NEW a \in Attempts, NEW r, Reply(a, r), r.status = 200, pc[a] # "done",
         NEW l \in callLogs, SpeaksOf(r, a, l)
  PROVE  Ledger!Next
<1>1. /\ reply' = [reply EXCEPT ![a] = r] /\ UNCHANGED <<callLogs, input>>
  BY DEF Reply, dbVars
<1>2. LedgerAnswer(a) = {}
  BY DEF Typed, PastChecks, NoReply, LedgerAnswer
<1>3. LedgerAnswer(a)' = {LedgerEntry(l)}
  BY <1>1 DEF LedgerAnswer, LedgerEntry, SpeaksOf, CallName, Typed, TypeOK
<1>4. \A b \in Attempts : b # a => LedgerAnswer(b)' = LedgerAnswer(b)
  BY <1>1 DEF LedgerAnswer, Typed, TypeOK
<1>5. {LedgerEntry(k) : k \in callLogs}' = {LedgerEntry(k) : k \in callLogs}
  BY <1>1 DEF LedgerEntry
<1>6. [b \in Attempts |-> LedgerAnswer(b)]'
        = [[b \in Attempts |-> LedgerAnswer(b)] EXCEPT ![a] = {LedgerEntry(l)}]
  <2>1. [b \in Attempts |-> LedgerAnswer(b)]'
          = [b \in Attempts |-> IF b = a THEN {LedgerEntry(l)} ELSE LedgerAnswer(b)]
    BY <1>3, <1>4
  <2> QED  BY <2>1
<1>7. Ledger!Acknowledge(a, LedgerEntry(l))
  BY <1>2, <1>5, <1>6 DEF Ledger!Acknowledge
<1>8. l \in CallLog
  BY DEF Typed, TypeOK
<1> QED  BY <1>7, <1>8, EntryType DEF Ledger!Next

(* Steps that touch neither the log nor an answer are ledger stutters.     *)
LEMMA LedgerStutters ==
  ASSUME UNCHANGED <<callLogs, input, reply>>
  PROVE  UNCHANGED Ledger!ledgerVars
<1>1. {LedgerEntry(l) : l \in callLogs}' = {LedgerEntry(l) : l \in callLogs}
  BY DEF LedgerEntry
<1>2. [b \in Attempts |-> LedgerAnswer(b)]' = [b \in Attempts |-> LedgerAnswer(b)]
  BY DEF LedgerAnswer
<1> QED  BY <1>1, <1>2 DEF Ledger!ledgerVars

(* Every step of the handlers is a ledger step or a stutter.               *)
LEMMA LedgerNext ==
  Typed /\ LogInv /\ [Next]_vars => [Ledger!Next]_(Ledger!ledgerVars)
<1> SUFFICES ASSUME Typed, LogInv, [Next]_vars
             PROVE  Ledger!Next \/ UNCHANGED Ledger!ledgerVars
  OBVIOUS
<1>0. ASSUME NEW a \in Attempts, ReplyFromLog(a), pc[a] # "done" PROVE Ledger!Next
  <2>1. PICK l \in LogsUnder(input[a]) :
               Reply(a, Accept(l.customer, BusinessDate(l.callTime), TRUE))
    BY <1>0 DEF ReplyFromLog
  <2>2. SpeaksOf(Accept(l.customer, BusinessDate(l.callTime), TRUE), a, l) /\ l \in callLogs
    BY DEF SpeaksOf, Accept, LogsUnder
  <2> QED  BY <1>0, <2>1, <2>2, LedgerAccepts DEF Accept
<1>e. ASSUME NEW a \in Attempts, NEW code \in {400, 401, 403, 404, 500}, Reply(a, Refuse(code)),
             pc[a] # "done"
      PROVE  UNCHANGED Ledger!ledgerVars
  BY <1>e, LedgerRefuses DEF Refuse
<1>1. ASSUME NEW a \in Attempts, WriteBatch(a) PROVE Ledger!Next
  <2> DEFINE new == LedgerEntry(CallRow(a))
  <2>1. /\ pc[a] = "write" /\ LogsUnder(input[a]) = {}
        /\ callLogs' = callLogs \cup {CallRow(a)} /\ UNCHANGED <<input, reply>>
    BY <1>1 DEF WriteBatch, Goto, Conflicts
  <2>2. CallRow(a) \in CallLog /\ callLogs \subseteq CallLog
    BY <2>1, CallRowType DEF Typed, TypeOK
  <2>3. {LedgerEntry(l) : l \in callLogs}' = {LedgerEntry(l) : l \in callLogs} \cup {new}
    BY <2>1 DEF LedgerEntry
  <2>4. [b \in Attempts |-> LedgerAnswer(b)]' = [b \in Attempts |-> LedgerAnswer(b)]
    BY <2>1 DEF LedgerAnswer
  <2>5. ASSUME NEW l \in callLogs PROVE Ledger!KeyOf(LedgerEntry(l)) # Ledger!KeyOf(new)
    <3>1. l.id # a /\ l.id \in Attempts
      BY <2>1, <2>2 DEF LogInv, RowsAreWritten, CallLog
    <3>2. CASE CallRow(a).requestId = NoId
      BY <2>2, <3>1, <3>2, IdAssumption
         DEF Ledger!KeyOf, LedgerEntry, CallName, CallRow, CallLog
    <3>3. CASE CallRow(a).requestId # NoId
      <4>1. ~(l.user = CallRow(a).user /\ l.requestId = CallRow(a).requestId)
        BY <2>1, <3>3 DEF LogsUnder, CallRow
      <4> QED  BY <2>2, <3>1, <3>3, <4>1, IdAssumption
                  DEF Ledger!KeyOf, LedgerEntry, CallName, CallLog
    <3> QED  BY <3>2, <3>3
  <2>6. Ledger!Record(new)
    BY <2>3, <2>4, <2>5 DEF Ledger!Record
  <2> QED  BY <2>2, <2>6, EntryType DEF Ledger!Next
<1>2. ASSUME NEW a \in Attempts,
             Reject(a) \/ Receive(a) \/ LookupRequestId(a) \/ ReadCustomer(a)
             \/ WriteConflict(a) \/ ResolveConflict(a) \/ Fail(a)
      PROVE  Ledger!Next \/ UNCHANGED Ledger!ledgerVars
  <2>1. pc[a] # "done"
    BY <1>2 DEF Reject, Receive, LookupRequestId, ReadCustomer, WriteConflict, ResolveConflict, Fail
  <2>2. \/ ReplyFromLog(a)
        \/ \E code \in {400, 401, 403, 404, 500} : Reply(a, Refuse(code))
        \/ UNCHANGED <<callLogs, input, reply>>
    BY <1>2 DEF Reject, Receive, LookupRequestId, ReadCustomer, WriteConflict, ResolveConflict,
         Fail, Goto, dbVars
  <2> QED  BY <2>1, <2>2, <1>0, <1>e, LedgerStutters
<1>3. ASSUME NEW a \in Attempts, Respond(a) PROVE Ledger!Next
  <2> DEFINE r == Accept(input[a].customer, BusinessDate(reportTime[a]), FALSE)
  <2>1. CallRow(a) \in callLogs /\ pc[a] # "done" /\ r.status = 200
    BY <1>3 DEF Respond, LogInv, WrittenHasRow, Accept
  <2>2. SpeaksOf(r, a, CallRow(a))
    BY DEF SpeaksOf, Accept, CallRow
  <2>3. Reply(a, r)
    BY <1>3 DEF Respond
  <2> HIDE DEF r
  <2> QED  BY <2>1, <2>2, <2>3, LedgerAccepts
<1>4. CASE Environment \/ UNCHANGED vars
  <2>1. UNCHANGED <<callLogs, input, reply>>
    BY <1>4 DEF Environment, Tick, OwnersChange, CustomerDeleted, CustomersPatched,
         vars, dbVars, handlerVars
  <2> QED  BY <2>1, LedgerStutters
<1> QED  BY <1>1, <1>2, <1>3, <1>4 DEF Next, Handle

(* The handlers implement the call ledger: every behaviour, with all its   *)
(* races, retries and failures, records and acknowledges as CallLedger     *)
(* does.                                                                   *)
THEOREM Refinement == Spec => ImplementsLedger
BY LedgerInit, LedgerNext, TypeCorrect, LogCorrect, PTL DEF Spec, ImplementsLedger, Ledger!Spec

-----------------------------------------------------------------------------
(* The daily summaries *)

(* The day's rows are countable, so the totals can be compared with them.  *)
Finite(u, d) ==
  /\ IsFiniteSet(CallsOn(u, d))
  /\ IsFiniteSet(ConnectedCallsOn(u, d))
  /\ IsFiniteSet(Seconds(ConnectedCallsOn(u, d)))

TotalsInv == SummaryTotalsMatchLogs /\ \A u \in Users, d \in Dates : Finite(u, d)

SummaryInv == TotalsInv /\ SummaryTimesMatchLogs

-----------------------------------------------------------------------------
(* A new call adds its own seconds to those of other calls.                *)
LEMMA SecondsOfOneMore ==
  ASSUME NEW calls \in SUBSET CallLog, NEW call \in CallLog, call \notin calls,
         IsFiniteSet(Seconds(calls))
  PROVE  /\ IsFiniteSet(Seconds(calls \cup {call}))
         /\ Cardinality(Seconds(calls \cup {call})) =
              Cardinality(Seconds(calls)) + call.duration
<1> DEFINE new == {call} \X (1..call.duration)
<1>1. call.duration \in Nat
  BY DEF CallLog
<1>2. IsFiniteSet(1..call.duration) /\ Cardinality(1..call.duration) = call.duration
  BY <1>1, FS_Interval
<1>3. IsFiniteSet({call}) /\ Cardinality({call}) = 1
  BY FS_Singleton
<1>4. IsFiniteSet(new) /\ Cardinality(new) = call.duration
  BY <1>1, <1>2, <1>3, FS_Product
<1>5. Seconds(calls \cup {call}) = Seconds(calls) \cup new
  BY DEF Seconds
<1>6. Seconds(calls) \cap new = {}
  BY DEF Seconds
<1>7. Cardinality(Seconds(calls)) \in Nat
  BY FS_CardinalityType
<1> HIDE DEF new
<1>8. /\ IsFiniteSet(Seconds(calls) \cup new)
      /\ Cardinality(Seconds(calls) \cup new) =
           Cardinality(Seconds(calls)) + Cardinality(new) - Cardinality({})
  BY <1>4, <1>6, FS_Union
<1>9. Cardinality({}) = 0
  BY FS_EmptySet
<1>10. Cardinality(Seconds(calls) \cup new) = Cardinality(Seconds(calls)) + call.duration
  BY <1>1, <1>4, <1>7, <1>8, <1>9
<1> QED  BY <1>5, <1>8, <1>10

(* No row of a summary before the first call.                              *)
LEMMA SummaryEmpty ==
  ASSUME callLogs = {}, summaries = [u \in Users |-> [d \in Dates |-> NoSummary]]
  PROVE  SummaryInv
<1>1. \A u \in Users, d \in Dates :
        /\ CallsOn(u, d) = {} /\ ConnectedCallsOn(u, d) = {}
        /\ Seconds(ConnectedCallsOn(u, d)) = {} /\ summaries[u][d] = NoSummary
  BY DEF CallsOn, ConnectedCallsOn, Seconds
<1>2. IsFiniteSet({}) /\ Cardinality({}) = 0
  BY FS_EmptySet
<1>3. \A u \in Users, d \in Dates : Finite(u, d)
  BY <1>1, <1>2 DEF Finite
<1>4. SummaryTotalsMatchLogs
  BY <1>1, <1>2 DEF SummaryTotalsMatchLogs, NoSummary
<1>5. SummaryTimesMatchLogs
  BY <1>1 DEF SummaryTimesMatchLogs, Spans, NoSummary
<1> QED  BY <1>3, <1>4, <1>5 DEF SummaryInv, TotalsInv

LEMMA SummaryInit == Init => SummaryInv
BY SummaryEmpty DEF Init

(* The step that writes a row and the day's summary in one transaction.    *)
LEMMA SummaryWrite ==
  ASSUME Typed, LogInv, SummaryInv, NEW a \in Attempts, WriteBatch(a)
  PROVE  SummaryInv'
<1> DEFINE call == CallRow(a)
           date == BusinessDate(call.callTime)
<1>1. /\ callLogs' = callLogs \cup {call}
      /\ summaries' = [summaries EXCEPT ![call.user][date] = Accumulate(@, call)]
  BY DEF WriteBatch
<1>2. call \in CallLog /\ call.user \in Users /\ date \in Dates
  BY CallRowType, DateType DEF WriteBatch, CallLog
<1>3. call \notin callLogs
  BY DEF LogInv, RowsAreWritten, WriteBatch, CallRow
<1>4. SUFFICES ASSUME NEW u \in Users, NEW d \in Dates
               PROVE  /\ Finite(u, d)'
                      /\ summaries'[u][d].totalCalls = Cardinality(CallsOn(u, d)')
                      /\ summaries'[u][d].connectedCalls
                           = Cardinality(ConnectedCallsOn(u, d)')
                      /\ summaries'[u][d].totalDuration
                           = Cardinality(Seconds(ConnectedCallsOn(u, d))')
                      /\ Spans(summaries'[u][d], CallsOn(u, d)')
  BY DEF SummaryInv, TotalsInv, SummaryTotalsMatchLogs, SummaryTimesMatchLogs, Finite, Spans
<1> DEFINE s == summaries[u][d]
           day == CallsOn(u, d)
           connected == ConnectedCallsOn(u, d)
<1>5. /\ IsFiniteSet(day) /\ IsFiniteSet(connected) /\ IsFiniteSet(Seconds(connected))
      /\ s.totalCalls = Cardinality(day) /\ s.connectedCalls = Cardinality(connected)
      /\ s.totalDuration = Cardinality(Seconds(connected))
      /\ Spans(s, day)
  BY DEF SummaryInv, TotalsInv, SummaryTotalsMatchLogs, SummaryTimesMatchLogs, Finite
<1>6. s \in Summary
  BY DEF Typed, TypeOK
<1>7. day \subseteq callLogs /\ connected \subseteq callLogs /\ callLogs \subseteq CallLog
  BY DEF CallsOn, ConnectedCallsOn, Typed, TypeOK
<1>8. CASE call.user = u /\ date = d
  <2>1. summaries'[u][d] = Accumulate(s, call)
    BY <1>1, <1>2, <1>8 DEF Typed, TypeOK
  <2>2. CallsOn(u, d)' = day \cup {call}
    BY <1>1, <1>8 DEF CallsOn
  <2>3. ConnectedCallsOn(u, d)' = IF Connected(call) THEN connected \cup {call} ELSE connected
    BY <2>2, <1>2 DEF ConnectedCallsOn, Connected
  <2>4. /\ IsFiniteSet(CallsOn(u, d)')
        /\ Cardinality(CallsOn(u, d)') = Cardinality(day) + 1
    BY <2>2, <1>3, <1>5, <1>7, FS_AddElement
  <2>5. /\ IsFiniteSet(ConnectedCallsOn(u, d)')
        /\ Cardinality(ConnectedCallsOn(u, d)')
             = Cardinality(connected) + (IF Connected(call) THEN 1 ELSE 0)
    <3>1. Cardinality(connected) \in Nat
      BY <1>5, FS_CardinalityType
    <3>2. CASE Connected(call)
      BY <2>3, <3>2, <1>3, <1>5, <1>7, FS_AddElement
    <3>3. CASE ~Connected(call)
      BY <2>3, <3>1, <3>3, <1>5
    <3> QED  BY <3>2, <3>3
  <2>6. /\ IsFiniteSet(Seconds(ConnectedCallsOn(u, d))')
        /\ Cardinality(Seconds(ConnectedCallsOn(u, d))')
             = Cardinality(Seconds(connected)) + (IF Connected(call) THEN call.duration ELSE 0)
    <3>1. Seconds(ConnectedCallsOn(u, d))' = Seconds(ConnectedCallsOn(u, d)')
      BY DEF Seconds
    <3>2. Cardinality(Seconds(connected)) \in Nat
      BY <1>5, FS_CardinalityType
    <3>3. CASE Connected(call)
      BY <2>3, <3>1, <3>3, <1>2, <1>3, <1>5, <1>7, SecondsOfOneMore
    <3>4. CASE ~Connected(call)
      BY <2>3, <3>1, <3>2, <3>4, <1>5
    <3> QED  BY <3>3, <3>4
  <2>7. Spans(Accumulate(s, call), day \cup {call})
    <3>1. /\ call.callTime \in Int /\ \A l \in day : l.callTime \in Int
          /\ NoTime \notin Int
      BY <1>2, <1>7, TimeAssumption DEF CallLog, Instants
    <3>2. CASE day = {}
      BY <1>5, <3>1, <3>2 DEF Spans, Accumulate
    <3>3. CASE day # {}
      <4>1. s.firstCallTime \in Int /\ s.lastCallTime \in Int
        BY <1>5, <3>1, <3>3 DEF Spans
      <4> QED  BY <1>5, <3>1, <3>3, <4>1 DEF Spans, Accumulate
    <3> QED  BY <3>2, <3>3
  <2> QED  BY <2>1, <2>2, <2>4, <2>5, <2>6, <2>7, <1>5 DEF Accumulate, Finite
<1>9. CASE ~(call.user = u /\ date = d)
  <2>1. summaries'[u][d] = s
    BY <1>1, <1>2, <1>9 DEF Typed, TypeOK
  <2>2. CallsOn(u, d)' = day
    BY <1>1, <1>9 DEF CallsOn
  <2>3. ConnectedCallsOn(u, d)' = connected
    BY <2>2 DEF ConnectedCallsOn, Connected
  <2>4. Seconds(ConnectedCallsOn(u, d))' = Seconds(connected)
    BY <2>3 DEF Seconds
  <2> QED  BY <2>1, <2>2, <2>3, <2>4, <1>5 DEF Finite
<1> QED  BY <1>8, <1>9

(* Every step keeps the summaries equal to the log: only WriteBatch        *)
(* changes either, and it changes both.                                    *)
LEMMA SummaryNext == Typed /\ LogInv /\ SummaryInv /\ [Next]_vars => SummaryInv'
<1> SUFFICES ASSUME Typed, LogInv, SummaryInv, [Next]_vars PROVE SummaryInv'
  OBVIOUS
<1>1. CASE \E a \in Attempts : WriteBatch(a)
  BY <1>1, SummaryWrite
<1>2. CASE ~\E a \in Attempts : WriteBatch(a)
  <2>1. UNCHANGED <<callLogs, summaries>>
    BY <1>2 DEF Next, Handle, Reject, Receive, LookupRequestId, ReadCustomer, WriteConflict,
         ResolveConflict, ReplyFromLog, Respond, Fail, Reply, Environment, Tick,
         OwnersChange, CustomerDeleted, CustomersPatched, vars, dbVars, handlerVars
  <2>2. \A u, d : UNCHANGED <<CallsOn(u, d), ConnectedCallsOn(u, d)>>
    BY <2>1 DEF CallsOn, ConnectedCallsOn, Connected
  <2> QED  BY <2>1, <2>2 DEF SummaryInv, TotalsInv, SummaryTotalsMatchLogs,
                SummaryTimesMatchLogs, Finite, Seconds, Spans
<1> QED  BY <1>1, <1>2

(* Every summary counts and spans exactly the rows of its agent and day.   *)
THEOREM SummariesCorrect == Spec => []SummaryInv
BY SummaryInit, SummaryNext, TypeCorrect, LogCorrect, PTL DEF Spec

(* The totals of every agent and day count exactly the rows of call_logs.  *)
THEOREM TotalsMatch == Spec => []SummaryTotalsMatchLogs
<1>1. SummaryInv => SummaryTotalsMatchLogs
  BY DEF SummaryInv, TotalsInv
<1> QED  BY <1>1, SummariesCorrect, PTL

(* The first and the last call time are those of the day's rows, in        *)
(* whatever order the reports arrive.                                      *)
THEOREM TimesMatch == Spec => []SummaryTimesMatchLogs
<1>1. SummaryInv => SummaryTimesMatchLogs
  BY DEF SummaryInv
<1> QED  BY <1>1, SummariesCorrect, PTL

-----------------------------------------------------------------------------
(* Induction, and sums over finite sets *)

(* A set of naturals that is not empty has a least element.                *)
LEMMA LeastNat ==
  ASSUME NEW S \in SUBSET Nat, S # {}
  PROVE  \E k \in S : \A j \in S : k <= j
<1> DEFINE R == {ss \in Nat \X Nat : ss[1] < ss[2]}
<1>1. IsWellFoundedOn(R, Nat)
  BY NatLessThanWellFounded DEF OpToRel
<1>2. \A k, j \in Nat : j < k => <<j, k>> \in R
  OBVIOUS
<1> HIDE DEF R
<1>3. PICK k \in S : \A j \in S : <<j, k>> \notin R
  BY <1>1, WFMin
<1>4. \A j \in S : ~(j < k)
  BY <1>2, <1>3
<1> QED BY <1>4

(* Induction, over a set instead of a predicate.                           *)
LEMMA NatByInduction ==
  ASSUME NEW T \in SUBSET Nat, 0 \in T, \A n \in T : n + 1 \in T
  PROVE  T = Nat
<1> SUFFICES ASSUME Nat \ T # {} PROVE FALSE
  OBVIOUS
<1>1. PICK n \in Nat \ T : \A m \in Nat \ T : n <= m
  BY LeastNat
<1>2. n # 0 /\ n - 1 \in Nat
  BY <1>1
<1>3. n - 1 \in T
  BY <1>1, <1>2
<1>4. (n - 1) + 1 \in T
  BY <1>3
<1> QED BY <1>1, <1>4

(* The values of a function on a finite set are finitely many.             *)
LEMMA ValuesAreFinite ==
  ASSUME NEW S, IsFiniteSet(S), NEW f
  PROVE  IsFiniteSet({f[x] : x \in S})
<1> DEFINE V == {f[x] : x \in S}
           g == [x \in S |-> f[x]]
<1>1. g \in Surjection(S, V)
  BY DEF Surjection
<1> HIDE DEF V, g
<1>2. IsFiniteSet(V)
  BY <1>1, FS_Surjection
<1> QED BY <1>2 DEF V

(* The sizes of disjoint parts add up to the size of the whole.            *)
LEMMA SumOfParts ==
  ASSUME NEW R, IsFiniteSet(R), NEW C, \A r \in R : IsFiniteSet(C[r]),
         \A r, t \in R : r # t => C[r] \cap C[t] = {}
  PROVE  SumFunction([r \in R |-> Cardinality(C[r])]) = Cardinality(UNION {C[r] : r \in R})
<1> DEFINE f == [r \in R |-> Cardinality(C[r])]
           Whole(s) == UNION {C[r] : r \in s}
           IsSum(iter) ==
             iter = [s \in SUBSET R |->
                       IF s = {} THEN 0
                       ELSE LET x == CHOOSE x \in s : TRUE IN f[x] + iter[s \ {x}]]
           sum == CHOOSE iter : IsSum(iter)
           size == [s \in SUBSET R |-> Cardinality(Whole(s))]
<1>1. SumFunction(f) = sum[R]
  BY DEF SumFunction, SumFunctionOnSet, FoldFunctionOnSet, MapThenFoldSet
<1>2. ASSUME NEW s \in SUBSET R, s # {}, NEW x, x = CHOOSE y \in s : TRUE
      PROVE  /\ x \in s
             /\ Cardinality(Whole(s)) = Cardinality(C[x]) + Cardinality(Whole(s \ {x}))
  <2>1. x \in s
    BY <1>2
  <2>2. IsFiniteSet(s \ {x})
    BY FS_Subset
  <2>3. IsFiniteSet({C[r] : r \in s \ {x}})
    BY <2>2, ValuesAreFinite
  <2>4. IsFiniteSet(Whole(s \ {x}))
    BY <2>3, FS_UNION
  <2>5. Whole(s) = C[x] \cup Whole(s \ {x}) /\ C[x] \cap Whole(s \ {x}) = {}
    BY <2>1
  <2>a. IsFiniteSet(C[x])
    BY <2>1
  <2> HIDE DEF Whole
  <2>6. Cardinality(Whole(s)) = Cardinality(C[x]) + Cardinality(Whole(s \ {x})) - Cardinality({})
    <3>1. Cardinality(C[x] \cup Whole(s \ {x}))
            = Cardinality(C[x]) + Cardinality(Whole(s \ {x}))
                - Cardinality(C[x] \cap Whole(s \ {x}))
      BY <2>4, <2>a, FS_Union
    <3> QED BY <2>5, <3>1
  <2>7. Cardinality(C[x]) \in Nat /\ Cardinality(Whole(s \ {x})) \in Nat /\ Cardinality({}) = 0
    BY <2>1, <2>4, FS_CardinalityType, FS_EmptySet
  <2> QED BY <2>1, <2>6, <2>7
<1>3. Cardinality(Whole({})) = 0
  BY FS_EmptySet
<1> HIDE DEF Whole
<1>4. IsSum(size)
  <2>1. ASSUME NEW s \in SUBSET R
        PROVE  size[s] = IF s = {} THEN 0
                         ELSE LET x == CHOOSE x \in s : TRUE IN f[x] + size[s \ {x}]
    BY <1>2, <1>3
  <2> QED BY <2>1
<1>5. IsSum(sum)
  BY <1>4
<1> HIDE DEF sum
<1> DEFINE T == {n \in Nat : \A s \in SUBSET R : Cardinality(s) = n => sum[s] = Cardinality(Whole(s))}
<1>6. 0 \in T
  BY <1>3, <1>5, FS_EmptySet, FS_Subset
<1>7. ASSUME NEW n \in T PROVE n + 1 \in T
  <2> SUFFICES ASSUME NEW s \in SUBSET R, Cardinality(s) = n + 1
               PROVE  sum[s] = Cardinality(Whole(s))
    OBVIOUS
  <2>1. IsFiniteSet(s)
    BY FS_Subset
  <2>2. s # {}
    BY FS_EmptySet
  <2> DEFINE x == CHOOSE x \in s : TRUE
  <2>3. x \in s /\ Cardinality(Whole(s)) = Cardinality(C[x]) + Cardinality(Whole(s \ {x}))
    BY <1>2, <2>2
  <2>6. sum[s] = f[x] + sum[s \ {x}]
    BY <1>5, <2>2
  <2>7. f[x] = Cardinality(C[x])
    BY <2>3
  <2> HIDE DEF x, f
  <2>4. Cardinality(s \ {x}) = Cardinality(s) - 1
    BY <2>1, <2>3, FS_RemoveElement
  <2>5. sum[s \ {x}] = Cardinality(Whole(s \ {x}))
    BY <2>4
  <2> QED BY <2>3, <2>5, <2>6, <2>7
<1> HIDE DEF T
<1>8. T = Nat
  BY <1>6, <1>7, NatByInduction DEF T
<1>9. sum[R] = Cardinality(Whole(R))
  BY <1>8, FS_CardinalityType DEF T
<1> QED BY <1>1, <1>9 DEF Whole

-----------------------------------------------------------------------------
(* The calendar *)

IsDate(d) == d \in Nat \X (1..12) \X (1..31) /\ d[3] <= DaysIn(d[1], d[2])

YearStart(y) == 365 * (y - 1) + ((y - 1) \div 4) - ((y - 1) \div 100) + ((y - 1) \div 400)
MonthStart(y, m) == DaysBeforeMonth[m] + (IF m > 2 /\ IsLeap(y) THEN 1 ELSE 0)

(* A year has 365 days or 366 ...                                          *)
LEMMA YearLength ==
  ASSUME NEW y \in Nat
  PROVE  YearStart(y + 1) = YearStart(y) + (IF IsLeap(y) THEN 366 ELSE 365)
BY DEF YearStart, IsLeap

(* A later year starts when this one is over.                              *)
LEMMA LaterYear ==
  ASSUME NEW y \in Nat, NEW z \in Nat, y < z
  PROVE  YearStart(y + 1) <= YearStart(z)
BY DEF YearStart

(* ... and its months follow one another without a gap.                    *)
LEMMA MonthLength ==
  ASSUME NEW y \in Nat, NEW m \in 1..11
  PROVE  MonthStart(y, m + 1) = MonthStart(y, m) + DaysIn(y, m)
BY DEF MonthStart, DaysIn, DaysBeforeMonth

(* A later month of the year starts when this one is over.                 *)
LEMMA LaterMonth ==
  ASSUME NEW y \in Nat, NEW m \in 1..12, NEW n \in 1..12, m < n
  PROVE  MonthStart(y, m) + DaysIn(y, m) <= MonthStart(y, n)
BY DEF MonthStart, DaysIn, DaysBeforeMonth

(* The numbers of days are numbers of days.                                *)
LEMMA MonthType ==
  ASSUME NEW y \in Nat, NEW m \in 1..12
  PROVE  MonthStart(y, m) \in Nat /\ DaysIn(y, m) \in Nat /\ DaysIn(y, m) \in 28..31
BY DEF MonthStart, DaysIn, DaysBeforeMonth

(* No month reaches beyond December.                                       *)
LEMMA MonthInYear ==
  ASSUME NEW y \in Nat, NEW m \in 1..12
  PROVE  MonthStart(y, m) + DaysIn(y, m) <= MonthStart(y, 12) + 31
BY DEF MonthStart, DaysIn, DaysBeforeMonth

(* A year is over when its December is.                                    *)
LEMMA YearFromMonths ==
  ASSUME NEW y \in Nat
  PROVE  MonthStart(y, 1) = 0 /\ YearStart(y + 1) = YearStart(y) + MonthStart(y, 12) + 31
<1>1. MonthStart(y, 1) = 0 /\ MonthStart(y, 12) + 31 = IF IsLeap(y) THEN 366 ELSE 365
  BY DEF MonthStart, DaysBeforeMonth
<1>2. MonthStart(y, 12) \in Nat /\ YearStart(y) \in Int
  BY MonthType DEF YearStart
<1> QED BY <1>1, <1>2, YearLength

(* Day numbers are integers.                                               *)
LEMMA YearStartType ==
  ASSUME NEW y \in Nat
  PROVE  YearStart(y) \in Int
BY DEF YearStart

(* The day number of a date: the days of the years, of the months, of its  *)
(* month.                                                                  *)
LEMMA DayNumberIs ==
  ASSUME NEW d, IsDate(d)
  PROVE  /\ DayNumber(d) = YearStart(d[1]) + MonthStart(d[1], d[2]) + d[3] - 1
         /\ DayNumber(d) \in Int
<1>1. d[1] \in Nat /\ d[2] \in 1..12 /\ d[3] \in Nat
  BY DEF IsDate
<1>2. YearStart(d[1]) \in Int /\ MonthStart(d[1], d[2]) \in Nat
  BY <1>1, YearStartType, MonthType
<1>3. DayNumber(d) = YearStart(d[1]) + MonthStart(d[1], d[2]) + d[3] - 1
  <2>1. DaysBeforeMonth[d[2]] \in Nat
    BY <1>1 DEF DaysBeforeMonth
  <2> QED BY <1>1, <2>1 DEF DayNumber, YearStart, MonthStart
<1> QED BY <1>1, <1>2, <1>3

(* The date after a date is a date, and one day later.                     *)
LEMMA NextDateIs ==
  ASSUME NEW d, IsDate(d)
  PROVE  /\ IsDate(NextDate(d)) /\ NextDate(d)[1] >= d[1]
         /\ DayNumber(NextDate(d)) = DayNumber(d) + 1
<1>1. d[1] \in Nat /\ d[2] \in 1..12 /\ d[3] \in 1..31 /\ d[3] <= DaysIn(d[1], d[2])
      /\ d = <<d[1], d[2], d[3]>>
  BY DEF IsDate
<1>2. DaysIn(d[1], d[2]) \in 28..31
  BY <1>1, MonthType
<1>3. CASE d[3] < DaysIn(d[1], d[2])
  <2>1. NextDate(d) = <<d[1], d[2], d[3] + 1>>
    BY <1>3 DEF NextDate
  <2>2. IsDate(NextDate(d))
    BY <1>1, <1>2, <1>3, <2>1 DEF IsDate
  <2>3. YearStart(d[1]) \in Int /\ MonthStart(d[1], d[2]) \in Nat
    BY <1>1, YearStartType, MonthType
  <2> QED BY <1>1, <2>1, <2>2, <2>3, DayNumberIs
<1>4. CASE d[3] = DaysIn(d[1], d[2]) /\ d[2] < 12
  <2>1. NextDate(d) = <<d[1], d[2] + 1, 1>>
    BY <1>4, <1>2 DEF NextDate
  <2>2. DaysIn(d[1], d[2] + 1) \in 28..31
    BY <1>1, <1>4, MonthType
  <2>3. IsDate(NextDate(d))
    BY <1>1, <1>4, <2>1, <2>2 DEF IsDate
  <2>4. MonthStart(d[1], d[2] + 1) = MonthStart(d[1], d[2]) + DaysIn(d[1], d[2])
    BY <1>1, <1>4, MonthLength
  <2>5. YearStart(d[1]) \in Int /\ MonthStart(d[1], d[2]) \in Nat
    BY <1>1, YearStartType, MonthType
  <2> QED BY <1>1, <1>4, <2>1, <2>3, <2>4, <2>5, DayNumberIs
<1>5. CASE d[3] = DaysIn(d[1], d[2]) /\ d[2] = 12
  <2>1. NextDate(d) = <<d[1] + 1, 1, 1>>
    BY <1>5, <1>2 DEF NextDate
  <2>2. DaysIn(d[1] + 1, 1) \in 28..31
    BY <1>1, MonthType
  <2>3. IsDate(NextDate(d))
    BY <1>1, <2>1, <2>2 DEF IsDate
  <2>4. YearStart(d[1] + 1) = YearStart(d[1]) + MonthStart(d[1], 12) + 31
    BY <1>1, YearFromMonths
  <2>5. DaysIn(d[1], 12) = 31
    BY DEF DaysIn
  <2>6. YearStart(d[1]) \in Int /\ MonthStart(d[1], 12) \in Nat /\ MonthStart(d[1] + 1, 1) = 0
    BY <1>1, d[1] + 1 \in Nat, 12 \in 1..12, YearStartType, MonthType, YearFromMonths
  <2> QED BY <1>1, <1>5, <2>1, <2>3, <2>4, <2>5, <2>6, DayNumberIs
<1> QED BY <1>1, <1>2, <1>3, <1>4, <1>5

(* Dates come in the order of their day numbers.                           *)
LEMMA BeforeIsEarlier ==
  ASSUME NEW d, IsDate(d), NEW e, IsDate(e), Before(d, e)
  PROVE  DayNumber(d) < DayNumber(e)
<1>1. /\ d[1] \in Nat /\ d[2] \in 1..12 /\ d[3] \in 1..31 /\ d[3] <= DaysIn(d[1], d[2])
      /\ e[1] \in Nat /\ e[2] \in 1..12 /\ e[3] \in 1..31 /\ e[3] <= DaysIn(e[1], e[2])
  BY DEF IsDate
<1>2. /\ YearStart(d[1]) \in Int /\ MonthStart(d[1], d[2]) \in Nat
      /\ YearStart(e[1]) \in Int /\ MonthStart(e[1], e[2]) \in Nat
      /\ DaysIn(d[1], d[2]) \in Nat
  BY <1>1, YearStartType, MonthType
<1>3. /\ DayNumber(d) = YearStart(d[1]) + MonthStart(d[1], d[2]) + d[3] - 1
      /\ DayNumber(e) = YearStart(e[1]) + MonthStart(e[1], e[2]) + e[3] - 1
  BY DayNumberIs
<1>4. CASE d[1] < e[1]
  <2>1. YearStart(d[1] + 1) <= YearStart(e[1])
    BY <1>1, <1>4, LaterYear
  <2>2. YearStart(d[1] + 1) = YearStart(d[1]) + MonthStart(d[1], 12) + 31
    BY <1>1, YearFromMonths
  <2>3. MonthStart(d[1], d[2]) + DaysIn(d[1], d[2]) <= MonthStart(d[1], 12) + 31
    BY <1>1, MonthInYear
  <2>4. MonthStart(d[1], 12) \in Nat
    BY <1>1, 12 \in 1..12, MonthType
  <2> QED BY <1>1, <1>2, <1>3, <2>1, <2>2, <2>3, <2>4
<1>5. CASE d[1] = e[1] /\ d[2] < e[2]
  <2>1. MonthStart(d[1], d[2]) + DaysIn(d[1], d[2]) <= MonthStart(d[1], e[2])
    BY <1>1, <1>5, LaterMonth
  <2> QED BY <1>1, <1>2, <1>3, <1>5, <2>1
<1>6. CASE d[1] = e[1] /\ d[2] = e[2] /\ d[3] < e[3]
  BY <1>1, <1>2, <1>3, <1>6
<1> QED BY <1>4, <1>5, <1>6 DEF Before

(* So dates are compared, and told apart, by their day numbers.            *)
LEMMA DatesAreOrdered ==
  ASSUME NEW d, IsDate(d), NEW e, IsDate(e)
  PROVE  /\ Before(d, e) <=> DayNumber(d) < DayNumber(e)
         /\ d = e <=> DayNumber(d) = DayNumber(e)
<1>1. Before(d, e) \/ Before(e, d) \/ d = e
  BY DEF IsDate, Before
<1>2. DayNumber(d) \in Int /\ DayNumber(e) \in Int
  BY DayNumberIs
<1> QED BY <1>1, <1>2, BeforeIsEarlier

-----------------------------------------------------------------------------
(* The days of the dashboard *)

LEMMA DayOf ==
  ASSUME NEW t \in Nat
  PROVE  /\ BusinessDate(t) \in Nat /\ BusinessDate(t) <= t
         /\ \A k \in Int : t >= k * DayLength <=> BusinessDate(t) >= k
<1>1. DayLength \in Nat \ {0}
  BY TimeAssumption
<1> DEFINE D == DayLength
<1>2. t \div D \in Nat /\ t \div D <= t /\ (t \div D) * D <= t /\ t < (t \div D) * D + D
  BY <1>1
<1>3. \A k \in Int : t >= k * D <=> t \div D >= k
  BY <1>1
<1> QED BY <1>2, <1>3 DEF BusinessDate

(* The dates of the model are the days from 0 on, without a gap.           *)
LEMMA DatesAreDays ==
  /\ Dates \subseteq 0..MaxTime
  /\ \A n \in Dates : n # 0 => n - 1 \in Dates
<1>0. MaxTime \in Nat /\ DayLength \in Nat \ {0}
  BY TimeAssumption
<1>1. Dates \subseteq 0..MaxTime
  BY <1>0, DayOf DEF Dates, Instants
<1>2. ASSUME NEW t \in Instants, BusinessDate(t) # 0
      PROVE  BusinessDate(t) - 1 \in Dates
  <2>1. t \in Nat /\ t <= MaxTime
    BY <1>0 DEF Instants
  <2>2. t >= DayLength
    <3>1. BusinessDate(t) >= 1
      BY <1>2, <2>1, DayOf
    <3> QED BY <1>0, <2>1, <3>1, DayOf
  <2>3. t - DayLength \in Instants
    BY <1>0, <2>1, <2>2 DEF Instants
  <2>4. BusinessDate(t - DayLength) = BusinessDate(t) - 1
    BY <1>0, <2>1, <2>2 DEF BusinessDate
  <2> QED BY <2>3, <2>4 DEF Dates
<1> QED BY <1>1, <1>2 DEF Dates

(* CivilDate is the function its definition describes: there is one.       *)
LEMMA CivilDateUnfolds ==
  \A n \in Dates : CivilDate[n] = IF n = 0 THEN firstDay ELSE NextDate(CivilDate[n - 1])
<1> DEFINE Follows(g, k) ==
             \A n \in 0..k : g[n] = IF n = 0 THEN firstDay ELSE NextDate(g[n - 1])
           T == {k \in Nat : \E g : Follows(g, k)}
<1>1. 0 \in T
  <2> DEFINE g == [n \in {0} |-> firstDay]
  <2>1. Follows(g, 0)
    OBVIOUS
  <2> HIDE DEF g
  <2>2. \E f : Follows(f, 0)
    BY <2>1
  <2> QED BY <2>2
<1>2. ASSUME NEW k \in T PROVE k + 1 \in T
  <2>1. PICK g : Follows(g, k)
    OBVIOUS
  <2> DEFINE h == [n \in 0..(k + 1) |-> IF n = k + 1 THEN NextDate(g[k]) ELSE g[n]]
  <2>2. Follows(h, k + 1)
    BY <2>1
  <2> HIDE DEF h
  <2>3. \E f : Follows(f, k + 1)
    BY <2>2
  <2> QED BY <2>3
<1>3. T = Nat
  <2> HIDE DEF T
  <2> QED BY <1>1, <1>2, NatByInduction DEF T
<1>4. PICK g : Follows(g, MaxTime)
  BY <1>3, TimeAssumption
<1> DEFINE IsCivil(f) == f = [n \in Dates |-> IF n = 0 THEN firstDay ELSE NextDate(f[n - 1])]
           h == [n \in Dates |-> g[n]]
<1>5. IsCivil(h)
  <2>1. ASSUME NEW n \in Dates PROVE h[n] = IF n = 0 THEN firstDay ELSE NextDate(h[n - 1])
    BY <1>4, DatesAreDays
  <2> QED BY <2>1
<1>6. CivilDate = CHOOSE f : IsCivil(f)
  BY DEF CivilDate
<1>7. IsCivil(CivilDate)
  BY <1>5, <1>6
<1> QED BY <1>7

(* Day 0 is a date of the calendar.                                        *)
LEMMA FirstDayIsDate ==
  ASSUME firstDay \in FirstDays
  PROVE  IsDate(firstDay) /\ firstDay[1] >= 2000 /\ DayNumber(firstDay) \in Int
<1>1. firstDay \in Nat \X (1..12) \X (1..31) /\ IsValidDate(firstDay) /\ firstDay[1] >= 2000
  BY DashboardAssumption
<1>2. firstDay[1] \in Nat /\ firstDay[2] \in 1..12
  BY <1>1
<1>3. DaysIn(firstDay[1], firstDay[2]) \in Nat
  BY <1>2, MonthType
<1>4. firstDay[3] <= DaysIn(firstDay[1], firstDay[2])
  BY <1>1, <1>3 DEF IsValidDate
<1>5. IsDate(firstDay)
  BY <1>1, <1>4 DEF IsDate
<1> QED BY <1>1, <1>5, DayNumberIs

(* Day n is the date n days after day 0.                                   *)
LEMMA CivilDateIs ==
  ASSUME firstDay \in FirstDays
  PROVE  \A n \in Dates : /\ IsDate(CivilDate[n]) /\ CivilDate[n][1] >= 2000
                          /\ DayNumber(CivilDate[n]) = DayNumber(firstDay) + n
<1>0. IsDate(firstDay) /\ firstDay[1] >= 2000 /\ DayNumber(firstDay) \in Int
  BY FirstDayIsDate
<1> DEFINE Is(n) == /\ IsDate(CivilDate[n]) /\ CivilDate[n][1] >= 2000
                    /\ DayNumber(CivilDate[n]) = DayNumber(firstDay) + n
           T == {n \in Nat : n \in Dates => Is(n)}
<1>1. 0 \in T
  BY <1>0, CivilDateUnfolds
<1>2. ASSUME NEW n \in T PROVE n + 1 \in T
  <2> SUFFICES ASSUME n + 1 \in Dates PROVE Is(n + 1)
    OBVIOUS
  <2>1. n \in Nat /\ n \in Dates
    BY DatesAreDays
  <2>2. Is(n)
    BY <2>1
  <2>3. CivilDate[n + 1] = NextDate(CivilDate[n])
    BY <2>1, CivilDateUnfolds
  <2>4. CivilDate[n][1] \in Nat
    BY <2>2 DEF IsDate
  <2>5. IsDate(NextDate(CivilDate[n])) /\ NextDate(CivilDate[n])[1] \in Nat
    BY <2>2, NextDateIs DEF IsDate
  <2> QED BY <1>0, <2>1, <2>2, <2>3, <2>4, <2>5, NextDateIs
<1>3. T \in SUBSET Nat
  OBVIOUS
<1>4. T = Nat
  <2> HIDE DEF T
  <2> QED BY <1>1, <1>2, <1>3, NatByInduction
<1> QED BY <1>4, DatesAreDays
-----------------------------------------------------------------------------
(* The periods of the dashboard *)

(* A query that is not refused is for a month, or for a date.              *)
LEMMA QueryType ==
  ASSUME firstDay \in FirstDays, NEW q \in Queries, ValidQuery(q)
  PROVE  /\ q.kind \in {"overview", "daily", "monthly"} /\ q.agents \subseteq Users
         /\ q.kind = "monthly" => q.period \in Nat \X (1..12)
         /\ q.kind # "monthly" => IsDate(q.period)
<1>1. PICK k \in {"overview", "daily", "monthly"} :
        q \in [kind : {k}, period : Periods(k), agents : {Users} \cup {{u} : u \in Users}]
  BY DEF Queries
<1>2. q.kind = k /\ q.period \in Periods(k) /\ q.agents \subseteq Users
  BY <1>1
<1>3. ASSUME NEW n \in Dates
      PROVE  IsDate(CivilDate[n]) /\ Month(CivilDate[n]) \in Nat \X (1..12)
  BY CivilDateIs DEF IsDate, Month
<1>4. CASE k = "monthly"
  <2>1. q.period \in Nat \X Nat
    <3>1. CASE q.period \in BadMonths
      BY <3>1, DashboardAssumption
    <3>2. CASE q.period \in {Month(d) : d \in {CivilDate[n] : n \in Dates}}
      BY <1>3, <3>2
    <3> QED BY <1>2, <1>4, <3>1, <3>2 DEF Periods
  <2>2. q.period[2] \in 1..12
    BY <1>2, <1>4 DEF ValidQuery, IsValidMonth
  <2> QED BY <1>1, <1>2, <1>4, <2>1, <2>2
<1>5. CASE k # "monthly"
  <2>1. IsDate(q.period)
    <3>1. CASE q.period \in BadDates
      <4>1. q.period \in Nat \X Nat \X Nat /\ IsValidDate(q.period)
        BY <1>2, <1>5, <3>1, DashboardAssumption DEF ValidQuery
      <4>2. q.period[1] \in Nat /\ q.period[2] \in 1..12
        BY <4>1 DEF IsValidDate
      <4>3. DaysIn(q.period[1], q.period[2]) \in 28..31
        BY <4>2, MonthType
      <4>4. q.period[3] \in 1..DaysIn(q.period[1], q.period[2])
        BY <4>1 DEF IsValidDate
      <4> QED BY <4>1, <4>2, <4>3, <4>4 DEF IsDate
    <3>2. CASE q.period \in {CivilDate[n] : n \in Dates}
      BY <1>3, <3>2
    <3> QED BY <1>2, <1>5, <3>1, <3>2 DEF Periods
  <2> QED BY <1>1, <1>2, <1>5, <2>1
<1> QED BY <1>4, <1>5

(* Both ends of the range of a month are dates.                            *)
LEMMA RangeType ==
  ASSUME NEW p \in Nat \X (1..12)
  PROVE  IsDate(MonthRange(p)[1]) /\ IsDate(MonthRange(p)[2])
<1>1. p[1] \in Nat /\ p[2] \in 1..12 /\ UtcYear(p[1]) \in Nat
  BY DEF UtcYear
<1>2. \A y \in Nat, m \in 1..12 : IsDate(<<y, m, 1>>)
  <2> TAKE y \in Nat, m \in 1..12
  <2>1. DaysIn(y, m) \in 28..31
    BY MonthType
  <2> QED BY <2>1 DEF IsDate
<1>3. MonthRange(p)[1] = <<p[1], p[2], 1>>
  BY DEF MonthRange
<1>4. MonthRange(p)[2] = IF p[2] = 12 THEN <<UtcYear(p[1]) + 1, 1, 1>>
                         ELSE <<UtcYear(p[1]), p[2] + 1, 1>>
  BY DEF MonthRange
<1>5. IsDate(MonthRange(p)[1])
  BY <1>1, <1>2, <1>3
<1>6. IsDate(MonthRange(p)[2])
  <2>1. CASE p[2] = 12
    BY <1>1, <1>2, <1>4, <2>1, 1 \in 1..12, UtcYear(p[1]) + 1 \in Nat
  <2>2. CASE p[2] # 12
    BY <1>1, <1>2, <1>4, <2>2, p[2] + 1 \in 1..12
  <2> QED BY <2>1, <2>2
<1> QED BY <1>5, <1>6

(* From 2000 on the dates in the range of a month are the dates of it.     *)
THEOREM MonthOfRange ==
  ASSUME NEW p \in Nat \X (1..12), NEW d, IsDate(d), d[1] >= 2000
  PROVE  (~Before(d, MonthRange(p)[1]) /\ Before(d, MonthRange(p)[2])) <=> Month(d) = p
<1>1. /\ p[1] \in Nat /\ p[2] \in 1..12 /\ p = <<p[1], p[2]>>
      /\ d[1] \in Nat /\ d[2] \in 1..12 /\ d[3] \in 1..31
  BY DEF IsDate
<1> DEFINE y == p[1]
           m == p[2]
           e == MonthRange(p)[2]
<1>2. Month(d) = p <=> d[1] = y /\ d[2] = m
  BY <1>1 DEF Month
<1>3. Before(d, MonthRange(p)[1]) <=> d[1] < y \/ (d[1] = y /\ d[2] < m)
  BY <1>1 DEF MonthRange, Before
<1>4. CASE y < 100
  <2>1. e[1] <= 2000 /\ e[1] \in Nat /\ e[2] \in 1..12 /\ e[3] = 1 /\ (e[1] = 2000 => e[2] = 1)
    BY <1>1, <1>4 DEF MonthRange, UtcYear
  <2>2. ~Before(d, e)
    BY <1>1, <2>1 DEF Before
  <2> QED BY <1>1, <1>2, <1>4, <2>2
<1>5. CASE y >= 100
  <2>1. e = IF m = 12 THEN <<y + 1, 1, 1>> ELSE <<y, m + 1, 1>>
    BY <1>1, <1>5 DEF MonthRange, UtcYear
  <2>2. Before(d, e) <=> d[1] < y \/ (d[1] = y /\ d[2] <= m)
    <3>1. CASE m = 12
      BY <1>1, <2>1, <3>1 DEF Before
    <3>2. CASE m # 12
      BY <1>1, <2>1, <3>2 DEF Before
    <3> QED BY <3>1, <3>2
  <2> QED BY <1>1, <1>2, <1>3, <2>2
<1> QED BY <1>1, <1>4, <1>5

(* The summaries by date and the log by instants mean the same period.     *)
LEMMA DateRangeIsPeriod ==
  ASSUME firstDay \in FirstDays, NEW q \in Queries, ValidQuery(q), NEW n \in Dates
  PROVE  InDateRange(q, CivilDate[n]) <=> InPeriod(q, CivilDate[n])
<1>1. IsDate(CivilDate[n]) /\ CivilDate[n][1] >= 2000
  BY CivilDateIs
<1>2. CASE q.kind = "monthly"
  <2>1. q.period \in Nat \X (1..12)
    BY <1>2, QueryType
  <2> QED BY <1>1, <1>2, <2>1, MonthOfRange DEF InDateRange, InPeriod
<1>3. CASE q.kind # "monthly"
  BY <1>3 DEF InDateRange, InPeriod
<1> QED BY <1>2, <1>3

(* The instants of a date are those whose business day is that date.       *)
LEMMA DayStartIs ==
  ASSUME firstDay \in FirstDays, NEW t \in Instants, NEW d, IsDate(d)
  PROVE  /\ t >= DayStart(firstDay, DayLength, d) <=> ~Before(CivilDate[BusinessDate(t)], d)
         /\ t >= NextDayStart(firstDay, DayLength, d)
              <=> ~Before(CivilDate[BusinessDate(t)], d) /\ CivilDate[BusinessDate(t)] # d
<1> DEFINE n == BusinessDate(t)
           k == DayNumber(d) - DayNumber(firstDay)
<1>1. t \in Nat /\ DayLength \in Nat \ {0}
  BY TimeAssumption DEF Instants
<1>2. DayNumber(d) \in Int /\ DayNumber(firstDay) \in Int
  BY DayNumberIs, FirstDayIsDate
<1>3. /\ n \in Nat /\ k \in Int
      /\ t >= k * DayLength <=> n >= k
      /\ t >= (k + 1) * DayLength <=> n >= k + 1
  BY <1>1, <1>2, DayOf
<1>4. (k + 1) * DayLength = k * DayLength + DayLength
  BY <1>1, <1>2
<1>5. DayStart(firstDay, DayLength, d) = k * DayLength
      /\ NextDayStart(firstDay, DayLength, d) = (k + 1) * DayLength
  BY <1>4 DEF DayStart, NextDayStart
<1>6. IsDate(CivilDate[n]) /\ DayNumber(CivilDate[n]) = DayNumber(firstDay) + n
  BY DateType, CivilDateIs
<1>7. /\ Before(CivilDate[n], d) <=> DayNumber(CivilDate[n]) < DayNumber(d)
      /\ CivilDate[n] = d <=> DayNumber(CivilDate[n]) = DayNumber(d)
  BY <1>6, DatesAreOrdered
<1> HIDE DEF n
<1>8. n >= k <=> ~(DayNumber(firstDay) + n < DayNumber(d))
  BY <1>2, <1>3
<1>9. n >= k + 1 <=> ~(DayNumber(firstDay) + n < DayNumber(d)) /\ DayNumber(firstDay) + n # DayNumber(d)
  BY <1>2, <1>3
<1> QED BY <1>3, <1>5, <1>6, <1>7, <1>8, <1>9 DEF n

(* The instants a statement asks for are those of the days of its period.  *)
LEMMA TimeRangeIsPeriod ==
  ASSUME firstDay \in FirstDays, NEW q \in Queries, ValidQuery(q), NEW t \in Instants
  PROVE  InTimeRange(q, t) <=> InPeriod(q, CivilDate[BusinessDate(t)])
<1> DEFINE d == CivilDate[BusinessDate(t)]
<1>0. /\ IsDate(d) /\ d[1] >= 2000 /\ t \in Int /\ DayLength \in Nat /\ DayNumber(firstDay) \in Int
      /\ t \in Instants
  BY DateType, CivilDateIs, FirstDayIsDate, TimeAssumption DEF Instants
<1>1. CASE q.kind = "monthly"
  <2>1. q.period \in Nat \X (1..12)
    BY <1>1, QueryType
  <2> DEFINE b == MonthRange(q.period)[1]
             e == MonthRange(q.period)[2]
  <2>2. IsDate(b) /\ IsDate(e)
    BY <2>1, RangeType
  <2>3. (~Before(d, b) /\ Before(d, e)) <=> Month(d) = q.period
    BY <1>0, <2>1, MonthOfRange
  <2>4. InTimeRange(q, t) <=> t >= DayStart(firstDay, DayLength, b) /\ t < DayStart(firstDay, DayLength, e)
    BY <1>1 DEF InTimeRange
  <2>5. DayStart(firstDay, DayLength, e) \in Int
    BY <1>0, <2>2, DayNumberIs DEF DayStart
  <2>6. InPeriod(q, d) <=> Month(d) = q.period
    BY <1>1 DEF InPeriod
  <2> HIDE DEF d, b, e
  <2>7. t < DayStart(firstDay, DayLength, e) <=> ~(t >= DayStart(firstDay, DayLength, e))
    BY <1>0, <2>5
  <2> QED BY <2>2, <2>3, <2>4, <2>6, <2>7, DayStartIs DEF d
<1>2. CASE q.kind # "monthly"
  <2> DEFINE p == q.period
  <2>1. IsDate(p)
    BY <1>2, QueryType
  <2>2. NextDayStart(firstDay, DayLength, p) \in Int
    BY <1>0, <2>1, DayNumberIs DEF DayStart, NextDayStart
  <2>3. InTimeRange(q, t) <=> t >= DayStart(firstDay, DayLength, p)
                              /\ t < NextDayStart(firstDay, DayLength, p)
    BY <1>2 DEF InTimeRange
  <2>4. InPeriod(q, d) <=> d = p
    BY <1>2 DEF InPeriod
  <2>5. d = p => ~Before(d, p)
    BY <1>0, <2>1, DatesAreOrdered, DayNumberIs
  <2> HIDE DEF d, p
  <2>6. t < NextDayStart(firstDay, DayLength, p) <=> ~(t >= NextDayStart(firstDay, DayLength, p))
    BY <1>0, <2>2
  <2> QED BY <2>1, <2>3, <2>4, <2>5, <2>6, DayStartIs DEF d
<1> QED BY <1>1, <1>2

(* So the statement that selects summaries by date and the one that        *)
(* selects log rows by instants select the same days, for every month and  *)
(* day that can be asked for.                                              *)
THEOREM PeriodsAgree ==
  ASSUME firstDay \in FirstDays, NEW q \in Queries, ValidQuery(q), NEW t \in Instants
  PROVE  InTimeRange(q, t) <=> InDateRange(q, CivilDate[BusinessDate(t)])
<1>1. BusinessDate(t) \in Dates
  BY DateType
<1> QED BY <1>1, DateRangeIsPeriod, TimeRangeIsPeriod
-----------------------------------------------------------------------------
(* The rows of the dashboard *)

LEMMA SubjectType ==
  ASSUME firstDay \in FirstDays, NEW q \in Queries, ValidQuery(q), NEW s \in Subjects(q)
  PROVE  AgentsOf(s) \subseteq Users
BY QueryType DEF Subjects, AgentsOf

(* The rows of the log between two instants are the calls of the period.   *)
LEMMA LogRowsAreCalls ==
  ASSUME Typed, firstDay \in FirstDays, NEW q \in Queries, ValidQuery(q), NEW s
  PROVE  LogRows(q, s) = CallsOf(q, s)
<1>1. \A l \in callLogs : l.callTime \in Instants
  BY DEF Typed, TypeOK, CallLog
<1>2. \A l \in callLogs : InTimeRange(q, l.callTime) <=> InPeriod(q, CivilDate[BusinessDate(l.callTime)])
  BY <1>1, TimeRangeIsPeriod
<1> QED BY <1>2 DEF LogRows, CallsOf

(* The summary rows of a period are finitely many, and the calls they      *)
(* count are the calls of the period.                                      *)
LEMMA SummaryRowsAreDays ==
  ASSUME Typed, SummaryInv, firstDay \in FirstDays, NEW q \in Queries, ValidQuery(q),
         NEW s \in Subjects(q)
  PROVE  /\ IsFiniteSet(SummaryRows(q, s))
         /\ CallsOf(q, s) = UNION {CallsOn(r[1], r[2]) : r \in SummaryRows(q, s)}
<1>0. callLogs \subseteq CallLog /\ IsFiniteSet(callLogs) /\ AgentsOf(s) \subseteq Users
  BY SubjectType DEF Typed, TypeOK
<1>1. \A u \in Users, d \in Dates : /\ IsFiniteSet(CallsOn(u, d))
                                    /\ summaries[u][d].totalCalls = Cardinality(CallsOn(u, d))
  BY DEF SummaryInv, TotalsInv, Finite, SummaryTotalsMatchLogs
<1>2. \A u \in Users, d \in Dates : summaries[u][d].totalCalls > 0 <=> CallsOn(u, d) # {}
  <2> TAKE u \in Users, d \in Dates
  <2>1. Cardinality(CallsOn(u, d)) \in Nat /\ (Cardinality(CallsOn(u, d)) = 0 <=> CallsOn(u, d) = {})
    BY <1>1, FS_CardinalityType, FS_EmptySet
  <2> QED BY <1>1, <2>1
<1>3. \A r \in SummaryRows(q, s) :
        /\ r[1] \in AgentsOf(s) /\ r[2] \in Dates /\ r = <<r[1], r[2]>>
        /\ CallsOn(r[1], r[2]) # {} /\ InPeriod(q, CivilDate[r[2]])
  BY <1>0, <1>2, DateRangeIsPeriod DEF SummaryRows
<1>4. \A u \in AgentsOf(s), d \in Dates :
        CallsOn(u, d) # {} /\ InPeriod(q, CivilDate[d]) => <<u, d>> \in SummaryRows(q, s)
  BY <1>0, <1>2, DateRangeIsPeriod DEF SummaryRows
<1>5. IsFiniteSet(SummaryRows(q, s))
  <2> DEFINE f == [l \in callLogs |-> <<l.user, BusinessDate(l.callTime)>>]
  <2>1. IsFiniteSet({f[l] : l \in callLogs})
    BY <1>0, ValuesAreFinite
  <2>2. SummaryRows(q, s) \subseteq {f[l] : l \in callLogs}
    <3> SUFFICES ASSUME NEW r \in SummaryRows(q, s) PROVE r \in {f[l] : l \in callLogs}
      OBVIOUS
    <3>1. PICK l \in callLogs : l.user = r[1] /\ BusinessDate(l.callTime) = r[2]
      BY <1>3 DEF CallsOn
    <3>2. f[l] = r
      BY <1>3, <3>1
    <3> QED BY <3>2
  <2> HIDE DEF f
  <2> QED BY <2>1, <2>2, FS_Subset
<1>6. ASSUME NEW l \in CallsOf(q, s)
      PROVE  \E r \in SummaryRows(q, s) : l \in CallsOn(r[1], r[2])
  <2>1. /\ l \in callLogs /\ l.user \in AgentsOf(s) /\ InPeriod(q, CivilDate[BusinessDate(l.callTime)])
        /\ BusinessDate(l.callTime) \in Dates
    BY <1>0, DateType DEF CallsOf, CallLog
  <2>2. l \in CallsOn(l.user, BusinessDate(l.callTime))
    BY <2>1 DEF CallsOn
  <2>3. <<l.user, BusinessDate(l.callTime)>> \in SummaryRows(q, s)
    BY <1>4, <2>1, <2>2
  <2> QED BY <2>2, <2>3
<1>7. ASSUME NEW r \in SummaryRows(q, s), NEW l \in CallsOn(r[1], r[2])
      PROVE  l \in CallsOf(q, s)
  BY <1>3 DEF CallsOn, CallsOf
<1> QED BY <1>5, <1>6, <1>7

(* Sums over the summary rows of a period count what the rows stand for.   *)
LEMMA SumOverRows ==
  ASSUME Typed, SummaryInv, firstDay \in FirstDays, NEW q \in Queries, ValidQuery(q),
         NEW s \in Subjects(q), NEW C,
         \A r, t \in SummaryRows(q, s) : r # t => C[r] \cap C[t] = {},
         \A r \in SummaryRows(q, s) : IsFiniteSet(C[r])
  PROVE  SumFunction([r \in SummaryRows(q, s) |-> Cardinality(C[r])])
           = Cardinality(UNION {C[r] : r \in SummaryRows(q, s)})
BY SummaryRowsAreDays, SumOfParts

(* The sums over the summaries are what the log tells of the period.       *)
LEMMA SummedIs ==
  ASSUME Typed, SummaryInv, firstDay \in FirstDays, NEW q \in Queries, ValidQuery(q),
         NEW s \in Subjects(q)
  PROVE  Summed(q, s) = [calls |-> Told(q, s).calls, connected |-> Told(q, s).connected,
                         seconds |-> Told(q, s).seconds, customers |-> 0, reached |-> 0,
                         intent |-> 0]
<1> DEFINE rows == SummaryRows(q, s)
           calls == [r \in rows |-> CallsOn(r[1], r[2])]
           connected == [r \in rows |-> ConnectedCallsOn(r[1], r[2])]
           seconds == [r \in rows |-> Seconds(ConnectedCallsOn(r[1], r[2]))]
<1>0. AgentsOf(s) \subseteq Users
  BY SubjectType
<1>1. \A r \in rows : r[1] \in Users /\ r[2] \in Dates /\ r = <<r[1], r[2]>>
  BY <1>0 DEF SummaryRows
<1>2. \A r \in rows : /\ summaries[r[1]][r[2]].totalCalls = Cardinality(calls[r])
                      /\ summaries[r[1]][r[2]].connectedCalls = Cardinality(connected[r])
                      /\ summaries[r[1]][r[2]].totalDuration = Cardinality(seconds[r])
  BY <1>1 DEF SummaryInv, TotalsInv, SummaryTotalsMatchLogs
<1>3. \A r \in rows : IsFiniteSet(calls[r]) /\ IsFiniteSet(connected[r]) /\ IsFiniteSet(seconds[r])
  BY <1>1 DEF SummaryInv, TotalsInv, Finite
<1>4. \A r, t \in rows : r # t => calls[r] \cap calls[t] = {}
  BY <1>1 DEF CallsOn
<1>5. \A r, t \in rows : r # t => connected[r] \cap connected[t] = {}
  BY <1>1 DEF CallsOn, ConnectedCallsOn
<1>6. \A r, t \in rows : r # t => seconds[r] \cap seconds[t] = {}
  <2> SUFFICES ASSUME NEW r \in rows, NEW t \in rows, r # t, NEW x \in seconds[r], x \in seconds[t]
               PROVE  FALSE
    OBVIOUS
  <2>1. x[1] \in connected[r] /\ x[1] \in connected[t]
    BY DEF Seconds
  <2> QED BY <1>5, <2>1
<1>7. CallsOf(q, s) = UNION {calls[r] : r \in rows}
  BY SummaryRowsAreDays
<1>8. {l \in CallsOf(q, s) : Connected(l)} = UNION {connected[r] : r \in rows}
  BY <1>7 DEF ConnectedCallsOn
<1>9. Seconds({l \in CallsOf(q, s) : Connected(l)}) = UNION {seconds[r] : r \in rows}
  <2> DEFINE answered == {l \in CallsOf(q, s) : Connected(l)}
  <2>1. ASSUME NEW x \in Seconds(answered)
        PROVE  \E r \in rows : x \in seconds[r]
    <3>1. PICK l \in answered : x \in {l} \X (1..l.duration)
      BY DEF Seconds
    <3>2. PICK r \in rows : l \in connected[r]
      BY <1>8, <3>1
    <3>3. x \in seconds[r]
      BY <3>1, <3>2 DEF Seconds
    <3> QED BY <3>3
  <2>2. ASSUME NEW r \in rows, NEW x \in seconds[r]
        PROVE  x \in Seconds(answered)
    <3>1. PICK l \in connected[r] : x \in {l} \X (1..l.duration)
      BY DEF Seconds
    <3>2. l \in answered
      BY <1>8
    <3> QED BY <3>1, <3>2 DEF Seconds
  <2> QED BY <2>1, <2>2
<1> HIDE DEF calls, connected, seconds
<1>10. SumFunction([r \in rows |-> Cardinality(calls[r])]) = Told(q, s).calls
  BY <1>3, <1>4, <1>7, SumOverRows DEF Told
<1>11. SumFunction([r \in rows |-> Cardinality(connected[r])]) = Told(q, s).connected
  BY <1>3, <1>5, <1>8, SumOverRows DEF Told
<1>12. SumFunction([r \in rows |-> Cardinality(seconds[r])]) = Told(q, s).seconds
  BY <1>3, <1>6, <1>9, SumOverRows DEF Told
<1> HIDE DEF rows
<1>13. /\ [r \in rows |-> summaries[r[1]][r[2]].totalCalls] = [r \in rows |-> Cardinality(calls[r])]
       /\ [r \in rows |-> summaries[r[1]][r[2]].connectedCalls] = [r \in rows |-> Cardinality(connected[r])]
       /\ [r \in rows |-> summaries[r[1]][r[2]].totalDuration] = [r \in rows |-> Cardinality(seconds[r])]
  BY <1>2
<1> DEFINE a == SumFunction([r \in rows |-> summaries[r[1]][r[2]].totalCalls])
           b == SumFunction([r \in rows |-> summaries[r[1]][r[2]].connectedCalls])
           c == SumFunction([r \in rows |-> summaries[r[1]][r[2]].totalDuration])
<1>14. Summed(q, s) = [Figures EXCEPT !.calls = a, !.connected = b, !.seconds = c]
  BY DEF rows, Summed
<1>15. a = Told(q, s).calls /\ b = Told(q, s).connected /\ c = Told(q, s).seconds
  BY <1>10, <1>11, <1>12, <1>13
<1> HIDE DEF a, b, c
<1> QED BY <1>14, <1>15 DEF Figures

-----------------------------------------------------------------------------
(* The figures of the dashboard *)

Tally ==
  [calls : Nat, connected : Nat, seconds : Nat, customers : Nat, reached : Nat]

FigureRow ==
  [calls : Nat, connected : Nat, seconds : Nat, customers : Nat, reached : Nat, intent : Nat]

StagesOf(kind) ==
  {{"summaries"}, {"done"}} \cup
  (CASE kind = "overview" -> {{"called", "intent"}, {"called"}, {"intent"}}
     [] kind = "daily" -> {}
     [] kind = "monthly" -> {{"customers"}})

(* What a subject was told of when the request came in: the rows that were *)
(* counted then are still there.                                           *)
Recalled(s) ==
  /\ \A f \in {"calls", "connected", "seconds", "customers", "reached"} :
       before[s][f] <= Told(query, s)[f]
  /\ before[s].calls = 0 => before[s].customers = 0 /\ before[s].reached = 0

Within(s, f) == before[s][f] <= figures[s][f] /\ figures[s][f] <= Told(query, s)[f]

(* What is in the figures of a subject once the summaries have been read:  *)
(* a count that is still awaited may only be asked for if there were calls.*)
FiguresRead(s) ==
  /\ \A f \in {"calls", "connected", "seconds"} : Within(s, f)
  /\ figures[s].calls = 0 => figures[s].customers = 0 /\ figures[s].reached = 0
  /\ "called" \in stage => figures[s].calls > 0
  /\ query.kind = "overview" /\ "called" \notin stage => Within(s, "customers")
  /\ query.kind = "monthly" /\ "customers" \notin stage =>
       Within(s, "customers") /\ Within(s, "reached")

Asked ==
  /\ query \in Queries /\ ValidQuery(query)
  /\ stage \in StagesOf(query.kind)
  /\ before \in [Subjects(query) -> Tally]
  /\ \A s \in Subjects(query) : Recalled(s)

AnswerInv ==
  /\ Asked
  /\ stage # {"summaries"} =>
       /\ figures \in [Subjects(query) -> FigureRow]
       /\ \A s \in Subjects(query) : FiguresRead(s)

DashInv ==
  /\ firstDay \in FirstDays
  /\ stage # {"idle"} /\ stage # {"refused"} => AnswerInv

-----------------------------------------------------------------------------
(* What a set of calls tells *)

TallyOf(calls) ==
  LET connected == {l \in calls : Connected(l)}
  IN [calls |-> Cardinality(calls), connected |-> Cardinality(connected),
      seconds |-> Cardinality(Seconds(connected)),
      customers |-> Cardinality({l.customer : l \in calls}),
      reached |-> Cardinality(Reached(calls))]

(* Finitely many calls are to finitely many customers ...                  *)
LEMMA CustomersAreFinite ==
  ASSUME NEW calls, IsFiniteSet(calls)
  PROVE  IsFiniteSet({l.customer : l \in calls})
<1> DEFINE f == [l \in calls |-> l.customer]
<1>1. IsFiniteSet({f[l] : l \in calls})
  BY ValuesAreFinite
<1>2. {f[l] : l \in calls} = {l.customer : l \in calls}
  OBVIOUS
<1> QED BY <1>1, <1>2

(* ... and last finitely many seconds.                                     *)
LEMMA SecondsAreFinite ==
  ASSUME NEW calls \in SUBSET CallLog, IsFiniteSet(calls)
  PROVE  IsFiniteSet(Seconds(calls))
<1> DEFINE f == [l \in calls |-> {l} \X (1..l.duration)]
<1>1. ASSUME NEW l \in calls PROVE IsFiniteSet(f[l])
  <2> DEFINE n == l.duration
  <2>1. 1 \in Int /\ n \in Int
    BY DEF CallLog
  <2> HIDE DEF n
  <2>2. IsFiniteSet(1..n)
    BY <2>1, FS_Interval
  <2>3. IsFiniteSet({l} \X (1..n))
    BY <2>2, FS_Singleton, FS_Product
  <2> QED BY <2>3 DEF n
<1>2. Seconds(calls) = UNION {f[l] : l \in calls}
  BY DEF Seconds
<1> HIDE DEF f
<1>3. IsFiniteSet({f[l] : l \in calls})
  BY ValuesAreFinite
<1> QED BY <1>1, <1>2, <1>3, FS_UNION

(* So everything a figure counts can be counted.                           *)
LEMMA CountsOfCalls ==
  ASSUME NEW calls \in SUBSET CallLog, IsFiniteSet(calls)
  PROVE  /\ IsFiniteSet({l \in calls : Connected(l)})
         /\ IsFiniteSet(Seconds({l \in calls : Connected(l)}))
         /\ IsFiniteSet({l.customer : l \in calls})
         /\ IsFiniteSet(Reached(calls))
<1>1. IsFiniteSet({l \in calls : Connected(l)}) /\ IsFiniteSet({l \in calls : l.callResult = 1})
  BY FS_Subset
<1> QED BY <1>1, SecondsAreFinite, CustomersAreFinite DEF Reached

(* Without calls there are no customers that were called.                  *)
LEMMA TallyType ==
  ASSUME NEW calls \in SUBSET CallLog, IsFiniteSet(calls)
  PROVE  /\ TallyOf(calls) \in Tally
         /\ TallyOf(calls).calls = 0 => TallyOf(calls).customers = 0 /\ TallyOf(calls).reached = 0
<1>1. TallyOf(calls) \in Tally
  BY CountsOfCalls, FS_CardinalityType DEF TallyOf, Tally
<1>2. ASSUME TallyOf(calls).calls = 0
      PROVE  TallyOf(calls).customers = 0 /\ TallyOf(calls).reached = 0
  <2>1. calls = {}
    BY <1>2, FS_EmptySet DEF TallyOf
  <2>2. {l.customer : l \in calls} = {} /\ Reached(calls) = {}
    BY <2>1 DEF Reached
  <2> QED BY <2>2, FS_EmptySet DEF TallyOf
<1> QED BY <1>1, <1>2

(* More calls tell no less.                                                *)
LEMMA TallyGrows ==
  ASSUME NEW calls \in SUBSET CallLog, IsFiniteSet(calls), NEW earlier \in SUBSET calls
  PROVE  /\ TallyOf(earlier).calls <= TallyOf(calls).calls
         /\ TallyOf(earlier).connected <= TallyOf(calls).connected
         /\ TallyOf(earlier).seconds <= TallyOf(calls).seconds
         /\ TallyOf(earlier).customers <= TallyOf(calls).customers
         /\ TallyOf(earlier).reached <= TallyOf(calls).reached
<1>1. Cardinality(earlier) <= Cardinality(calls)
  BY FS_Subset
<1>2. Cardinality({l \in earlier : Connected(l)}) <= Cardinality({l \in calls : Connected(l)})
  BY CountsOfCalls, FS_Subset
<1>3. Cardinality(Seconds({l \in earlier : Connected(l)}))
        <= Cardinality(Seconds({l \in calls : Connected(l)}))
  <2>1. Seconds({l \in earlier : Connected(l)}) \subseteq Seconds({l \in calls : Connected(l)})
    BY DEF Seconds
  <2> QED BY <2>1, CountsOfCalls, FS_Subset
<1>4. Cardinality({l.customer : l \in earlier}) <= Cardinality({l.customer : l \in calls})
  <2>1. {l.customer : l \in earlier} \subseteq {l.customer : l \in calls}
    OBVIOUS
  <2> QED BY <2>1, CountsOfCalls, FS_Subset
<1>5. Cardinality(Reached(earlier)) <= Cardinality(Reached(calls))
  <2>1. Reached(earlier) \subseteq Reached(calls)
    BY DEF Reached
  <2> QED BY <2>1, CountsOfCalls, FS_Subset
<1> QED BY <1>1, <1>2, <1>3, <1>4, <1>5 DEF TallyOf

(* What is told of a period is what its calls tell.                        *)
LEMMA ToldIs ==
  ASSUME NEW q, NEW s
  PROVE  Told(q, s) = TallyOf(CallsOf(q, s))
BY DEF Told, TallyOf

(* The calls of a period are finitely many rows of the log.                *)
LEMMA CallsOfAreCalls ==
  ASSUME Typed, NEW q, NEW s
  PROVE  CallsOf(q, s) \in SUBSET CallLog /\ IsFiniteSet(CallsOf(q, s))
<1>1. callLogs \subseteq CallLog /\ IsFiniteSet(callLogs) /\ CallsOf(q, s) \subseteq callLogs
  BY DEF Typed, TypeOK, CallsOf
<1> QED BY <1>1, FS_Subset

(* So what is told of a period is numbers, and without calls it is zero.   *)
LEMMA ToldType ==
  ASSUME Typed, NEW q, NEW s
  PROVE  /\ Told(q, s) \in Tally
         /\ Told(q, s).calls = 0 => Told(q, s).customers = 0 /\ Told(q, s).reached = 0
BY CallsOfAreCalls, TallyType, ToldIs

-----------------------------------------------------------------------------
(* The tables and the log while the dashboard is read *)

LEMMA DashboardInit == InitDashboard => Typed /\ LogInv /\ SummaryInv /\ DashInv
<1> SUFFICES ASSUME InitDashboard PROVE Typed /\ LogInv /\ SummaryInv /\ DashInv
  OBVIOUS
<1>1. customers \in [Customers -> CustomerRow]
  BY DEF InitDashboard, CustomerRow, ImportedRow, Types
<1>2. NoSummary \in Summary
  BY DEF NoSummary, Summary
<1>3. callLogs \subseteq CallLog /\ IsFiniteSet(callLogs)
  BY FS_EmptySet DEF InitDashboard
<1>4. clock \in Instants
  BY TimeAssumption DEF InitDashboard, Instants
<1>5. input \in [Attempts -> Inputs]
  BY DEF InitDashboard, ReportsThatWrite
<1>6. PastChecks
  BY DEF InitDashboard, ReportsThatWrite, ValidBody, PastChecks
<1>7. Typed
  BY <1>1, <1>2, <1>3, <1>4, <1>5, <1>6 DEF InitDashboard, Typed, TypeOK, Replies
<1>8. LogInv
  BY DEF InitDashboard, LogInv, RowsAreWritten, WrittenHasRow, OneLogPerRequest,
         AcceptedIsLogged, NoReply
<1>9. SummaryInv
  BY SummaryEmpty DEF InitDashboard
<1>10. DashInv
  BY DEF InitDashboard, DashInv
<1> QED BY <1>7, <1>8, <1>9, <1>10

(* The dashboard only reads; what else happens, CallReport has too.        *)
LEMMA DashboardIsReport ==
  [NextDashboard]_<<vars, dashVars>> => [Next]_vars
BY DEF NextDashboard, AnswerQuery, Ask, ReadSummaries, CountCalled, CountIntent, CountCustomers,
       QueryFails, Elsewhere, Next, Handle, Environment

(* So its steps keep the invariants of CallReport.                         *)
LEMMA TablesKept ==
  ASSUME Typed, LogInv, SummaryInv, [NextDashboard]_<<vars, dashVars>>
  PROVE  Typed' /\ LogInv' /\ SummaryInv'
BY DashboardIsReport, TypedNext, LogNext, SummaryNext

(* No step takes a row out of the log.                                     *)
LEMMA LogOnlyGrows ==
  ASSUME Elsewhere
  PROVE  callLogs \subseteq callLogs'
BY DEF Elsewhere, WriteBatch, CustomerDeleted

-----------------------------------------------------------------------------
(* What was told before is still told *)

LEMMA QueriesKept ==
  ASSUME UNCHANGED firstDay
  PROVE  Queries' = Queries /\ CivilDate' = CivilDate
<1>1. CivilDate' = CivilDate
  BY DEF CivilDate
<1> QED BY <1>1 DEF Queries, Periods

(* What is told of a period grows with the log.                            *)
LEMMA ToldGrows ==
  ASSUME Typed', UNCHANGED <<firstDay, query>>, callLogs \subseteq callLogs', NEW s
  PROVE  /\ Told(query, s)' \in Tally
         /\ \A f \in {"calls", "connected", "seconds", "customers", "reached"} :
              Told(query, s)[f] <= Told(query, s)'[f]
<1> DEFINE calls == CallsOf(query, s)
<1>1. calls \subseteq calls'
  BY QueriesKept DEF CallsOf, InPeriod, AgentsOf
<1>2. calls' \in SUBSET CallLog /\ IsFiniteSet(calls')
  <2>1. callLogs' \subseteq CallLog /\ IsFiniteSet(callLogs')
    BY DEF Typed, TypeOK
  <2>2. calls' \subseteq callLogs'
    BY DEF CallsOf
  <2> HIDE DEF calls
  <2> QED BY <2>1, <2>2, FS_Subset
<1>3. Told(query, s) = TallyOf(calls)
  BY ToldIs
<1>4. Told(query, s)' = TallyOf(calls')
  BY DEF Told, TallyOf
<1> QED BY <1>1, <1>2, <1>3, <1>4, TallyGrows, TallyType

(* What was known of an answer stays true while calls come in.             *)
LEMMA AskedKept ==
  ASSUME Typed, Typed', Asked, UNCHANGED <<firstDay, query, before>>, callLogs \subseteq callLogs',
         stage' \in StagesOf(query.kind)
  PROVE  Asked'
<1>1. query' \in Queries'
  BY QueriesKept DEF Asked
<1>2. Subjects(query)' = Subjects(query) /\ ValidQuery(query)'
  BY DEF Asked, Subjects, ValidQuery
<1>3. ASSUME NEW s \in Subjects(query) PROVE Recalled(s)'
  <2> DEFINE told == Told(query, s)
  <2>1. told \in Tally /\ told' \in Tally
    BY ToldType, ToldGrows
  <2>2. before[s] \in Tally /\ Recalled(s)
    BY DEF Asked
  <2>3. \A f \in {"calls", "connected", "seconds", "customers", "reached"} : told[f] <= told'[f]
    BY ToldGrows
  <2>4. \A f \in {"calls", "connected", "seconds", "customers", "reached"} :
          before[s][f] \in Nat /\ told[f] \in Nat /\ told'[f] \in Nat
    BY <2>1, <2>2 DEF Tally
  <2>5. \A f \in {"calls", "connected", "seconds", "customers", "reached"} : before[s][f] <= told[f]
    BY <2>2 DEF Recalled
  <2>6. \A f \in {"calls", "connected", "seconds", "customers", "reached"} : before[s][f] <= told'[f]
    BY <2>3, <2>4, <2>5
  <2>7. before' = before
    OBVIOUS
  <2>8. before[s].calls = 0 => before[s].customers = 0 /\ before[s].reached = 0
    BY <2>2 DEF Recalled
  <2> QED BY <2>6, <2>7, <2>8 DEF Recalled
<1> QED BY <1>1, <1>2, <1>3 DEF Asked

-----------------------------------------------------------------------------
(* The steps of the dashboard *)

LEMMA ToldSame ==
  ASSUME UNCHANGED <<vars, firstDay, query>>, NEW s
  PROVE  Told(query, s)' = Told(query, s)
<1>1. CallsOf(query, s)' = CallsOf(query, s)
  BY QueriesKept DEF vars, dbVars, CallsOf, InPeriod, AgentsOf
<1> QED BY <1>1 DEF Told

(* A step that only reads keeps what was known of the request.             *)
LEMMA ReadKeeps ==
  ASSUME Typed, AnswerInv, UNCHANGED <<vars, firstDay, query, before>>,
         stage' \in StagesOf(query.kind)
  PROVE  Asked' /\ Subjects(query)' = Subjects(query)
<1>1. Typed'
  BY DEF Typed, TypeOK, PastChecks, vars, dbVars, handlerVars
<1>2. callLogs \subseteq callLogs'
  BY DEF vars, dbVars
<1>3. Asked'
  BY <1>1, <1>2, AskedKept DEF AnswerInv
<1>4. Subjects(query)' = Subjects(query)
  BY DEF Subjects
<1> QED BY <1>3, <1>4

(* The request comes in: what is told then is remembered.                  *)
LEMMA AskStep ==
  ASSUME Typed, DashInv, Ask
  PROVE  DashInv'
<1>1. PICK q \in Queries : query' = q
  BY DEF Ask
<1>2. UNCHANGED <<vars, firstDay>> /\ firstDay' \in FirstDays
  BY DEF Ask, DashInv
<1>3. CASE ~ValidQuery(q)
  <2>1. stage' = {"refused"}
    BY <1>1, <1>3 DEF Ask
  <2> QED BY <1>2, <2>1 DEF DashInv
<1>4. CASE ValidQuery(q)
  <2>1. stage' = {"summaries"} /\ before' = [s \in Subjects(q) |-> Told(q, s)]
    BY <1>1, <1>4 DEF Ask
  <2>2. query' \in Queries'
    BY <1>1, <1>2, QueriesKept
  <2>3. Subjects(query)' = Subjects(q) /\ ValidQuery(query)'
    BY <1>1, <1>4 DEF Subjects, ValidQuery
  <2>4. ASSUME NEW s \in Subjects(q) PROVE Told(query, s)' = Told(q, s)
    <3>1. CallsOf(query, s)' = CallsOf(q, s)
      BY <1>1, <1>2, QueriesKept DEF vars, dbVars, CallsOf, InPeriod, AgentsOf
    <3> QED BY <3>1 DEF Told
  <2>5. before' \in [Subjects(q) -> Tally]
    BY <2>1, ToldType
  <2>6. ASSUME NEW s \in Subjects(q) PROVE Recalled(s)'
    <3> DEFINE told == Told(q, s)
    <3>1. told \in Tally /\ (told.calls = 0 => told.customers = 0 /\ told.reached = 0)
      BY ToldType
    <3>2. before'[s] = told /\ Told(query, s)' = told
      BY <2>1, <2>4
    <3> HIDE DEF told
    <3>3. \A f \in {"calls", "connected", "seconds", "customers", "reached"} : told[f] <= told[f]
      BY <3>1 DEF Tally
    <3> QED BY <3>1, <3>2, <3>3 DEF Recalled
  <2>7. stage' \in StagesOf(query.kind)'
    BY <2>1 DEF StagesOf
  <2>8. Asked'
    BY <2>2, <2>3, <2>5, <2>6, <2>7 DEF Asked
  <2> QED BY <1>2, <2>1, <2>8 DEF DashInv, AnswerInv
<1> QED BY <1>3, <1>4

(* There are summaries where there are calls, and only there.              *)
LEMMA RowsMeanCalls ==
  ASSUME Typed, SummaryInv, firstDay \in FirstDays, NEW q \in Queries, ValidQuery(q),
         NEW s \in Subjects(q)
  PROVE  SummaryRows(q, s) = {} <=> Told(q, s).calls = 0
<1>1. CallsOf(q, s) = UNION {CallsOn(r[1], r[2]) : r \in SummaryRows(q, s)}
  BY SummaryRowsAreDays
<1>2. ASSUME NEW r \in SummaryRows(q, s) PROVE CallsOn(r[1], r[2]) # {}
  <2>1. r[1] \in Users /\ r[2] \in Dates /\ summaries[r[1]][r[2]].totalCalls > 0
    BY SubjectType DEF SummaryRows
  <2>2. Cardinality(CallsOn(r[1], r[2])) > 0
    BY <2>1 DEF SummaryInv, TotalsInv, SummaryTotalsMatchLogs
  <2> QED BY <2>2, FS_EmptySet
<1>3. SummaryRows(q, s) = {} <=> CallsOf(q, s) = {}
  BY <1>1, <1>2
<1>4. CallsOf(q, s) = {} <=> Told(q, s).calls = 0
  BY CallsOfAreCalls, FS_EmptySet DEF Told
<1> QED BY <1>3, <1>4

(* The sums over the summaries are what the log tells at that moment.      *)
LEMMA ReadSummariesStep ==
  ASSUME Typed, SummaryInv, DashInv, ReadSummaries
  PROVE  DashInv'
<1>0. /\ firstDay \in FirstDays /\ query \in Queries /\ ValidQuery(query) /\ AnswerInv
      /\ UNCHANGED <<vars, firstDay, query, before>>
      /\ figures' = [s \in Subjects(query) |-> Summed(query, s)]
      /\ stage' = IF CountsAfter(query) = {} THEN {"done"} ELSE CountsAfter(query)
      /\ before \in [Subjects(query) -> Tally] /\ \A s \in Subjects(query) : Recalled(s)
  BY DEF DashInv, AnswerInv, Asked, ReadSummaries, Proceed
<1>1. query.kind \in {"overview", "daily", "monthly"}
  BY <1>0, QueryType
<1> DEFINE none == \A s \in Subjects(query) : Told(query, s).calls = 0
<1>2. none <=> \A s \in Subjects(query) : SummaryRows(query, s) = {}
  BY <1>0, RowsMeanCalls
<1>3. stage' = IF none \/ query.kind = "daily" THEN {"done"}
               ELSE IF query.kind = "overview" THEN {"called", "intent"} ELSE {"customers"}
  BY <1>0, <1>1, <1>2 DEF CountsAfter
<1>4. stage' \in StagesOf(query.kind)
  BY <1>1, <1>3 DEF StagesOf
<1>5. Asked' /\ Subjects(query)' = Subjects(query)
  BY <1>0, <1>4, ReadKeeps
<1>6. ASSUME NEW s \in Subjects(query)
      PROVE  /\ Summed(query, s) \in FigureRow
             /\ FiguresRead(s)'
  <2> DEFINE told == Told(query, s)
             sum == Summed(query, s)
  <2>1. told \in Tally /\ (told.calls = 0 => told.customers = 0 /\ told.reached = 0)
    BY ToldType
  <2>2. sum = [calls |-> told.calls, connected |-> told.connected, seconds |-> told.seconds,
               customers |-> 0, reached |-> 0, intent |-> 0]
    BY <1>0, SummedIs
  <2>3. told' = told
    BY <1>0, ToldSame
  <2>4. figures'[s] = sum /\ before' = before
    BY <1>0
  <2>5. before[s] \in Tally /\ Recalled(s)
    BY <1>0
  <2>6. \A f \in {"calls", "connected", "seconds", "customers", "reached"} : before[s][f] <= told[f]
    BY <2>5 DEF Recalled
  <2>7. before[s].calls = 0 => before[s].customers = 0 /\ before[s].reached = 0
    BY <2>5 DEF Recalled
  <2>8. query.kind = "overview" => (none <=> told.calls = 0)
    BY DEF Subjects
  <2>9. none => told.calls = 0
    OBVIOUS
  <2> HIDE DEF told, sum, none
  <2>10. sum \in FigureRow
    BY <2>1, <2>2 DEF Tally, FigureRow
  <2>11. \A f \in {"calls", "connected", "seconds"} : Within(s, f)'
    <3>1. \A f \in {"calls", "connected", "seconds"} : sum[f] = told[f] /\ told[f] <= told[f]
      BY <2>1, <2>2 DEF Tally
    <3> QED BY <3>1, <2>3, <2>4, <2>6 DEF Within, told
  <2>12. ASSUME told.calls = 0 PROVE Within(s, "customers")' /\ Within(s, "reached")'
    <3>1. before[s].calls = 0
      BY <2>1, <2>5, <2>6, <2>12 DEF Tally
    <3>2. before[s].customers = 0 /\ before[s].reached = 0 /\ told.customers = 0 /\ told.reached = 0
      BY <3>1, <2>1, <2>7, <2>12
    <3>3. sum.customers = 0 /\ sum.reached = 0
      BY <2>2
    <3> QED BY <3>2, <3>3, <2>3, <2>4 DEF Within, told
  <2>13. "called" \in stage' => query.kind = "overview" /\ ~none
    BY <1>1, <1>3
  <2>14. "called" \in stage' => sum.calls > 0
    BY <2>1, <2>2, <2>8, <2>13 DEF Tally
  <2>15. /\ query.kind = "overview" /\ "called" \notin stage' => none
         /\ query.kind = "monthly" /\ "customers" \notin stage' => none
    BY <1>3
  <2>16. sum.customers = 0 /\ sum.reached = 0
    BY <2>2
  <2>17. query' = query
    BY <1>0
  <2>18. figures'[s].calls = 0 => figures'[s].customers = 0 /\ figures'[s].reached = 0
    BY <2>4, <2>16
  <2>19. "called" \in stage' => figures'[s].calls > 0
    BY <2>4, <2>14
  <2>20. query'.kind = "overview" /\ "called" \notin stage' => Within(s, "customers")'
    BY <2>9, <2>12, <2>15, <2>17
  <2>21. query'.kind = "monthly" /\ "customers" \notin stage' =>
           Within(s, "customers")' /\ Within(s, "reached")'
    BY <2>9, <2>12, <2>15, <2>17
  <2>22. FiguresRead(s)'
    BY <2>11, <2>18, <2>19, <2>20, <2>21 DEF FiguresRead
  <2> QED BY <2>10, <2>22 DEF sum
<1>7. figures' \in [Subjects(query) -> FigureRow]
  BY <1>0, <1>6
<1>8. firstDay' \in FirstDays
  BY <1>0
<1> QED BY <1>5, <1>6, <1>7, <1>8 DEF DashInv, AnswerInv

(* What the read of one count leaves alone.                                *)
LEMMA CountKeeps ==
  ASSUME Typed, AnswerInv, stage # {"summaries"}, UNCHANGED <<vars, firstDay, query, before>>,
         stage' \in StagesOf(query.kind), NEW s \in Subjects(query),
         figures'[s].calls = figures[s].calls, figures'[s].connected = figures[s].connected,
         figures'[s].seconds = figures[s].seconds
  PROVE  /\ \A f \in {"calls", "connected", "seconds"} : Within(s, f)'
         /\ Told(query, s)' = Told(query, s)
<1>1. \A f \in {"calls", "connected", "seconds"} : Within(s, f)
  BY DEF AnswerInv, FiguresRead
<1>2. Told(query, s)' = Told(query, s)
  BY ToldSame
<1>3. \A f \in {"calls", "connected", "seconds"} : figures'[s][f] = figures[s][f]
  OBVIOUS
<1>4. before' = before
  OBVIOUS
<1> QED BY <1>1, <1>2, <1>3, <1>4 DEF Within

(* The customers called are counted only if there were calls before.       *)
LEMMA CountCalledStep ==
  ASSUME Typed, DashInv, CountCalled
  PROVE  DashInv'
<1>0. /\ firstDay \in FirstDays /\ query \in Queries /\ ValidQuery(query) /\ AnswerInv
      /\ UNCHANGED <<vars, firstDay, query, before>> /\ "called" \in stage
      /\ stage' = IF stage \ {"called"} = {} THEN {"done"} ELSE stage \ {"called"}
      /\ stage \in StagesOf(query.kind) /\ stage # {"summaries"}
      /\ before \in [Subjects(query) -> Tally] /\ \A s \in Subjects(query) : Recalled(s)
      /\ figures \in [Subjects(query) -> FigureRow] /\ \A s \in Subjects(query) : FiguresRead(s)
  BY DEF DashInv, AnswerInv, Asked, CountCalled, Proceed
<1>1. query.kind = "overview"
  BY <1>0, QueryType DEF StagesOf
<1>2. stage \in {{"called", "intent"}, {"called"}}
  BY <1>0, <1>1 DEF StagesOf
<1>3. stage' \in {{"intent"}, {"done"}}
  BY <1>0, <1>2
<1>4. stage' \in StagesOf(query.kind) /\ "called" \notin stage' /\ stage' # {"summaries"}
  BY <1>1, <1>3 DEF StagesOf
<1>5. Asked' /\ Subjects(query)' = {Office} /\ Subjects(query) = {Office}
  BY <1>0, <1>1, <1>4, ReadKeeps DEF Subjects
<1> DEFINE n == Told(query, Office).customers
<1>6. figures' = [figures EXCEPT ![Office].customers = n]
  <2>1. LogRows(query, Office) = CallsOf(query, Office)
    BY <1>0, LogRowsAreCalls
  <2> QED BY <2>1 DEF CountCalled, Told
<1>7. Told(query, Office) \in Tally
  BY ToldType
<1>8. n \in Nat
  BY <1>7 DEF Tally
<1>9. Told(query, Office)' = Told(query, Office)
  BY <1>0, ToldSame
<1> HIDE DEF n
<1>10. figures' \in [Subjects(query) -> FigureRow]
  BY <1>0, <1>5, <1>6, <1>8 DEF FigureRow
<1>11. figures'[Office] = [figures[Office] EXCEPT !.customers = n] /\ figures[Office] \in FigureRow
  BY <1>0, <1>5, <1>6
<1>12. /\ figures'[Office].calls = figures[Office].calls
       /\ figures'[Office].connected = figures[Office].connected
       /\ figures'[Office].seconds = figures[Office].seconds
       /\ figures'[Office].customers = n
  BY <1>11 DEF FigureRow
<1>13. \A f \in {"calls", "connected", "seconds"} : Within(Office, f)'
  BY <1>0, <1>4, <1>5, <1>12, CountKeeps
<1>14. Within(Office, "customers")'
  <2>1. before[Office].customers <= Told(query, Office).customers
    BY <1>0, <1>5 DEF Recalled
  <2>2. n <= n
    BY <1>8
  <2>3. before' = before
    BY <1>0
  <2> QED BY <1>9, <1>12, <2>1, <2>2, <2>3 DEF Within, n
<1>15. figures[Office].calls > 0
  BY <1>0, <1>5 DEF FiguresRead
<1>16. figures'[Office].calls # 0
  BY <1>12, <1>15
<1>17. FiguresRead(Office)'
  BY <1>0, <1>1, <1>4, <1>13, <1>14, <1>16 DEF FiguresRead
<1>18. firstDay' \in FirstDays
  BY <1>0
<1> QED BY <1>5, <1>10, <1>17, <1>18 DEF DashInv, AnswerInv

(* The count of customers with intent touches no other figure.             *)
LEMMA CountIntentStep ==
  ASSUME Typed, DashInv, CountIntent
  PROVE  DashInv'
<1>0. /\ firstDay \in FirstDays /\ query \in Queries /\ ValidQuery(query) /\ AnswerInv
      /\ UNCHANGED <<vars, firstDay, query, before>> /\ "intent" \in stage
      /\ stage' = IF stage \ {"intent"} = {} THEN {"done"} ELSE stage \ {"intent"}
      /\ stage \in StagesOf(query.kind) /\ stage # {"summaries"}
      /\ figures \in [Subjects(query) -> FigureRow] /\ \A s \in Subjects(query) : FiguresRead(s)
  BY DEF DashInv, AnswerInv, Asked, CountIntent, Proceed
<1>1. query.kind = "overview"
  BY <1>0, QueryType DEF StagesOf
<1>2. stage \in {{"called", "intent"}, {"intent"}}
  BY <1>0, <1>1 DEF StagesOf
<1>3. stage' \in {{"called"}, {"done"}} /\ ("called" \in stage' <=> "called" \in stage)
  BY <1>0, <1>2
<1>4. stage' \in StagesOf(query.kind) /\ stage' # {"summaries"}
  BY <1>1, <1>3 DEF StagesOf
<1>5. Asked' /\ Subjects(query)' = {Office} /\ Subjects(query) = {Office}
  BY <1>0, <1>1, <1>4, ReadKeeps DEF Subjects
<1> DEFINE n == Cardinality({c \in Customers : Live(c) /\ customers[c].type = 1})
<1>6. figures' = [figures EXCEPT ![Office].intent = n]
  BY DEF CountIntent
<1>7. n \in Nat
  <2>1. IsFiniteSet({c \in Customers : Live(c) /\ customers[c].type = 1})
    BY DashboardAssumption, FS_Subset
  <2> QED BY <2>1, FS_CardinalityType
<1> HIDE DEF n
<1>8. figures' \in [Subjects(query) -> FigureRow]
  BY <1>0, <1>5, <1>6, <1>7 DEF FigureRow
<1>9. figures'[Office] = [figures[Office] EXCEPT !.intent = n] /\ figures[Office] \in FigureRow
  BY <1>0, <1>5, <1>6
<1>10. /\ figures'[Office].calls = figures[Office].calls
       /\ figures'[Office].connected = figures[Office].connected
       /\ figures'[Office].seconds = figures[Office].seconds
       /\ figures'[Office].customers = figures[Office].customers
       /\ figures'[Office].reached = figures[Office].reached
  BY <1>9 DEF FigureRow
<1>11. \A f \in {"calls", "connected", "seconds"} : Within(Office, f)'
  BY <1>0, <1>4, <1>5, <1>10, CountKeeps
<1>12. Told(query, Office)' = Told(query, Office) /\ before' = before /\ query' = query
  BY <1>0, ToldSame
<1>13. FiguresRead(Office)
  BY <1>0, <1>5
<1>14. "called" \notin stage' => Within(Office, "customers")'
  BY <1>1, <1>3, <1>10, <1>12, <1>13 DEF FiguresRead, Within
<1>15. figures'[Office].calls = 0 => figures'[Office].customers = 0 /\ figures'[Office].reached = 0
  BY <1>10, <1>13 DEF FiguresRead
<1>16. "called" \in stage' => figures'[Office].calls > 0
  BY <1>3, <1>10, <1>13 DEF FiguresRead
<1>17. FiguresRead(Office)'
  BY <1>1, <1>11, <1>12, <1>14, <1>15, <1>16 DEF FiguresRead
<1>18. firstDay' \in FirstDays
  BY <1>0
<1> QED BY <1>5, <1>8, <1>17, <1>18 DEF DashInv, AnswerInv

(* An agent without calls is not asked for, and stays at zero.             *)
LEMMA CountCustomersStep ==
  ASSUME Typed, DashInv, CountCustomers
  PROVE  DashInv'
<1>0. /\ firstDay \in FirstDays /\ query \in Queries /\ ValidQuery(query) /\ AnswerInv
      /\ UNCHANGED <<vars, firstDay, query, before>> /\ "customers" \in stage
      /\ stage' = IF stage \ {"customers"} = {} THEN {"done"} ELSE stage \ {"customers"}
      /\ stage \in StagesOf(query.kind) /\ stage # {"summaries"}
      /\ before \in [Subjects(query) -> Tally] /\ \A s \in Subjects(query) : Recalled(s)
      /\ figures \in [Subjects(query) -> FigureRow] /\ \A s \in Subjects(query) : FiguresRead(s)
  <2>1. "customers" \in stage
    BY DEF CountCustomers
  <2>2. stage \notin {{"idle"}, {"refused"}, {"summaries"}}
    BY <2>1
  <2>3. AnswerInv /\ Asked
    BY <2>2 DEF DashInv, AnswerInv
  <2> QED BY <2>1, <2>2, <2>3 DEF DashInv, AnswerInv, Asked, CountCustomers, Proceed
<1>1. query.kind = "monthly"
  BY <1>0, QueryType DEF StagesOf
<1>2. stage = {"customers"}
  BY <1>0, <1>1 DEF StagesOf
<1>3. stage' = {"done"}
  BY <1>0, <1>2
<1>4. stage' \in StagesOf(query.kind)
  BY <1>1, <1>3 DEF StagesOf
<1>5. Asked' /\ Subjects(query)' = Subjects(query)
  BY <1>0, <1>4, ReadKeeps
<1> DEFINE row(s) == [figures[s] EXCEPT !.customers = Told(query, s).customers,
                                        !.reached = Told(query, s).reached]
<1>6. figures' = [s \in Subjects(query) |-> IF figures[s].calls = 0 THEN figures[s] ELSE row(s)]
  <2>1. \A s : LogRows(query, s) = CallsOf(query, s)
    BY <1>0, LogRowsAreCalls
  <2>2. \A s : /\ Told(query, s).customers = Cardinality({l.customer : l \in CallsOf(query, s)})
               /\ Told(query, s).reached = Cardinality(Reached(CallsOf(query, s)))
    BY DEF Told
  <2>3. figures' = [s \in DOMAIN figures |->
       IF figures[s].calls = 0 THEN figures[s]
       ELSE [figures[s] EXCEPT !.customers = Cardinality({l.customer : l \in LogRows(query, s)}),
                               !.reached = Cardinality(Reached(LogRows(query, s)))]]
    BY DEF CountCustomers
  <2>4. DOMAIN figures = Subjects(query)
    BY <1>0
  <2> QED BY <2>1, <2>2, <2>3, <2>4
<1>7. ASSUME NEW s \in Subjects(query)
      PROVE  figures'[s] \in FigureRow /\ FiguresRead(s)'
  <2> DEFINE told == Told(query, s)
  <2>1. told \in Tally /\ (told.calls = 0 => told.customers = 0 /\ told.reached = 0)
    BY ToldType
  <2>2. told' = told /\ before' = before /\ query' = query
    BY <1>0, ToldSame
  <2>3. figures[s] \in FigureRow /\ FiguresRead(s) /\ before[s] \in Tally /\ Recalled(s)
    BY <1>0
  <2>4. figures'[s] = IF figures[s].calls = 0 THEN figures[s] ELSE row(s)
    BY <1>6
  <2>5. before[s].customers <= told.customers /\ before[s].reached <= told.reached
    BY <2>3 DEF Recalled
  <2>6. CASE figures[s].calls = 0
    <3>1. figures'[s] = figures[s]
      BY <2>4, <2>6
    <3>2. \A f \in {"calls", "connected", "seconds"} : Within(s, f)'
      BY <1>0, <1>4, <3>1, CountKeeps
    <3>3. before[s].calls <= figures[s].calls
      BY <2>3 DEF FiguresRead, Within
    <3>4. before[s].calls = 0
      BY <2>3, <2>6, <3>3 DEF Tally
    <3>5. before[s].customers = 0 /\ before[s].reached = 0
      BY <2>3, <3>4 DEF Recalled
    <3>6. figures[s].customers = 0 /\ figures[s].reached = 0
      BY <2>3, <2>6 DEF FiguresRead
    <3>7. told.customers \in Nat /\ told.reached \in Nat
      BY <2>1 DEF Tally
    <3> HIDE DEF told
    <3>8. Within(s, "customers")' /\ Within(s, "reached")'
      BY <2>2, <3>1, <3>5, <3>6, <3>7 DEF Within, told
    <3>9. FiguresRead(s)'
      BY <1>1, <1>3, <2>2, <2>6, <3>1, <3>2, <3>6, <3>8 DEF FiguresRead
    <3> QED BY <2>3, <3>1, <3>9
  <2>7. CASE figures[s].calls # 0
    <3>1. figures'[s] = row(s)
      BY <2>4, <2>7
    <3>2. told.customers \in Nat /\ told.reached \in Nat
      BY <2>1 DEF Tally
    <3> DEFINE m == told.customers
               n == told.reached
    <3>3. row(s) = [figures[s] EXCEPT !.customers = m, !.reached = n]
      OBVIOUS
    <3> HIDE DEF m, n, row
    <3>4. /\ row(s) \in FigureRow /\ row(s).calls = figures[s].calls
          /\ row(s).connected = figures[s].connected /\ row(s).seconds = figures[s].seconds
          /\ row(s).customers = m /\ row(s).reached = n
      BY <2>3, <3>2, <3>3 DEF FigureRow, m, n
    <3>5. \A f \in {"calls", "connected", "seconds"} : Within(s, f)'
      BY <1>0, <1>4, <3>1, <3>4, CountKeeps
    <3>6. m <= m /\ n <= n
      BY <3>2 DEF m, n
    <3>7. Within(s, "customers")' /\ Within(s, "reached")'
      BY <2>2, <2>5, <3>1, <3>4, <3>6 DEF Within, m, n
    <3>8. FiguresRead(s)'
      BY <1>1, <1>3, <2>2, <2>7, <3>1, <3>4, <3>5, <3>7 DEF FiguresRead
    <3> QED BY <3>1, <3>4, <3>8
  <2> QED BY <2>6, <2>7
<1>8. figures' \in [Subjects(query) -> FigureRow]
  BY <1>6, <1>7
<1>9. firstDay' \in FirstDays
  BY <1>0
<1> QED BY <1>5, <1>7, <1>8, <1>9 DEF DashInv, AnswerInv

(* Calls come in, and customers are deleted, while the answer is made.     *)
LEMMA ElsewhereStep ==
  ASSUME Typed, Typed', DashInv, Elsewhere
  PROVE  DashInv'
<1>1. UNCHANGED <<firstDay, query, stage, figures, before>> /\ callLogs \subseteq callLogs'
  BY LogOnlyGrows DEF Elsewhere, dashVars
<1>2. firstDay' \in FirstDays
  BY <1>1 DEF DashInv
<1>3. CASE stage \in {{"idle"}, {"refused"}}
  BY <1>1, <1>2, <1>3 DEF DashInv
<1>4. CASE stage \notin {{"idle"}, {"refused"}}
  <2>1. AnswerInv
    BY <1>4 DEF DashInv
  <2>2. stage' \in StagesOf(query.kind)
    BY <1>1, <2>1 DEF AnswerInv, Asked
  <2>3. Asked' /\ Subjects(query)' = Subjects(query)
    BY <1>1, <2>1, <2>2, AskedKept DEF AnswerInv, Subjects
  <2>4. ASSUME stage # {"summaries"}, NEW s \in Subjects(query)
        PROVE  FiguresRead(s)'
    <3> DEFINE told == Told(query, s)
               Fields == {"calls", "connected", "seconds", "customers", "reached"}
    <3>1. told \in Tally /\ told' \in Tally /\ \A f \in Fields : told[f] <= told'[f]
      BY <1>1, ToldType, ToldGrows
    <3>2. FiguresRead(s) /\ figures[s] \in FigureRow
      BY <2>1, <2>4 DEF AnswerInv
    <3>3. \A f \in Fields : figures[s][f] \in Nat /\ told[f] \in Nat /\ told'[f] \in Nat
      BY <3>1, <3>2 DEF Tally, FigureRow
    <3>4. \A f \in Fields : figures[s][f] <= told[f] => figures[s][f] <= told'[f]
      BY <3>1, <3>3
    <3>5. \A f \in Fields : Within(s, f) => Within(s, f)'
      BY <1>1, <3>4 DEF Within
    <3> QED BY <1>1, <3>2, <3>5 DEF FiguresRead
  <2> QED BY <1>1, <1>2, <2>1, <2>3, <2>4 DEF DashInv, AnswerInv
<1> QED BY <1>3, <1>4

(* Every step of the dashboard keeps its invariant.                        *)
LEMMA DashboardNext ==
  ASSUME Typed, LogInv, SummaryInv, DashInv, [NextDashboard]_<<vars, dashVars>>
  PROVE  DashInv'
<1>1. Typed'
  BY TablesKept
<1>2. CASE Ask
  BY <1>2, AskStep
<1>3. CASE ReadSummaries
  BY <1>3, ReadSummariesStep
<1>4. CASE CountCalled
  BY <1>4, CountCalledStep
<1>5. CASE CountIntent
  BY <1>5, CountIntentStep
<1>6. CASE CountCustomers
  BY <1>6, CountCustomersStep
<1>7. CASE QueryFails
  BY <1>7 DEF QueryFails, DashInv
<1>8. CASE Elsewhere
  BY <1>1, <1>8, ElsewhereStep
<1>9. CASE UNCHANGED <<vars, dashVars>>
  <2>1. UNCHANGED <<firstDay, query, stage, figures, before>> /\ UNCHANGED vars
    BY <1>9 DEF dashVars
  <2>2. firstDay' \in FirstDays
    BY <2>1 DEF DashInv
  <2>3. ASSUME AnswerInv PROVE AnswerInv'
    <3>1. Asked' /\ Subjects(query)' = Subjects(query)
      BY <2>1, <2>3, ReadKeeps DEF AnswerInv, Asked
    <3>2. \A s \in Subjects(query) : Told(query, s)' = Told(query, s)
      BY <2>1, ToldSame
    <3> QED BY <2>1, <2>3, <3>1, <3>2 DEF AnswerInv, FiguresRead, Within
  <2> QED BY <2>1, <2>2, <2>3 DEF DashInv
<1> QED BY <1>2, <1>3, <1>4, <1>5, <1>6, <1>7, <1>8, <1>9 DEF NextDashboard, AnswerQuery
-----------------------------------------------------------------------------
(* Theorems about the dashboard *)

(* While the dashboard is read, the tables keep what CallReport promises,  *)
(* and an answer under way is never outside its window.                    *)
THEOREM DashboardCorrect == SpecDashboard => [](Typed /\ LogInv /\ SummaryInv /\ DashInv)
<1>1. Typed /\ LogInv /\ SummaryInv /\ DashInv /\ [NextDashboard]_<<vars, dashVars>>
        => (Typed /\ LogInv /\ SummaryInv /\ DashInv)'
  BY TablesKept, DashboardNext
<1> QED BY <1>1, DashboardInit, PTL DEF SpecDashboard

(* Each figure of an answer lies between its value when the request came   *)
(* in and its value now, for every calendar day the model may begin with:  *)
(* the summaries by date and the log by instants mean the same period.     *)
THEOREM FiguresAreInWindow == SpecDashboard => []FiguresWithinWindow
<1>1. DashInv => FiguresWithinWindow
  <2> SUFFICES ASSUME DashInv, stage = {"done"}, NEW s \in Subjects(query), NEW f \in FieldsOf(query)
               PROVE  before[s][f] <= figures[s][f] /\ figures[s][f] <= Told(query, s)[f]
    BY DEF FiguresWithinWindow
  <2>1. AnswerInv
    BY DEF DashInv
  <2>2. FiguresRead(s)
    BY <2>1 DEF AnswerInv
  <2>3. query.kind \in {"overview", "daily", "monthly"}
    BY <2>1, QueryType DEF DashInv, AnswerInv, Asked
  <2>4. Within(s, f)
    BY <2>2, <2>3 DEF FiguresRead, FieldsOf
  <2> QED BY <2>4 DEF Within
<1> QED BY <1>1, DashboardCorrect, PTL

(* An answer never shows customers called without a call.                  *)
THEOREM NoCustomersWithoutCalls == SpecDashboard => []NoCallsNoCustomers
<1>1. DashInv => NoCallsNoCustomers
  BY DEF NoCallsNoCustomers, DashInv, AnswerInv, FiguresRead
<1> QED BY <1>1, DashboardCorrect, PTL
=============================================================================
