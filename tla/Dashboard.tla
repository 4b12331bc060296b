----------------------------- MODULE Dashboard ------------------------------
(***************************************************************************)
(* The dashboard, read while calls are being reported: the overview of a   *)
(* day, the agents of a day, the agents of a month.  A figure comes from   *)
(* the daily summaries, by date, or from call_logs, by the instants        *)
(* between which the dates lie; one answer is put together from several    *)
(* statements, and calls are recorded in between.                          *)
(*                                                                         *)
(* A call is recorded as CallReport records it.  Sorting, paging and the   *)
(* rates, computed from the figures of one answer, are left out.           *)
(***************************************************************************)
EXTENDS CallReport, BusinessCalendar, Functions

CONSTANTS
  Office,     \* all agents together, the subject of the overview
  FirstDays,  \* the dates that day 0 of the model may be
  BadDates, BadMonths  \* texts of the right form that are no date, no month

(* No call was made before 2000: only then UtcYear would show in a figure. *)
ASSUME DashboardAssumption ==
  /\ Office \notin Users
  /\ IsFiniteSet(Customers)
  /\ FirstDays \subseteq {d \in Nat \X (1..12) \X (1..31) : d[1] >= 2000 /\ IsValidDate(d)}
  /\ BadDates \subseteq Nat \X Nat \X Nat
  /\ BadMonths \subseteq Nat \X Nat

VARIABLES
  firstDay,  \* the date of day 0
  query,     \* the request: its kind, its date or month, its agent
  stage,     \* the statements that are awaited, or what else there is to say
  figures,   \* what has been read so far, by subject
  before     \* history: the figures when the request came in

dashVars == <<firstDay, query, stage, figures, before>>

CivilDate[n \in Dates] == IF n = 0 THEN firstDay ELSE NextDate(CivilDate[n - 1])

Figures == [calls |-> 0, connected |-> 0, seconds |-> 0, customers |-> 0, reached |-> 0,
            intent |-> 0]

(* agentMonthly with role 3 is asked for the caller himself.               *)
Subjects(q) == IF q.kind = "overview" THEN {Office} ELSE q.agents
AgentsOf(s) == IF s = Office THEN Users ELSE {s}

Month(date) == <<date[1], date[2]>>
Periods(kind) ==
  LET dates == {CivilDate[n] : n \in Dates} IN
  IF kind = "monthly" THEN {Month(d) : d \in dates} \cup BadMonths ELSE dates \cup BadDates
Queries ==
  UNION {[kind : {k}, period : Periods(k), agents : {Users} \cup {{u} : u \in Users}]
         : k \in {"overview", "daily", "monthly"}}

ValidQuery(q) ==
  IF q.kind = "monthly" THEN IsValidMonth(q.period) ELSE IsValidDate(q.period)

(* The reports have passed their checks and are about to write; nothing    *)
(* they did before shows in a figure, and some may never get to write.     *)
ReportsThatWrite == {i \in Inputs : ValidBody(i) /\ i.customer \in Customers}

InitDashboard ==
  /\ clock = MaxTime
  /\ customers = [c \in Customers |-> ImportedRow]
  /\ callLogs = {}
  /\ summaries = [u \in Users |-> [d \in Dates |-> NoSummary]]
  /\ pc = [a \in Attempts |-> "write"]
  /\ input \in [Attempts -> ReportsThatWrite]
  /\ reportTime \in [Attempts -> Instants]
  /\ \A a \in Attempts : input[a].endedAt \in {NoTime, reportTime[a]}
  /\ reply = [a \in Attempts |-> NoReply]
  /\ retried = [a \in Attempts |-> FALSE]
  /\ firstDay \in FirstDays
  /\ query = [kind |-> "none"]
  /\ stage = {"idle"}
  /\ figures = <<>> /\ before = <<>>
-----------------------------------------------------------------------------
(* What the rows say of a period: the calls whose business day is in it.   *)

InPeriod(q, date) == IF q.kind = "monthly" THEN Month(date) = q.period ELSE date = q.period
CallsOf(q, s) ==
  {l \in callLogs : l.user \in AgentsOf(s) /\ InPeriod(q, CivilDate[BusinessDate(l.callTime)])}
Reached(calls) == {l.customer : l \in {k \in calls : k.callResult = 1}}

Told(q, s) ==
  LET calls == CallsOf(q, s)
      connected == {l \in calls : Connected(l)}
  IN [calls |-> Cardinality(calls), connected |-> Cardinality(connected),
      seconds |-> Cardinality(Seconds(connected)),
      customers |-> Cardinality({l.customer : l \in calls}),
      reached |-> Cardinality(Reached(calls))]
-----------------------------------------------------------------------------
(* The statements *)

(* date = ?, or date >= start and date < end *)
InDateRange(q, date) ==
  IF q.kind = "monthly"
  THEN ~Before(date, MonthRange(q.period)[1]) /\ Before(date, MonthRange(q.period)[2])
  ELSE date = q.period

(* findDailySummaryMetrics, findAgentDailyRows, findAgentMonthlySummaryRows *)
SummaryRows(q, s) ==
  {r \in AgentsOf(s) \X Dates :
     summaries[r[1]][r[2]].totalCalls > 0 /\ InDateRange(q, CivilDate[r[2]])}

Summed(q, s) ==
  LET rows == SummaryRows(q, s)
      Row(r) == summaries[r[1]][r[2]]
  IN [Figures EXCEPT !.calls = SumFunction([r \in rows |-> Row(r).totalCalls]),
                     !.connected = SumFunction([r \in rows |-> Row(r).connectedCalls]),
                     !.seconds = SumFunction([r \in rows |-> Row(r).totalDuration])]

(* call_time >= start and call_time < end *)
InTimeRange(q, t) ==
  IF q.kind = "monthly"
  THEN /\ t >= DayStart(firstDay, DayLength, MonthRange(q.period)[1])
       /\ t < DayStart(firstDay, DayLength, MonthRange(q.period)[2])
  ELSE /\ t >= DayStart(firstDay, DayLength, q.period)
       /\ t < NextDayStart(firstDay, DayLength, q.period)

LogRows(q, s) == {l \in callLogs : l.user \in AgentsOf(s) /\ InTimeRange(q, l.callTime)}
-----------------------------------------------------------------------------
(* The handler *)

Ask ==
  /\ stage = {"idle"}
  /\ query' \in Queries
  /\ IF ValidQuery(query')
     THEN /\ stage' = {"summaries"}
          /\ before' = [s \in Subjects(query') |-> Told(query', s)]
     ELSE stage' = {"refused"} /\ UNCHANGED before
  /\ UNCHANGED <<vars, firstDay, figures>>

(* Mutant: the overview asks for its counts on a day without calls too.    *)
CountsAfterAlways(q) ==
  CASE q.kind = "overview" -> {"called", "intent"}
    [] q.kind = "daily" -> {}
    [] q.kind = "monthly" -> {"customers"}

(* What is asked next: nothing for the agents of a day, and nothing if     *)
(* there are no summaries.                                                 *)
CountsAfter(q) ==
  IF \A s \in Subjects(q) : SummaryRows(q, s) = {} THEN {}
  ELSE CASE q.kind = "overview" -> {"called", "intent"}
         [] q.kind = "daily" -> {}
         [] q.kind = "monthly" -> {"customers"}

Proceed(counts) == stage' = IF counts = {} THEN {"done"} ELSE counts

ReadSummaries ==
  /\ stage = {"summaries"}
  /\ figures' = [s \in Subjects(query) |-> Summed(query, s)]
  /\ Proceed(CountsAfter(query))
  /\ UNCHANGED <<vars, firstDay, query, before>>

(* The two counts of the overview are under way together.                  *)
CountCalled ==
  /\ "called" \in stage
  /\ figures' = [figures EXCEPT ![Office].customers =
                   Cardinality({l.customer : l \in LogRows(query, Office)})]
  /\ Proceed(stage \ {"called"})
  /\ UNCHANGED <<vars, firstDay, query, before>>

CountIntent ==
  /\ "intent" \in stage
  /\ figures' = [figures EXCEPT ![Office].intent =
                   Cardinality({c \in Customers : Live(c) /\ customers[c].type = 1})]
  /\ Proceed(stage \ {"intent"})
  /\ UNCHANGED <<vars, firstDay, query, before>>

(* Only the agents that have summaries are asked for.                      *)
CountCustomers ==
  /\ "customers" \in stage
  /\ figures' = [s \in DOMAIN figures |->
       IF figures[s].calls = 0 THEN figures[s]
       ELSE LET calls == LogRows(query, s)
            IN [figures[s] EXCEPT !.customers = Cardinality({l.customer : l \in calls}),
                                  !.reached = Cardinality(Reached(calls))]]
  /\ Proceed(stage \ {"customers"})
  /\ UNCHANGED <<vars, firstDay, query, before>>

QueryFails ==
  /\ stage \cap {"idle", "done", "refused"} = {}
  /\ stage' = {"refused"}
  /\ UNCHANGED <<vars, firstDay, query, figures, before>>

AnswerQuery ==
  Ask \/ ReadSummaries \/ CountCalled \/ CountIntent \/ CountCustomers \/ QueryFails

(* Of the other handlers only the transaction of a report and the deletion *)
(* of a customer show in a figure.                                         *)
Elsewhere ==
  /\ (\E a \in Attempts : WriteBatch(a)) \/ (\E c \in Customers : CustomerDeleted(c))
  /\ UNCHANGED dashVars

NextDashboard == AnswerQuery \/ Elsewhere

SpecDashboard == InitDashboard /\ [][NextDashboard]_<<vars, dashVars>>
-----------------------------------------------------------------------------
(* Properties *)

FieldsOf(q) ==
  CASE q.kind = "overview" -> {"calls", "connected", "seconds", "customers"}
    [] q.kind = "daily" -> {"calls", "connected", "seconds"}
    [] q.kind = "monthly" -> {"calls", "connected", "seconds", "customers", "reached"}

(* Each figure of an answer lies between its value when the request came   *)
(* in and its value now, counted from the log by the calls' business days: *)
(* the summaries by date and the log by instants mean the same period, at  *)
(* the end of a year and of February too, and no call is lost or counted   *)
(* twice between the statements.                                           *)
FiguresWithinWindow ==
  stage = {"done"} =>
    \A s \in Subjects(query), f \in FieldsOf(query) :
      before[s][f] <= figures[s][f] /\ figures[s][f] <= Told(query, s)[f]

(* An answer never shows customers called without a call, although calls   *)
(* come in between its statements: the summaries are read first, and on a  *)
(* day without any the log is not asked at all.                            *)
NoCallsNoCustomers ==
  stage = {"done"} =>
    \A s \in Subjects(query) :
      figures[s].calls = 0 => figures[s].customers = 0 /\ figures[s].reached = 0
=============================================================================
