# TLA+ models and proofs for telemark-backend

telemark-backend is the server of a tele-sales office: managers import lists of
customers, assign them to agents, and agents report their calls from a phone
app. It is one Cloudflare Worker (Hono) over D1, an SQLite database reached
through Drizzle, and a KV namespace for refresh tokens. These modules model what
its requests do to the shared tables when they overlap, fail and are repeated.
TLC checks them on small offices; TLAPS proves the properties of call reporting,
the customer desk, their composition over one database, imports, users, call
remarks, sessions, the phone app's retries, the dashboard and the walks through
lists for offices of any size.

Contents: [the system](#the-system), [how requests are modelled](#how-requests-are-modelled),
[the modules](#the-modules), [the runs](#the-runs), [fairness](#fairness),
[what is proved](#what-is-proved), [where code and documents differ](#where-code-and-documents-differ),
[what is not modelled](#what-is-not-modelled), [plan](#plan), [running it](#running-it).

## The system

| Component | State | Operations | Interacts through |
|---|---|---|---|
| Call reporting (`call.*.ts`) | `call_logs`, `agent_daily_summaries`; `status`, `type`, remark of `customers` | `POST /calls/report`, `GET /calls/my-summary` | reads the owner that the desk sets; writes rows the desk edits |
| Customer desk (`customer.*.ts`) | `customers`, `assignment_logs` | `assign`, `PATCH`, `DELETE`, `batch-update` | reads `users`; its rows are what agents report on |
| Batch import (`customer.*.ts`) | `batches`, `customers` | `POST /batches/import` | creates the customers of everybody else |
| Users (`user.*.ts`, `auth.service.ts`) | `users` | `POST`, `PATCH`, `DELETE /users`, `init-admin` | role and status decide what every other request may do |
| Common remarks (`common-call-remark.*.ts`) | `common_call_remarks` | `POST`, `PATCH`, `DELETE` | offered to the app, copied as text |
| Authentication (`auth.middleware.ts`) | none | `requireAuth`, `requireRoles` | reads `users` once, before the handler |
| Sessions (`auth.*.ts`, `crypto.ts`) | refresh tokens in KV, password hashes in `users` | login, refresh, logout, change password | issues the access tokens that authentication accepts |
| Dashboard (`dashboard.*.ts`) | none | overview, agent days, agent months | reads summaries, call logs and customers, in several queries |
| Lists (`query-builder.ts`, `call-log.*`, `assignment-log.*`, `batch.*`, my-customers) | none | pages and statistics | read only |
| The phone app (`docs/app-api.md`; its code is not in the repository) | one report, its tokens | repeats a report, renews its token | calls report and refresh until the call is settled |
| KVManager | none | get, put, delete, list | nothing calls it |
| Migrations, scripts, CORS, health check | schema | run by hand, or constant | - |

What makes each correct, and what is hard about it:

* **Call reporting.** A call is recorded once, whatever the app repeats; the day's
  summary is incremented and never recomputed, so it must never drift from the
  log. Hard: two attempts over one request id that both find nothing; answers
  lost after the commit; offline calls that arrive late and out of order;
  customers that change hands between the read and the transaction.
* **Customer desk.** Who owns a customer and what the assignment log says must
  agree; a deleted customer stays deleted. Hard: every handler decides on what
  it read one or two round trips ago.
* **Batch import.** A list is imported whole or not at all, and the counts in the
  answer are true. Hard: three round trips of which only the middle one is a
  transaction, a cleanup that may itself fail, and other imports of the same
  phones in between.
* **Users, remarks.** A unique name, looked up in one statement and written in
  another; edits of some columns that must leave the others to whoever wrote
  them last.
* **Sessions.** A disabled user is cut off at once, whatever tokens he holds; a
  password that was replaced is of no use; a session ends for a reason, and then
  for good. Hard: access tokens are kept nowhere and cannot be withdrawn; every
  edge reads KV through a cache of its own; answers are lost and asked for again;
  passwords are compared in one statement and written in another.
* **The phone app.** Repeating a report and renewing tokens comes to an end, with
  the call recorded once. Hard: a 401 that a renewal does not cure would repeat
  for ever; a handler goes on working after the app has given it up.
* **Dashboard.** Each figure of an answer lies between the truth when it was asked
  for and the truth when it is given. Hard: summaries are found by date and log
  rows by instants, which must mean the same period at the ends of months and
  years; the figures of one answer come from several statements.
* **Lists.** A search finds what contains the text, no character having a
  special meaning; a walk through
  the pages skips no row. Hard: escaping for `LIKE`; count, rows and the next page
  are separate statements over a table that changes.

## How requests are modelled

A Worker handles a request as an asynchronous function. Nothing is shared in
memory between requests (they may run in different isolates), so requests
interleave exactly at the statements they send to the database. Hence, in all
modules:

* one **action per await**: a database call is an action, the code between two
  calls belongs to the action of the first. `pc` or `stage` names the call that a
  handler awaits next;
* a **statement is atomic**, and so is `db.batch([...])`, which D1 runs as one
  transaction. Constraints of the schema (unique columns, the foreign key of
  `customers.batch_id`) are part of the statement's action;
* a **failure** is an action of its own at every await: the call rejects without
  effect, or it has committed and the answer was lost, or the Worker is cut off;
* a request is handled once. **A retry is another request** with the same body,
  which is how the app retries;
* the **controller's checks** are one step with the entry into the service, since
  nothing is awaited between them; bodies are records over small sets, with
  `wellFormed` for the checks of names and types that have no further effect;
* **texts, ids and phones** are model values. Times are numbers, and a business day
  is a fixed number of instants;
* authentication is the first await: where `users` is modelled it reads the
  caller's row, elsewhere it lets the request pass or not.

## The modules

| Module | Models | Lines of the code |
|---|---|---|
| `CustomerTable` | the `customers` table and each statement sent to it, as functions from table to table | `schema.ts`, `customer.repository.ts` |
| `CallLedger` | abstract: a call is recorded once and acknowledged as recorded | what `POST /calls/report` promises |
| `CallReport` | `POST /calls/report` | `call.controller.ts`, `call.service.ts`, `call.repository.ts` |
| `CallReportProofs` | theorems on `CallReport`, on the `Dashboard` that reads its tables, and on `BusinessCalendar` | - |
| `ClientProofs` | theorems on `ListPages` and `AppClient` | - |
| `CustomerDesk` | assign, PATCH, DELETE, batch-update | `customer.controller.ts`, `customer.service.ts`, `customer.repository.ts` |
| `LeadOffice` | `CallReport` and `CustomerDesk` over one database | `index.ts` |
| `BatchImport` | `POST /batches/import` | `customer.service.ts:210-256` |
| `UniqueTable` | abstract: a table with a unique column, never shrinking | the unique columns of `schema.ts` |
| `CommonRemarks` | POST, PATCH, DELETE of call remarks | `common-call-remark.*.ts` |
| `UserAdmin` | POST, PATCH, DELETE of users, `init-admin` | `user.*.ts`, `auth.service.ts:286-330` |
| `Sessions` | login, refresh, logout, change-password, and `requireAuth` before any other request | `auth.*.ts`, `crypto.ts` |
| `AppClient` | the app's loop around one report, with the handlers it calls | `call.*.ts`, `auth.*.ts`; the app from `docs/app-api.md` |
| `BusinessCalendar` | dates, months, where a month ends, when a day of Shanghai begins | `dashboard.controller.ts`, `dashboard.service.ts` |
| `Dashboard` | overview, agents of a day, agents of a month, while calls are recorded | `dashboard.*.ts` |
| `ListPages` | six lists walked page by page | `query-builder.ts` and the repositories and services of the lists |
| `CustomerDeskProofs`, `LeadOfficeProofs`, `BatchImportProofs`, `UserAdminProofs`, `CommonRemarkProofs`, `SessionProofs` | theorems on the module of that name | - |
| `MC...` | the small instances that TLC checks | - |

**CallReport.** `callLogs` is a set of rows, each marked with the attempt that wrote
it (the autoincrement id); `summaries` maps agent and day to the row of
`agent_daily_summaries`, a missing row being `NoSummary`. A handler goes from
`idle` through `lookup` (the request id, only when the body names one), `customer`
(live, and the caller's), `write` (the transaction of log row, customer and
summary) to `respond`, or through `conflict` when the unique index
`(user_id, client_request_id)` refuses the insert. `reportTime` is `endedAt ?? now`,
computed when the customer has been read. `retried` is a history variable: the
attempt's call was in the log when the attempt arrived. `Environment` is what
others do to `customers`: one action per statement of the customer repository,
without conditions, so that the properties hold whatever the desk does.

**CustomerDesk.** `seen` keeps the owners an assignment read; the log rows are built
from it. `deletedBy` stands for `deleted_by`, `deleted_at` and `delete_reason`, all
written by one statement. `Environment` is a call report's statement on a
customer, and the user administration's on a user.

**LeadOffice.** Both components share `customers`; authentication of a report reads
`users`. The two environments disappear, and `ReportsAsSpecified` and
`DeskAsSpecified` check that each component is an allowed environment of the
other. What is proved of `CallReport` therefore holds in the office.

**BatchImport.** `customers` is a set of rows with their phone, name and batch.
`Trim` maps what was typed to what is stored. The groups of 24 rows into which
the insert is cut are one transaction, hence not visible; the mutant
`InsertSomeCustomers` shows what would happen otherwise.

**CommonRemarks, UserAdmin.** The tables are sequences, since ids are handed out one
after the other and rows are never removed. `Keep` is a field the body does not
name (`undefined` in Drizzle's `set`, which leaves the column alone). Both are shown
to implement `UniqueTable`: the column by id is what the mapping keeps.
`UserAdmin` starts from one of several deployments: staffed, empty, or without
an administrator, on the development secret or not.

**Sessions.** A refresh token is a key of `kv` and bears the name of the login that made
it; `cache` is what each edge has copied of it. A deleted session stays in `kv`
marked `deleted`, so that an edge with an old copy can be told from one without.
Access tokens are records of user and expiry, held by nobody. A request
presents any token that some client has been handed. `rowsSince` (the rows of
`users` while the request was handled) and `spent` (its token had been logged
out, and the client told so) are history variables. `Tick`, `EditUser` and `DropCopy`
are the environment: time, the user administration, a copy that goes stale.

**AppClient.** A request occupies a slot until its answer arrives or is lost, and
its handler works on when the app has given it up. `through` says of a request
that nothing goes wrong with it; fairness speaks of it. `Change` is the world
around the call: the user, his role, the customer, the session, the end of the
access token.

**Dashboard.** EXTENDS `CallReport` and records calls as its transaction does; the
reports start past their checks. `firstDay` is the calendar date of day 0. `stage` is the
set of statements awaited (`Promise.all` sends several). `before` and `Told` are the
figures counted from the log by business day, when the request came in and now.

**ListPages.** `query` fixes list, owner filter, needle, order and page size; `CountRows`
and `SelectRows` are the two statements of a page, `Others` what else happens to
the table (`edits` counts it). `escapeLikeValue` and SQLite's `Like` are functions on
sequences of characters: `Like` scans the pattern once and keeps the positions of
the text that it may have reached (`LikeStep`), comparing letters of ASCII without
case as SQLite does (`Lower`). Both are compared with `ContainsNeedle`: in either
case a text contains the needle, for batches (`instr`) in the case that was typed. A row is shown on the page that the rows `Ahead` of it leave it. Its
initial states, steps and specification are `InitWalk`, `NextWalk` and `SpecWalk`, like
`SpecDashboard` above, so that one module of proofs can take in two models.

Definitions named `...Any...`, `...Only`, `...Unchecked` and the like whose comment
starts with "Mutant:" are plausible bugs of the code. They are not part of any
specification: each is put in place of the definition it varies, one at a time,
to see that the property concerned then fails.

## The runs

| Run | Question | Instance |
|---|---|---|
| `call_report` | is a call recorded once, are answers true, do summaries match the log, do the handlers implement the ledger? | 2 agents, 1 customer, 2 attempts, all 8 bodies (malformed, unknown customer, ...), 3 instants in 2 days |
| `customer_desk` | do owners and log agree, is deletion final? | 2 customers, 3 requests out of 10 (6 that write, 4 that are refused), a user being disabled or promoted, calls being reported |
| `lead_office` | do the components fit together? | 1 customer, 2 attempts, 2 console requests, 2 users |
| `batch_import` | all or nothing, true counts, no orphans | 3 imports, 6 bodies over 3 phones |
| `common_remarks` | uniqueness, edits against switching off | 3 requests out of 11 |
| `user_admin` | uniqueness, edits against each other | 3 requests out of 16, 3 deployments |
| `sessions` | are disabled users cut off, are replaced passwords useless, do sessions end for a reason and for good? | 1 user, 2 requests of every kind, 2 edges, 1 open session, 3 instants |
| `app_client` | is the call recorded once, does the loop end, and with the call saved where nothing speaks against it? | 2 requests in flight, 3 changes of the world |
| `dashboard` | are figures true between the beginning and the end of an answer? | 2 agents, 2 customers, 3 calls in 2 days; day 0 is 2023-12-31, 2024-02-28, 2023-02-28 or 2024-07-15 |
| `list_pages` | do searches find plain text, do walks skip nothing? | 3 rows first and 5 at most, 2 changes, needles with `%`, `_`, `\` and a letter in both cases, pages of 1 and 2 |
| `call_own_live`, `sessions_logout` | counterexamples, see [below](#where-code-and-documents-differ) | as `call_report`; 3 refreshes and logouts of one session |

*Why these bounds are enough.* All hazards here are races of a read and a later
write with one or two other writers. Two attempts race for one request id, or
are the original and its retry, and two agents cover a request id used by both;
the theorems below cover any number of attempts, a loser that is retried
included. One customer is enough for reports, which name one customer and never relate two; the desk
takes two, because an assignment or a batch writes several. Two business days
with at least one of two instants let calls arrive out of order on the same day
and on different days. One session is enough, because no request relates two; two
edges are the one that deletes and the one that remembers, and time passes both
lifetimes, which are 1 and 2 instants. Two slots are the request the app waits for and one it
has given up. The first days of the dashboard are followed by the end of a year, by a leap
day, by the end of a short February, and by nothing special. Five rows over
pages of one or two make walks of up to five pages, with rows coming in before,
at and behind the page in hand. For unique columns two writers collide, and a third edits
the row that one of them made. Attempts and operations are interchangeable, and
symmetry is used over them where a run checks no refinement that names them.
Liveness is checked only in `app_client`, which uses no symmetry. All bounds are
constants: `MaxTime` and `DayLength` for time; `MaxChanges` and `MaxEdits` for what others do;
`Slots`, `Ids` and the sets of attempts, operations, requests and imports; and the limits
of the code, `MaxAssign`, `MaxBatch`, `MaxRows` (50, 500 and 1000 there, 2, 2 and 4 here),
`DefaultSize` and `MaxSize` of a page (1 and 2 here), `AccessTtl` and `RefreshTtl`,
small enough for a body, a list or a run to exceed them.

`CHECK_DEADLOCK FALSE` is set in all runs: each request is handled once, and the
model stops when all of them are done and the clock has reached its end.

*What the runs show.*

* `OneLogPerRequest`, `AcceptedIsLogged`, `RetryIsNeverRefused`: reporting is idempotent. The unique
  index decides races; the look-up that precedes all checks makes a retry
  independent of what has become of the customer.
* `SummaryTotalsMatchLogs`, `SummaryTimesMatchLogs`: the summary of a day equals what one would
  compute from the log, for calls, connected calls, seconds and first and last
  time.
* `ImplementsLedger`: all answers 200 to one request id agree.
* `OwnerIsLogged`, `FromUserWasOwner`, `CountIsLogged`: the assignment log accounts for owners.
* `DeletedIsFinal`: nothing brings a deleted customer back or gives it to anybody.
* `CallerWasAssigned`, `StatusHasOrigin`: over both components, an agent with a call on record was once
  assigned the customer, and a status comes from a report or an edit.
* `AllOrNothing`, `AnswerIsTrue`, `CustomersHaveTheirBatch`, `CustomersAreFirstRows`: a list is imported whole or
  not at all, answers count what happened, and no cleanup removes a batch in use.
* `ImplementsUniqueTable`, `DisabledUntilEnabled`, `OnlyNamedColumnsChange`: users and remarks are unique
  whatever look-ups raced, and an edit under way undoes no other.
* `ServedWhileActive`, `KnewThePassword`: an answer 200 means that the user was active, and the
  password in force, at some moment while the request was handled: `users` is
  read in every request, and tokens alone are worth nothing.
* `RefusedSessionIsGone`, `LogoutIsFinal`: a refresh is refused with 403 only for a session that was
  logged out, has expired, or was refreshed while its user was disabled; and
  once a deleted session has left all caches and handlers, nothing revives it.
* `SavedOnce`, `CallSettles`, `SteadyCallIsSaved`: the app's loop records a call at most once, always
  ends (saved, refused or at the login page), and ends saved if user, role,
  customer and session stay as they are.
* `FiguresWithinWindow`, `NoCallsNoCustomers`: the dashboard's figures lie between the truth at the
  beginning and at the end of the request, and never show customers without calls.
* `ListMatchesFilter`, `WalkSkipsNothing`: searches take special characters for themselves and
  letters in either case (batches: as typed); a walk shows
  every row it should, unless some row left the list under way.

## Fairness

All modules but one state safety properties, and refinements of specifications
without liveness; they assume no fairness, since the Worker platform promises
no answer: it may cut any request off.

Progress can only be claimed of a client that retries, and `AppClient` claims it, under

* weak fairness of sending, of giving up waiting, and of each slot: the app repeats a
  report until it is answered (`docs/app-api.md:45-49`), and a request in flight is
  answered, fails or is lost some day;
* strong fairness of sending a request that gets through, for reports and for
  refreshes: of the requests sent without end, not all are lost. Any single one,
  and any number in a row, may be.

Nobody has to log in again or to change anything, and how a handler chooses
between its outcomes is left open. `MaxChanges` bounds how often the world changes, the
end of the access token included: an app whose token ended before every report
would get nowhere, and with twelve hours of life it does not.

## What is proved

With TLAPS, for any number of users, customers, requests, bodies, tokens, edges and
instants, from the assumptions on the constants that the modules name: null
values are no values, bodies are bodies and finite, time is a natural number, a
well-formed creation names what it creates, trimming is a function on the
spellings, the rows a table starts with are distinct, the customers whose calls
are counted are finitely many, day 0 is a calendar day from 2000 on (years
below 100 are taken for others, see below), ids are natural numbers, texts are
sequences over characters among which are `%`, `_` and the backslash, lower case is
a function on the characters that leaves those three alone, and the sizes of pages are natural numbers, the default and the largest not 0.

| Module | Theorem | Says |
|---|---|---|
| `CallReportProofs` | `TypesHold` | `Spec => []TypeOK` |
| | `Idempotent` | `Spec => []OneLogPerRequest` |
| | `AcceptedCallsAreLogged` | `Spec => []AcceptedIsLogged` |
| | `RetriesAreNotRefused` | `Spec => []RetryIsNeverRefused` |
| | `Refinement` | `Spec => ImplementsLedger` |
| | `TotalsMatch`, `TimesMatch` | `Spec => []SummaryTotalsMatchLogs`, `Spec => []SummaryTimesMatchLogs` |
| | `MonthOfRange` | a date from 2000 on is in `MonthRange(p)` exactly if its month is `p` |
| | `PeriodsAgree` | `InTimeRange(q, t) <=> InDateRange(q, CivilDate[BusinessDate(t)])` |
| | `DashboardCorrect` | `SpecDashboard => [](Typed /\ LogInv /\ SummaryInv /\ DashInv)` |
| | `FiguresAreInWindow` | `SpecDashboard => []FiguresWithinWindow` |
| | `NoCustomersWithoutCalls` | `SpecDashboard => []NoCallsNoCustomers` |
| `CustomerDeskProofs` | `TypesHold` | `Spec => []TypeOK` |
| | `OwnersAreLogged`, `FromUsersWereOwners` | `Spec => []OwnerIsLogged`, `Spec => []FromUserWasOwner` |
| | `CountsAreLogged` | `Spec => []CountIsLogged` |
| | `DeletionsAreFinal` | `Spec => DeletedIsFinal` |
| `LeadOfficeProofs` | `ReportsImplemented`, `DeskImplemented` | `Spec => ReportsAsSpecified`, `Spec => DeskAsSpecified` |
| | `CallersWereAssigned`, `StatusesHaveOrigin` | `Spec => []CallerWasAssigned`, `Spec => []StatusHasOrigin` |
| `BatchImportProofs` | `TypesHold` | `Spec => []TypeOK` |
| | `ImportsAreAtomic`, `CountsAreTrue` | `Spec => []AllOrNothing`, `Spec => []AnswerIsTrue` |
| | `NoOrphans` | `Spec => []CustomersHaveTheirBatch` |
| | `FirstRowsAreKept` | `Spec => []CustomersAreFirstRows` |
| `UserAdminProofs` | `TypesHold` | `Spec => []TypeOK` |
| | `UsersAreUnique` | `Spec => ImplementsUniqueTable` |
| | `NamesStayUnique` | `Spec => []UniqueNames /\ RowsKept` |
| | `ColumnsAreNamed` | `Spec => OnlyNamedColumnsChange` |
| `CommonRemarkProofs` | `TypesHold`, `RemarksAreUnique` | `Spec => []TypeOK`, `Spec => ImplementsUniqueTable` |
| | `ContentsStayUnique` | `Spec => []UniqueContents /\ RowsKept` |
| | `DisabledStayOff` | `Spec => DisabledUntilEnabled` |
| `SessionProofs` | `TypesHold` | `Spec => []TypeOK` |
| | `DisabledAreCutOff`, `PasswordsAreKnown` | `Spec => []ServedWhileActive`, `Spec => []KnewThePassword` |
| | `LogoutsAreFinal` | `Spec => LogoutIsFinal` |
| | `SessionsEndWithReason` | `Spec => []RefusedSessionIsGone` |
| `ClientProofs` | `SearchFinds` | `MatchesText(q.list, text, q.needle) <=> ContainsNeedle(q.list, text, q.needle)`, for all texts and needles |
| | `WalksInvariant` | `SpecWalk => []ListInv` |
| | `ListsMatch`, `WalksSkipNothing` | `SpecWalk => []ListMatchesFilter`, `SpecWalk => []WalkSkipsNothing` |
| | `CallSavedOnce` | `Spec => []SavedOnce` |

None of the invariants is inductive as it stands; each is strengthened by what a
handler that awaits a statement has already established (`PastChecks`, `Progress`,
`Established`), and by what makes its own write safe:

* **Reports.** `Typed` adds to `TypeOK` that past its checks a handler has a valid type and
  remark, a customer that exists and a time; without it the transaction could
  write an ill-typed row. `LogInv` adds that a row of the log belongs to an attempt
  that has written (`RowsAreWritten`) and that an attempt about to respond has its row
  (`WrittenHasRow`): a new row cannot repeat a request id, since the transaction is
  enabled only where the index has no conflict. `RetryInv` adds that a retried
  attempt is at its look-up or done, with the row still there, so that it never
  reaches the reads that could refuse it.
* **Summaries.** The log is finite and the new row is not in it yet; the proofs follow
  the cardinalities of the day's sets through one insertion.
* **Ledger.** A log row maps to a ledger entry, an answer 200 to an acknowledgement:
  `WriteBatch` records, the replies from the log or after the write acknowledge,
  everything else stutters.
* **Desk.** `Inv` adds `SeenOnRecord`: an owner that an assignment has read is nobody, or the
  target of some log row. Logs only grow, so that a stale owner remains on record.
  `Counted` adds that an operation has no log row before it is done; the transaction
  then adds one row per customer read, and a bijection between the two sets gives
  the count.
* **Office.** `Inv` adds that the owner of a customer has a log row that gives it to him
  (`OwnersAssigned`), that a report about to write has met its customer in his hands
  (`CallInv`), that an operation not yet answered has status 0 and knows its kind
  (`DeskInv`), and where each status comes from (`Origins`). Each step of the console
  is then shown to be a step that the environment of `CallReport` may take
  (`ManageSteps`), and each step of a report silent or a record for the desk
  (`ReportSteps`).
* **Imports.** `Inv` adds `RowsAreKept` (a customer is the row its import keeps for its phone) and
  `Progress` (before the insert an import has no customers; from the insert on it has
  its batch until it cleans up itself; at the count all its phones are taken). That
  a kept row is the first of its phone uses the well-foundedness of `<`; that no
  more rows are kept than given, an injection of kept rows into the body.
* **Users and remarks.** Beside types, a handler beyond its look-up knows a name (a
  content), and the row of an edit exists, since rows are never removed. Each step
  then leaves the table alone, appends a row or edits one, and the two writes are
  conditioned on the unique column itself. For users the row of an edit differs
  from the old one only where the body says so (`NamedBy`). `NamesStayUnique` and
  `ContentsStayUnique` are drawn from the refinement: what `UniqueTable` does to its
  column neither repeats a value nor loses an id.
* **Sessions.** `Established` carries, from statement to statement, a row of the user under
  which the request may go on; `Earned` is what an answer 200 has to show; `SharedInv`
  says that a session is in the namespace before it is in a cache or a hand, and
  that a login's is put there once. For `LogoutIsFinal` each step is shown to take up no
  deleted session that was in no hand, and to copy none (`BringsNothingBack`). For
  `RefusedSessionIsGone` a second invariant, `Reasoned`, follows the reason of an end from
  the request that has it, through the mark in the namespace and the copies of the
  edges, to the answer 403; reasons last (`ReasonLasts`).
* **App.** The answer that the app waits for is of the kind it asked for, and an answer
  200 to a report comes with the row (`WaitsForReport`, `WaitsForRefresh`, `EndIsFinal`).
* **Dashboard.** Recording calls keeps the invariants of `CallReport`, and `DashInv` adds, for
  each figure that has been read, that it lies between `before` and `Told`, and that a
  count of customers is awaited only where there were calls. `Told` only grows, since
  log rows are never removed. What a statement reads is `Told` itself at that moment:
  the rows of summaries that it sums are disjoint sets of log rows
  (`SummariesCorrect`), and the period it asks for is that of the request. The latter needs
  the calendar: dates are ordered as their day numbers are, successive dates
  have successive numbers, and a month ends where the next begins, for every
  year from 2000 on (`DatesAreOrdered`, `MonthOfRange`, `PeriodsAgree`).
* **Lists.** Escaping leaves a pattern of literal characters between two `%`; by induction on
  the needle, the positions that `Like` has reached are the ends of what matches so far
  in lower case (`SearchFinds`; in the history only for needles without special characters, see
  [below](#where-code-and-documents-differ)). For a walk, `WalkInv` says that a row of the
  list it began with was shown, or has at least `Offset` rows ahead of it. The ranks of
  n rows are a bijection to 0..n-1, so that a page that is not reached by a row is
  full, and the walk goes on. It holds as long as no row has left the list (`left`): rows
  that come in can push a row back, never forward.

What is proved of `CallReport` and of `CustomerDesk` therefore holds in the office, by
`ReportsImplemented` and `DeskImplemented`, wherever its constants satisfy the
assumptions of the two.

All invariants, action properties and refinements that the passing runs check are
theorems. Only model-checked are the two liveness properties of the app, `CallSettles`
and `SteadyCallIsSaved`: fairness and `ENABLED` are out of the prover's reach. So are
induction theorems that take an operator as a parameter; where a proof needs induction it
goes over a set of numbers or texts instead (`LeastNat`, `NatByInduction` and
`SeqByInduction` in `ClientProofs`, from the well-foundedness of `<`). No module has a
`RECURSIVE` operator.

## Where code and documents differ

Two of the differences are runs in which TLC finds the counterexample:

| Run | Property | Document | Code |
|---|---|---|---|
| `call_own_live` | `ReportsOnlyOwnLiveCustomers` | `docs/api.md:1383`: only own live customers can be reported on | the batch in `call.repository.ts:98` looks at the id alone, after the check |
| `sessions_logout` | `LoggedOutIsRefused` | `docs/api.md:165`, `docs/app-api.md:179`: after logout the token cannot be used to refresh | KV is eventually consistent: `auth.service.ts:177` may find a copy of what `:233` deleted |

The others follow from actions of the modules or from reading, and no run is spent on
them:

* `callResult` 0 is accepted (`call.controller.ts:29`) and leaves the customer pending, while
  `docs/app-api.md:515` says that a reported customer leaves the list;
* an assignment writes its log rows unconditionally (`customer.repository.ts:351`), also for a
  customer deleted after it was read (`docs/api.md:1167`);
* `batch-update` checks that its customers are live and writes by id (`customer.repository.ts:301`,
  `docs/api.md:966`); so does a second deletion, which replaces who deleted the customer
  (`customer.repository.ts:293`, `docs/api.md:907`);
* `init-admin` looks for administrators only, and does not repeat that in its insert
  (`auth.service.ts:287`, `docs/api.md:43`);
* two assignments that read the same owner log the same previous owner
  (`customer.service.ts:300`), so that the rows of a customer need not form a chain;
  `FromUserWasOwner` is what holds instead (`docs/api.md:1162`);
* the target of an assignment is checked at `customer.service.ts:266` and not again: one
  disabled or promoted in between becomes the owner (`docs/api.md:1166`);
* the failure of an import's cleanup is swallowed (`customer.service.ts:245`): the empty
  batch stays (`docs/api.md:524`);
* a customer that is not the caller's is answered 403 (`call.service.ts:71`), where
  `docs/app-api.md:555` says 404;
* an access token lives 12 hours (`crypto.ts:1`), not the 15 minutes of the comment at `:45`;
* the history's and the dashboard's searches escape `%` and `_` but give `LIKE` no `ESCAPE`
  (`customer.repository.ts:382`, `dashboard.repository.ts:91`): such a
  character is found only behind a backslash;
* `LIKE` ignores the case of ASCII letters and `instr` does not, so that the same
  letters find customers and calls in either case (`query-builder.ts:119`) and batches
  only as typed (`batch.repository.ts:131`); `docs/api.md:556` and `:1054` call both a
  fuzzy search;
* `updatedCount` of an assignment is the number of customers read
  (`customer.service.ts:311`), also of those deleted before the write, which
  stay as they are (`docs/api.md:1154`); only `loggedCount` is in a property;
* `startDate` and `endDate` of the call logs are compared with `date(created_at)`, the UTC
  date (`call-log.repository.ts:108`), while all other dates are of Shanghai;
* years below 100 pass as months, and `Date.UTC` takes them for years of the 20th century.

## What is not modelled

* Of the dashboard: rates and averages, sorting, paging and name filters, all computed
  from one answer. Of the lists: numeric and date filters, other sort columns, the
  history's order by `updatedAt` (every edit moves a row, no walk can rely on it).
* Batch statistics: one aggregate over one snapshot, and two ratios of it.
* Passwords and tokens as encodings (SHA-256, HMAC, base64url): signatures and digests are
  taken to be ideal. The secret of `JWT_SECRET` and the development secret appear
  only where `init-admin` asks for them.
* `KVManager.ts` (unused), CORS headers, health check, scripts, and migrations except for
  the rows that 0008 seeds.
* Limits of the platform, such as D1's 100 parameters per statement; a statement that
  exceeds one fails, and failing is modelled.
* Dates as texts: the dashboard compares `YYYY-MM-DD` strings, the model triples of
  numbers, which agree for years of four digits.
* Columns that no property tells apart: companies, free texts, `created_by` and `updated_by`
  of remarks. Times are numbers, not ISO strings.

## Plan

Done: call reporting with its ledger, the desk and their composition, imports, unique
tables, sessions, the app's loop, the dashboard with its calendar, the lists, and the
proofs listed above, which now cover every safety property that a run checks. Left: to
state in the office itself what `ReportsImplemented` and `DeskImplemented` carry over from
the components (`OneLogPerRequest`, `OwnerIsLogged` and the others), and that the
figures of a day's agents add up to those of the office.

## Running it

    tlc -config MCCallReport.cfg MCCallReport      # one run; see PROJECT.json for all of them
    tlapm CallReportProofs.tla                     # one module of proofs

`PROJECT.json` lists the components, the runs with their properties, the mutants that
show each property to be breakable, the source lines behind every definition, the
hazards of the code with the properties that watch them, and the theorems.
