----------------------------- MODULE AppClient ------------------------------
(***************************************************************************)
(* The phone app reporting one call, as docs/app-api.md tells it to: it    *)
(* repeats the report under one clientRequestId until it is answered, on   *)
(* 401 it renews its access token and repeats the report, and when the     *)
(* renewal is refused with 403 it shows the login page.                    *)
(*                                                                         *)
(* The server's handlers of the two requests are here as far as one call   *)
(* of one agent can tell: a handler occupies a slot from the moment its    *)
(* request arrives until its answer arrives or is lost, and goes on        *)
(* working when the app has given it up.                                   *)
(***************************************************************************)
EXTENDS Naturals

CONSTANTS
  Slots,      \* bound: the requests in flight at the same time
  None,       \* no slot
  MaxChanges  \* bound: how often the world around the call changes

ASSUME ClientAssumption == None \notin Slots /\ MaxChanges \in Nat

VARIABLES
  app,      \* what the app sends next, or how it ended
  waits,    \* the slot whose answer the app waits for, or None
  through,  \* that request gets through: nothing fails and the app is patient
  access,   \* the app's access token has not expired
  at,       \* what the handler in a slot awaits next
  good,     \* the access token it will be checked for has not expired
  status,   \* its answer
  logged,   \* the rows of call_logs under the call's clientRequestId
  active, role, mine,
            \* the user is active, has role 2 or 3; the customer is live and his
  session,  \* in KV: "open", "ended" (expired, or logged out elsewhere), or
            \* "deleted" by a refresh
  changes   \* how often these, or the access token, have changed

client == <<app, waits, through, access>>
server == <<at, good, status, logged>>
world == <<active, role, session, mine, changes>>
vars == <<client, server, world>>

Ended == {"saved", "refused", "login"}

Init ==
  /\ app = "report" /\ waits = None /\ through = FALSE /\ access = TRUE
  /\ at = [s \in Slots |-> "free"]
  /\ good = [s \in Slots |-> FALSE]
  /\ status = [s \in Slots |-> 0]
  /\ logged = 0
  /\ active = TRUE /\ role = TRUE /\ mine = TRUE /\ session = "open"
  /\ changes = 0
-----------------------------------------------------------------------------
(* The app *)

Free(s) ==
  /\ at' = [at EXCEPT ![s] = "free"]
  /\ good' = [good EXCEPT ![s] = FALSE]
  /\ status' = [status EXCEPT ![s] = 0]

Send(s, label, luck) ==
  /\ waits = None
  /\ at[s] = "free"
  /\ at' = [at EXCEPT ![s] = label]
  /\ good' = [good EXCEPT ![s] = access /\ label = "auth"]
  /\ waits' = s
  /\ through' = luck
  /\ UNCHANGED <<app, access, status, logged, world>>

SendReport(s, luck) == app = "report" /\ Send(s, "auth", luck)
SendRefresh(s, luck) == app = "refresh" /\ Send(s, "get", luck)

(* What the app makes of an answer; 500 is tried again.                    *)
AfterReport(code) ==
  CASE code = 200 -> "saved"
    [] code = 401 -> "refresh"
    [] code \in {403, 404} -> "refused"
    [] code = 500 -> "report"

AfterRefresh(code) ==
  CASE code = 200 -> "report"
    [] code = 403 -> "login"
    [] code = 500 -> "refresh"

(* An answer the app no longer waits for is dropped.                       *)
Deliver(s) ==
  /\ at[s] = "answered"
  /\ Free(s)
  /\ \/ waits # s /\ UNCHANGED client
     \/ /\ waits = s
        /\ waits' = None /\ through' = FALSE
        /\ app' = IF app = "report" THEN AfterReport(status[s]) ELSE AfterRefresh(status[s])
        /\ access' = (access \/ (app = "refresh" /\ status[s] = 200))
  /\ UNCHANGED <<logged, world>>

TimeOut ==
  /\ waits # None /\ ~through
  /\ waits' = None
  /\ UNCHANGED <<app, through, access, server, world>>

LogIn ==
  /\ app = "login" /\ active
  /\ app' = "report" /\ access' = TRUE /\ session' = "open"
  /\ UNCHANGED <<waits, through, server, active, role, mine, changes>>
-----------------------------------------------------------------------------
(* The server *)

Goto(s, label) ==
  /\ at' = [at EXCEPT ![s] = label]
  /\ good' = [good EXCEPT ![s] = FALSE]
  /\ UNCHANGED <<client, status, active, role, mine, changes>>

Answer(s, code) ==
  /\ at' = [at EXCEPT ![s] = "answered"]
  /\ good' = [good EXCEPT ![s] = FALSE]
  /\ status' = [status EXCEPT ![s] = code]
  /\ UNCHANGED <<client, active, role, mine, changes>>

(* requireAuth and requireRoles([2, 3]) *)
Authenticate(s) ==
  /\ at[s] = "auth"
  /\ \/ ~(good[s] /\ active) /\ Answer(s, 401)
     \/ good[s] /\ active /\ ~role /\ Answer(s, 403)
     \/ good[s] /\ active /\ role /\ Goto(s, "lookup")
  /\ UNCHANGED <<logged, session>>

LookupRequestId(s) ==
  /\ at[s] = "lookup"
  /\ \/ logged > 0 /\ Answer(s, 200)
     \/ logged = 0 /\ Goto(s, "customer")
  /\ UNCHANGED <<logged, session>>

ReadCustomer(s) ==
  /\ at[s] = "customer"
  /\ \/ ~mine /\ \E code \in {403, 404} : Answer(s, code)
     \/ mine /\ Goto(s, "write")
  /\ UNCHANGED <<logged, session>>

(* Mutant: there is no unique index.                                       *)
ConflictsNever == FALSE

(* call_logs_user_client_request_unique *)
Conflicts == logged > 0

WriteLog(s) ==
  /\ at[s] = "write" /\ ~Conflicts
  /\ logged' = logged + 1
  /\ Answer(s, 200)
  /\ UNCHANGED session

WriteConflict(s) ==
  /\ at[s] = "write" /\ Conflicts
  /\ Goto(s, "conflict")
  /\ UNCHANGED <<logged, session>>

ResolveConflict(s) ==
  /\ at[s] = "conflict" /\ logged > 0
  /\ Answer(s, 200)
  /\ UNCHANGED <<logged, session>>

(* refreshService *)
GetSession(s) ==
  /\ at[s] = "get"
  /\ \/ session = "open" /\ Goto(s, "user")
     \/ session # "open" /\ Answer(s, 403)
  /\ UNCHANGED <<logged, session>>

(* Mutant: the user's status is not looked at.                             *)
ReadUserOfAnyStatus(s) ==
  /\ at[s] = "user"
  /\ Answer(s, 200)
  /\ UNCHANGED <<logged, session>>

(* Mutant: a refresh uses its token up, and its answer brings another.     *)
ReadUserAndRotate(s) ==
  /\ at[s] = "user"
  /\ \/ active /\ Answer(s, 200) /\ session' = "deleted"
     \/ ~active /\ Goto(s, "delete") /\ UNCHANGED session
  /\ UNCHANGED logged

ReadUser(s) ==
  /\ at[s] = "user"
  /\ \/ active /\ Answer(s, 200)
     \/ ~active /\ Goto(s, "delete")
  /\ UNCHANGED <<logged, session>>

DeleteSession(s) ==
  /\ at[s] = "delete"
  /\ Answer(s, 403)
  /\ session' = "deleted"
  /\ UNCHANGED logged

Handle(s) ==
  \/ Authenticate(s) \/ LookupRequestId(s) \/ ReadCustomer(s) \/ WriteLog(s)
  \/ WriteConflict(s) \/ ResolveConflict(s)
  \/ GetSession(s) \/ ReadUser(s) \/ DeleteSession(s)

Undisturbed(s) == waits = s /\ through

(* A call to the database or to KV rejects.                                *)
Fail(s) ==
  /\ at[s] \notin {"free", "answered"} /\ ~Undisturbed(s)
  /\ Answer(s, 500)
  /\ UNCHANGED <<logged, session>>

(* The Worker is cut off, or the answer does not arrive.                   *)
Lose(s) ==
  /\ at[s] # "free" /\ ~Undisturbed(s)
  /\ Free(s)
  /\ UNCHANGED <<client, logged, world>>
-----------------------------------------------------------------------------
(* The world around the call: the office, and the tokens' ends             *)

Toggled(flag) == flag' = ~flag

Change ==
  /\ changes < MaxChanges
  /\ changes' = changes + 1
  /\ \/ Toggled(active) /\ UNCHANGED <<role, session, mine, access, good>>
     \/ Toggled(role) /\ UNCHANGED <<active, session, mine, access, good>>
     \/ Toggled(mine) /\ UNCHANGED <<active, role, session, access, good>>
     \/ session = "open" /\ session' = "ended" /\ UNCHANGED <<active, role, mine, access, good>>
     \/ /\ access /\ Toggled(access)
        /\ good' = [s \in Slots |-> FALSE]
        /\ UNCHANGED <<active, role, session, mine>>
  /\ UNCHANGED <<app, waits, through, at, status, logged>>

AppStep ==
  \/ \E s \in Slots, luck \in BOOLEAN : SendReport(s, luck) \/ SendRefresh(s, luck)
  \/ TimeOut \/ LogIn

ServerStep(s) == Handle(s) \/ Fail(s) \/ Lose(s) \/ Deliver(s)

Next == AppStep \/ (\E s \in Slots : ServerStep(s)) \/ Change

(* The app goes on while the call is neither saved nor refused, and what   *)
(* is in flight ends some day.  Of the reports, and of the refreshes, that *)
(* it sends without end, endlessly many get through.  Nobody has to log in *)
(* or to change anything.                                                  *)
Fairness ==
  /\ WF_vars(\E s \in Slots, luck \in BOOLEAN : SendReport(s, luck) \/ SendRefresh(s, luck))
  /\ WF_vars(TimeOut)
  /\ \A s \in Slots : WF_vars(ServerStep(s))
  /\ SF_vars(\E s \in Slots : SendReport(s, TRUE))
  /\ SF_vars(\E s \in Slots : SendRefresh(s, TRUE))

Spec == Init /\ [][Next]_vars /\ Fairness
-----------------------------------------------------------------------------
(* Properties *)

(* However often the app repeats itself, gives up waiting, renews its      *)
(* token or logs in again, the call is in call_logs once at most, and it   *)
(* is there when the app is told that it is saved.                         *)
SavedOnce == logged <= 1 /\ (app = "saved" => logged = 1)

(* A report never hangs: in the end it is saved, refused, or the agent     *)
(* sees the login page.  Above all 401 and a renewed token cannot follow   *)
(* each other for ever, because a refresh looks at the user's status too.  *)
CallSettles == app \notin Ended ~> app \in Ended

(* If the agent stays active and in his role, keeps the customer, and his  *)
(* session does not run out, his call is saved, whatever is lost on the    *)
(* way and however often his access token expires meanwhile: a refresh     *)
(* whose answer is lost can be repeated.                                   *)
Undisputed == active /\ role /\ mine /\ session # "ended"
SteadyCallIsSaved == []Undisputed => <>(app = "saved")
=============================================================================
