--------------------------- MODULE CommonRemarks ----------------------------
(***************************************************************************)
(* The remarks the app offers after a call, as managers maintain them:     *)
(* POST, PATCH and DELETE /common-call-remarks.                            *)
(*                                                                         *)
(* POST and PATCH look whether the content is taken and write in another   *)
(* statement, so that two requests may both find it free; the unique       *)
(* column then refuses the second one.  DELETE only switches a remark off. *)
(***************************************************************************)
EXTENDS Naturals, Sequences

CONSTANTS
  Operations,   \* requests, each handled once
  Requests,     \* the bodies the console sends
  Contents,     \* remark texts
  Seeded,       \* the contents the migration inserts
  Keep          \* a field the body does not name

Remark == [content : Contents, sortOrder : Nat, status : {0, 1}]

RemarkRequest ==
  [kind : {"create", "update", "disable"}, wellFormed : BOOLEAN, id : Nat,
   content : Contents \cup {Keep}, sortOrder : Nat \cup {Keep}, status : {0, 1, Keep}]

ASSUME RemarkAssumption ==
  /\ Keep \notin Contents /\ Keep \notin Nat
  /\ Requests \subseteq RemarkRequest
  /\ \A r \in Requests : r.kind = "create" /\ r.wellFormed => r.content # Keep
  /\ Seeded \in Seq(Contents)
  /\ \A i, j \in DOMAIN Seeded : Seeded[i] = Seeded[j] => i = j

VARIABLES
  remarks,    \* the rows of common_call_remarks, by id
  stage,      \* what the handler of an operation awaits next
  request,    \* the request the operation comes with
  result      \* the status of the answer to it

vars == <<remarks, stage, request, result>>

-----------------------------------------------------------------------------
Given(value, default) == IF value = Keep THEN default ELSE value

Exists(o) == request[o].id \in DOMAIN remarks

(* findByContent, and the unique column.                                   *)
Taken(content) == \E i \in DOMAIN remarks : remarks[i].content = content

(* set({content, sortOrder, status}), in which undefined leaves a column   *)
(* as it is.                                                               *)
Patched(row, r) ==
  [content |-> Given(r.content, row.content),
   sortOrder |-> Given(r.sortOrder, row.sortOrder),
   status |-> Given(r.status, row.status)]

Init ==
  /\ remarks = [i \in DOMAIN Seeded |->
       [content |-> Seeded[i], sortOrder |-> 10 * i, status |-> 1]]
  /\ stage = [o \in Operations |-> "idle"]
  /\ request \in [Operations -> Requests]
  /\ result = [o \in Operations |-> 0]

Await(o, label) ==
  /\ stage' = [stage EXCEPT ![o] = label]
  /\ UNCHANGED <<remarks, request, result>>

Answer(o, status) ==
  /\ stage' = [stage EXCEPT ![o] = "done"]
  /\ result' = [result EXCEPT ![o] = status]
  /\ UNCHANGED request

(* The row is written; the database's word of it may be lost.              *)
Written(o) == \E status \in {200, 500} : Answer(o, status)

Refuse(o, status) == Answer(o, status) /\ UNCHANGED remarks

(* requireAuth and requireRoles([1, 2]) let the request pass, or not; the  *)
(* controller checks id and body.                                          *)
FirstAwait(r) ==
  CASE r.kind = "create" -> "duplicate"
    [] r.kind = "update" -> "existing"
    [] r.kind = "disable" -> "disable"

Receive(o) ==
  /\ stage[o] = "idle"
  /\ \/ \E status \in {401, 403} : Refuse(o, status)
     \/ request[o].wellFormed /\ Await(o, FirstAwait(request[o]))
     \/ ~request[o].wellFormed /\ Refuse(o, 400)

FindExisting(o) ==
  /\ stage[o] = "existing"
  /\ LET r == request[o] IN
     \/ ~Exists(o) /\ Refuse(o, 404)
     \/ /\ Exists(o)
        /\ IF r.content \notin {Keep, remarks[r.id].content}
           THEN Await(o, "duplicate") ELSE Await(o, "update")

FindDuplicate(o) ==
  /\ stage[o] = "duplicate"
  /\ IF Taken(request[o].content)
     THEN Refuse(o, 409)
     ELSE Await(o, IF request[o].kind = "create" THEN "insert" ELSE "update")

(* Mutant: the column is not unique.                                       *)
InsertUnchecked(o) ==
  /\ stage[o] = "insert"
  /\ LET r == request[o] IN
     /\ remarks' = Append(remarks,
          [content |-> r.content, sortOrder |-> Given(r.sortOrder, 0),
           status |-> Given(r.status, 1)])
     /\ Written(o)

(* Mutant: the controller does not supply the default sort order.          *)
InsertWithoutDefault(o) ==
  /\ stage[o] = "insert"
  /\ LET r == request[o] IN
     IF Taken(r.content) THEN Refuse(o, 500)
     ELSE /\ remarks' = Append(remarks,
               [content |-> r.content, sortOrder |-> r.sortOrder,
                status |-> Given(r.status, 1)])
          /\ Written(o)

(* A unique conflict is not caught: the answer is 500.                     *)
Insert(o) ==
  /\ stage[o] = "insert"
  /\ LET r == request[o] IN
     IF Taken(r.content) THEN Refuse(o, 500)
     ELSE /\ remarks' = Append(remarks,
               [content |-> r.content, sortOrder |-> Given(r.sortOrder, 0),
                status |-> Given(r.status, 1)])
          /\ Written(o)

(* Mutant: a missing status becomes 1, as it does on creation.             *)
UpdateDefaulting(o) ==
  /\ stage[o] = "update"
  /\ LET r == request[o] IN
     IF r.content # Keep /\ \E j \in DOMAIN remarks \ {r.id} : remarks[j].content = r.content
     THEN Refuse(o, 500)
     ELSE /\ remarks' = [remarks EXCEPT ![r.id] =
               Patched(@, [r EXCEPT !.status = Given(@, 1)])]
          /\ Written(o)

Update(o) ==
  /\ stage[o] = "update"
  /\ LET r == request[o] IN
     IF r.content # Keep /\ \E j \in DOMAIN remarks \ {r.id} : remarks[j].content = r.content
     THEN Refuse(o, 500)
     ELSE /\ remarks' = [remarks EXCEPT ![r.id] = Patched(@, r)]
          /\ Written(o)

Disable(o) ==
  /\ stage[o] = "disable"
  /\ \/ ~Exists(o) /\ Refuse(o, 404)
     \/ /\ Exists(o)
        /\ remarks' = [remarks EXCEPT ![request[o].id].status = 0]
        /\ Written(o)

(* A statement fails without effect, or the Worker is cut off.             *)
Fail(o) ==
  /\ stage[o] # "done"
  /\ Refuse(o, 500)

Handle(o) ==
  \/ Receive(o)
  \/ FindExisting(o) \/ FindDuplicate(o)
  \/ Insert(o) \/ Update(o) \/ Disable(o)
  \/ Fail(o)

Next == \E o \in Operations : Handle(o)

Spec == Init /\ [][Next]_vars
-----------------------------------------------------------------------------
(* Properties *)

(* The variables hold rows, labels and answers of the declared kinds.      *)
TypeOK ==
  /\ remarks \in Seq(Remark)
  /\ stage \in [Operations -> {"idle", "existing", "duplicate", "insert", "update",
                               "disable", "done"}]
  /\ request \in [Operations -> Requests]
  /\ result \in [Operations -> {0, 200, 400, 401, 403, 404, 409, 500}]

Table == INSTANCE UniqueTable WITH
  Keys <- Contents,
  keys <- [i \in DOMAIN remarks |-> remarks[i].content]

(* The table of remarks is a unique table: however requests interleave     *)
(* between look-up and write, no content is there twice, and none leaves.  *)
ImplementsUniqueTable == Table!Spec

(* A remark that was switched off is offered again only when a PATCH says  *)
(* so: edits of its text or order that are under way do not revive it.     *)
DisabledUntilEnabled ==
  [][\A i \in DOMAIN remarks :
       remarks[i].status = 0 /\ remarks'[i].status = 1 =>
         \E o \in Operations :
           /\ stage[o] = "update" /\ stage'[o] = "done"
           /\ request[o].id = i /\ request[o].status = 1]_vars
=============================================================================
