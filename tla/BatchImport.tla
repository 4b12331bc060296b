---------------------------- MODULE BatchImport -----------------------------
(***************************************************************************)
(* POST /api/batches/import: a manager uploads a list of customers.        *)
(*                                                                         *)
(* The batch row, the customers and the count are three round trips to the *)
(* database, and only the customers are one transaction: another import    *)
(* may run between them, each may fail, and a statement may commit and its *)
(* answer be lost.  customers.phone is unique; a phone that is taken is    *)
(* skipped.  Nothing else in the program changes phones or batches, and    *)
(* customers are never removed.                                            *)
(***************************************************************************)
EXTENDS Integers, Sequences, FiniteSets

CONSTANTS
  Imports,    \* requests, each handled once; its batch is named after it
  Phones,     \* phone numbers as they are stored
  NoPhone,    \* what trimming leaves of a row without a phone
  Spellings,  \* phone numbers as they are typed
  Trim,       \* Trim[s]: the phone that s spells, or NoPhone
  Names,      \* customer names
  Bodies,     \* the lists the console sends
  MaxRows     \* MAX_IMPORT_CUSTOMERS

InputRow == [phone : Spellings, name : Names]
Body == [wellFormed : BOOLEAN, rows : Seq(InputRow)]  \* name, source and cost

ASSUME ImportAssumption ==
  /\ NoPhone \notin Phones
  /\ Trim \in [Spellings -> Phones \cup {NoPhone}]
  /\ Bodies \subseteq Body
  /\ MaxRows \in Nat

VARIABLES
  batches,    \* the batches table: the imports whose batch is in it
  customers,  \* the customers table: phone, name, batch_id
  stage,      \* what the handler of an import awaits next
  body,       \* the body the import comes with
  answer      \* the answer to the import

vars == <<batches, customers, stage, body, answer>>

-----------------------------------------------------------------------------
CustomerRow == [phone : Phones, name : Names, batch : Imports]

NoAnswer == [status |-> 0]
Refused(code) == [status |-> code]
Imported(count, skipped) == [status |-> 200, imported |-> count, skipped |-> skipped]

(* The rows of an import, their phones trimmed.                            *)
PhoneAt(i, k) == Trim[body[i].rows[k].phone]
PhonesOf(i) == {PhoneAt(i, k) : k \in DOMAIN body[i].rows} \ {NoPhone}

(* Mutant: the last row of a phone replaces the earlier ones.              *)
KeptRowLast(i, p) ==
  CHOOSE k \in DOMAIN body[i].rows :
    PhoneAt(i, k) = p /\ \A j \in k + 1..Len(body[i].rows) : PhoneAt(i, j) # p

(* uniqueCustomers keeps the first row of a phone.                         *)
KeptRow(i, p) ==
  CHOOSE k \in DOMAIN body[i].rows :
    PhoneAt(i, k) = p /\ \A j \in 1..(k - 1) : PhoneAt(i, j) # p

Row(i, p) == [phone |-> p, name |-> body[i].rows[KeptRow(i, p)].name, batch |-> i]

Taken == {row.phone : row \in customers}
RowsOf(i) == {row \in customers : row.batch = i}

(* insert ... on conflict (phone) do nothing, for a set of phones.         *)
Insert(i, phones) == customers \cup {Row(i, p) : p \in phones \ Taken}

ValidBody(b) ==
  /\ b.wellFormed
  /\ Len(b.rows) <= MaxRows
  /\ \E k \in DOMAIN b.rows : Trim[b.rows[k].phone] # NoPhone

Init ==
  /\ batches = {}
  /\ customers = {}
  /\ stage = [i \in Imports |-> "idle"]
  /\ body \in [Imports -> Bodies]
  /\ answer = [i \in Imports |-> NoAnswer]

-----------------------------------------------------------------------------
Await(i, label) ==
  /\ stage' = [stage EXCEPT ![i] = label]
  /\ UNCHANGED <<body, answer>>

Answer(i, a) ==
  /\ stage' = [stage EXCEPT ![i] = "done"]
  /\ answer' = [answer EXCEPT ![i] = a]
  /\ UNCHANGED body

(* requireAuth and requireRoles([1, 2]) let the request pass, or not, or   *)
(* the look-up of the user fails.                                          *)
Receive(i) ==
  /\ stage[i] = "idle"
  /\ \/ \E code \in {401, 403, 500} : Answer(i, Refused(code))
     \/ ValidBody(body[i]) /\ Await(i, "batch")
     \/ ~ValidBody(body[i]) /\ Answer(i, Refused(400))
  /\ UNCHANGED <<batches, customers>>

CreateBatch(i) ==
  /\ stage[i] = "batch"
  /\ batches' = batches \cup {i}
  /\ Await(i, "insert")
  /\ UNCHANGED customers

(* createBatch is outside the try: its error is not followed by a cleanup, *)
(* whether the row was inserted or not.                                    *)
CreateBatchFails(i) ==
  /\ stage[i] = "batch"
  /\ batches' \in {batches, batches \cup {i}}
  /\ Answer(i, Refused(500))
  /\ UNCHANGED customers

(* Mutant: the groups of rows are statements of their own, and the Worker  *)
(* is cut off between two of them.                                         *)
InsertSomeCustomers(i) ==
  /\ stage[i] = "insert"
  /\ \E phones \in SUBSET PhonesOf(i) : customers' = Insert(i, phones)
  /\ Answer(i, NoAnswer)
  /\ UNCHANGED batches

(* All groups of rows, in one transaction.                                 *)
InsertCustomers(i) ==
  /\ stage[i] = "insert"
  /\ customers' = Insert(i, PhonesOf(i))
  /\ Await(i, "count")
  /\ UNCHANGED batches

(* The transaction is rolled back, or only the news of it is lost.         *)
InsertFails(i) ==
  /\ stage[i] = "insert"
  /\ customers' \in {customers, Insert(i, PhonesOf(i))}
  /\ Await(i, "cleanup")
  /\ UNCHANGED batches

(* Mutant: customers.batch_id does not reference batches.                  *)
CleanUpUnreferenced(i) ==
  /\ stage[i] = "cleanup"
  /\ batches' = batches \ {i}
  /\ Answer(i, Refused(500))
  /\ UNCHANGED customers

(* deleteBatchById(...).catch(() => undefined): the delete fails, be it by *)
(* the foreign key of customers or otherwise, or the batch goes.           *)
CleanUp(i) ==
  /\ stage[i] = "cleanup"
  /\ \/ batches' = batches
     \/ RowsOf(i) = {} /\ batches' = batches \ {i}
  /\ Answer(i, Refused(500))
  /\ UNCHANGED customers

(* Mutant: the rows dropped from the body itself are not counted.          *)
CountUniqueRows(i) ==
  /\ stage[i] = "count"
  /\ LET count == Cardinality(RowsOf(i)) IN
     Answer(i, Imported(count, Cardinality(PhonesOf(i)) - count))
  /\ UNCHANGED <<batches, customers>>

(* Mutant: the difference is taken the wrong way round.                    *)
CountSwapped(i) ==
  /\ stage[i] = "count"
  /\ LET count == Cardinality(RowsOf(i)) IN
     Answer(i, Imported(count, count - Len(body[i].rows)))
  /\ UNCHANGED <<batches, customers>>

(* importedCount and skippedDuplicateCount.                                *)
Count(i) ==
  /\ stage[i] = "count"
  /\ LET count == Cardinality(RowsOf(i)) IN
     Answer(i, Imported(count, Len(body[i].rows) - count))
  /\ UNCHANGED <<batches, customers>>

CountFails(i) ==
  /\ stage[i] = "count"
  /\ Answer(i, Refused(500))
  /\ UNCHANGED <<batches, customers>>

(* The Worker is cut off: no answer, and no cleanup.                       *)
CutOff(i) ==
  /\ stage[i] # "done"
  /\ Answer(i, NoAnswer)
  /\ UNCHANGED <<batches, customers>>

Handle(i) ==
  \/ Receive(i)
  \/ CreateBatch(i) \/ CreateBatchFails(i)
  \/ InsertCustomers(i) \/ InsertFails(i) \/ CleanUp(i)
  \/ Count(i) \/ CountFails(i)
  \/ CutOff(i)

Next == \E i \in Imports : Handle(i)

Spec == Init /\ [][Next]_vars
-----------------------------------------------------------------------------
(* Properties *)

(* The variables hold rows, labels and answers of the declared kinds.      *)
TypeOK ==
  /\ batches \subseteq Imports
  /\ customers \subseteq CustomerRow
  /\ stage \in [Imports -> {"idle", "batch", "insert", "cleanup", "count", "done"}]
  /\ body \in [Imports -> Bodies]
  /\ answer \in [Imports -> {NoAnswer} \cup {Refused(code) : code \in {400, 401, 403, 500}}
                            \cup [status : {200}, imported : Nat, skipped : Nat]]

(* An import is all or nothing: once one customer is in the table under    *)
(* its batch, every phone of its body is a customer, of this or an earlier *)
(* batch.  No failure, loss or other import leaves half a list behind.     *)
AllOrNothing ==
  \A i \in Imports : RowsOf(i) # {} => PhonesOf(i) \subseteq Taken

(* The answer 200 counts what the import did: the customers of its batch,  *)
(* every other row of the body as skipped, and none of the phones missing. *)
AnswerIsTrue ==
  \A i \in Imports : answer[i].status = 200 =>
    /\ answer[i].imported = Cardinality(RowsOf(i))
    /\ answer[i].imported + answer[i].skipped = Len(body[i].rows)
    /\ PhonesOf(i) \subseteq Taken

(* The batch of a customer is in the batches table, also when the insert   *)
(* committed, its answer was lost and the cleanup ran.                     *)
CustomersHaveTheirBatch == \A row \in customers : row.batch \in batches

(* A customer is the first row of its phone in the body of its batch.      *)
CustomersAreFirstRows ==
  \A row \in customers :
    \E k \in DOMAIN body[row.batch].rows :
      /\ PhoneAt(row.batch, k) = row.phone
      /\ body[row.batch].rows[k].name = row.name
      /\ \A j \in 1..(k - 1) : PhoneAt(row.batch, j) # row.phone
=============================================================================
