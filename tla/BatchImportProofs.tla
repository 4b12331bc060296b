------------------------- MODULE BatchImportProofs --------------------------
(***************************************************************************)
(* BatchImport, for any number of imports, of lists of any length, under   *)
(* any spelling of their phones: an import is all or nothing, its answer   *)
(* counts what it did, and no customer is without its batch.               *)
(***************************************************************************)
EXTENDS BatchImport, FiniteSetTheorems, WellFoundedInduction, TLAPS

Labels == {"idle", "batch", "insert", "cleanup", "count", "done"}
Answers == {NoAnswer} \cup {Refused(code) : code \in {400, 401, 403, 500}}
           \cup [status : {200}, imported : Nat, skipped : Nat]

(* A customer is the row that its import keeps for its phone.              *)
RowsAreKept ==
  \A row \in customers : row.phone \in PhonesOf(row.batch) /\ row = Row(row.batch, row.phone)

TrueCount(i, a) ==
  /\ a.imported = Cardinality(RowsOf(i))
  /\ a.imported + a.skipped = Len(body[i].rows)
  /\ PhonesOf(i) \subseteq Taken

(* What the handler of i has done when it awaits its next statement.       *)
Progress(i) ==
  /\ stage[i] \in {"idle", "batch", "insert"} => RowsOf(i) = {}
  /\ stage[i] \in {"insert", "cleanup", "count"} => i \in batches
  /\ stage[i] = "count" => PhonesOf(i) \subseteq Taken
  /\ stage[i] # "done" => answer[i] = NoAnswer

Inv ==
  /\ TypeOK
  /\ RowsAreKept
  /\ \A i \in Imports : Progress(i)
  /\ AllOrNothing
  /\ AnswerIsTrue
  /\ CustomersHaveTheirBatch

-----------------------------------------------------------------------------
(* The rows of one import *)

LEMMA LeastElement ==
  ASSUME NEW S \in SUBSET Nat, S # {}
  PROVE  \E k \in S : \A j \in S : k <= j
<1> DEFINE R == {ss \in Nat \X Nat : ss[1] < ss[2]}
<1>1. IsWellFoundedOn(R, Nat)
  BY NatLessThanWellFounded DEF OpToRel
<1>2. \A k, j \in Nat : j < k => <<j, k>> \in R
  OBVIOUS
<1> HIDE DEF R
<1>3. PICK k \in S : \A j \in S : <<j, k>> \notin R
  BY <1>1, WFMin
<1>4. \A j \in S : ~(j < k)
  BY <1>2, <1>3
<1> QED BY <1>4

LEMMA BodyTypes ==
  ASSUME TypeOK, NEW i \in Imports
  PROVE  /\ body[i].rows \in Seq(InputRow)
         /\ \A k \in DOMAIN body[i].rows : PhoneAt(i, k) \in Phones \cup {NoPhone}
         /\ PhonesOf(i) \subseteq Phones
<1>1. body[i].rows \in Seq(InputRow)
  BY ImportAssumption DEF TypeOK, Body
<1>2. ASSUME NEW k \in DOMAIN body[i].rows
      PROVE  PhoneAt(i, k) \in Phones \cup {NoPhone}
  <2>1. body[i].rows[k] \in InputRow
    BY <1>1
  <2>2. body[i].rows[k].phone \in Spellings
    BY <2>1 DEF InputRow
  <2> QED BY <2>2, ImportAssumption DEF PhoneAt
<1> QED BY <1>1, <1>2 DEF PhonesOf

(* The bodies stay, and what is computed from them alone.                  *)
LEMMA BodyStays ==
  ASSUME body' = body
  PROVE  \A i : PhonesOf(i)' = PhonesOf(i) /\ \A p : Row(i, p)' = Row(i, p)
BY DEF PhonesOf, Row, KeptRow, PhoneAt

(* uniqueCustomers finds a first row for every phone of the body.          *)
LEMMA KeptRowIsFirst ==
  ASSUME TypeOK, NEW i \in Imports, NEW p \in PhonesOf(i)
  PROVE  /\ KeptRow(i, p) \in DOMAIN body[i].rows
         /\ PhoneAt(i, KeptRow(i, p)) = p
         /\ \A j \in 1..(KeptRow(i, p) - 1) : PhoneAt(i, j) # p
<1> DEFINE S == {k \in DOMAIN body[i].rows : PhoneAt(i, k) = p}
<1>1. /\ body[i].rows \in Seq(InputRow)
      /\ DOMAIN body[i].rows = 1..Len(body[i].rows) /\ Len(body[i].rows) \in Nat
  BY BodyTypes
<1>2. S # {} /\ S \in SUBSET Nat
  BY <1>1 DEF PhonesOf
<1> HIDE DEF S
<1>3. PICK k \in S : \A j \in S : k <= j
  BY <1>2, LeastElement
<1>4. k \in DOMAIN body[i].rows /\ PhoneAt(i, k) = p
  BY <1>3 DEF S
<1>5. \A j \in 1..(k - 1) : PhoneAt(i, j) # p
  <2> SUFFICES ASSUME NEW j \in 1..(k - 1), PhoneAt(i, j) = p PROVE FALSE
    OBVIOUS
  <2>1. j \in DOMAIN body[i].rows /\ j < k
    BY <1>1, <1>4
  <2>2. j \in S
    BY <2>1 DEF S
  <2> QED BY <1>1, <1>3, <1>4, <2>1, <2>2
<1>6. \E n \in DOMAIN body[i].rows :
        PhoneAt(i, n) = p /\ \A j \in 1..(n - 1) : PhoneAt(i, j) # p
  BY <1>4, <1>5
<1> QED BY <1>6 DEF KeptRow

LEMMA RowTypes ==
  ASSUME TypeOK, NEW i \in Imports, NEW p \in PhonesOf(i)
  PROVE  Row(i, p) \in CustomerRow /\ Row(i, p).phone = p /\ Row(i, p).batch = i
<1>1. p \in Phones
  BY BodyTypes
<1>2. body[i].rows[KeptRow(i, p)] \in InputRow
  BY BodyTypes, KeptRowIsFirst
<1> QED BY <1>1, <1>2 DEF Row, CustomerRow, InputRow

(* An import has at most one customer for each row of its body: distinct   *)
(* customers come from distinct rows.                                      *)
LEMMA RowsAreCounted ==
  ASSUME TypeOK, RowsAreKept, NEW i \in Imports
  PROVE  /\ Cardinality(RowsOf(i)) \in Nat
         /\ Cardinality(RowsOf(i)) <= Len(body[i].rows) /\ Len(body[i].rows) \in Nat
<1> DEFINE T == 1..Len(body[i].rows)
           f == [row \in RowsOf(i) |-> KeptRow(i, row.phone)]
<1>1. Len(body[i].rows) \in Nat /\ DOMAIN body[i].rows = T
  BY BodyTypes
<1>2. \A row \in RowsOf(i) : row.phone \in PhonesOf(i) /\ row = Row(i, row.phone)
  BY DEF RowsAreKept, RowsOf
<1>3. f \in [RowsOf(i) -> T]
  BY <1>1, <1>2, KeptRowIsFirst
<1>4. ASSUME NEW r \in RowsOf(i), NEW q \in RowsOf(i), f[r] = f[q]
      PROVE  r = q
  <2>1. KeptRow(i, r.phone) = KeptRow(i, q.phone)
    BY <1>4
  <2>2. r.phone = q.phone
    BY <1>2, <2>1, KeptRowIsFirst
  <2> QED BY <1>2, <2>2
<1> HIDE DEF f
<1>5. f \in Injection(RowsOf(i), T)
  BY <1>3, <1>4 DEF Injection, IsInjective
<1>6. IsFiniteSet(T) /\ Cardinality(T) = Len(body[i].rows)
  BY <1>1, FS_Interval
<1>7. IsFiniteSet(RowsOf(i)) /\ Cardinality(RowsOf(i)) <= Cardinality(T)
  BY <1>5, <1>6, FS_Injection
<1> QED BY <1>1, <1>6, <1>7, FS_CardinalityType

-----------------------------------------------------------------------------
(* The insert, whole: what it does to the phones and rows of all imports.  *)

LEMMA InsertedRows ==
  ASSUME TypeOK, RowsAreKept, NEW i \in Imports,
         customers' = Insert(i, PhonesOf(i)), body' = body
  PROVE  /\ customers' \subseteq CustomerRow
         /\ RowsAreKept'
         /\ \A j \in Imports : PhonesOf(j)' = PhonesOf(j)
         /\ Taken' = Taken \cup PhonesOf(i)
         /\ \A j \in Imports : j # i => RowsOf(j)' = RowsOf(j)
<1> DEFINE New == {Row(i, p) : p \in PhonesOf(i) \ Taken}
<1>1. customers' = customers \cup New
  BY DEF Insert
<1>2. \A row \in New : \E p \in PhonesOf(i) \ Taken : row = Row(i, p)
  OBVIOUS
<1>3. \A row \in New : /\ row \in CustomerRow /\ row.batch = i
                       /\ row.phone \in PhonesOf(i) /\ row = Row(i, row.phone)
  BY <1>2, RowTypes
<1>4. \A j \in Imports : PhonesOf(j)' = PhonesOf(j)
  BY BodyStays
<1>5. \A j, p : Row(j, p)' = Row(j, p)
  BY BodyStays
<1>6. \A p \in PhonesOf(i) \ Taken : Row(i, p) \in New /\ Row(i, p).phone = p
  BY RowTypes
<1> HIDE DEF New
<1>7. customers' \subseteq CustomerRow
  BY <1>1, <1>3 DEF TypeOK
<1>8. RowsAreKept'
  <2> SUFFICES ASSUME NEW row \in customers'
               PROVE  row.phone \in PhonesOf(row.batch)' /\ row = Row(row.batch, row.phone)'
    BY DEF RowsAreKept
  <2>1. row.batch \in Imports
    BY <1>7 DEF CustomerRow
  <2>2. row.phone \in PhonesOf(row.batch) /\ row = Row(row.batch, row.phone)
    BY <1>1, <1>3 DEF RowsAreKept
  <2> QED BY <1>4, <1>5, <2>1, <2>2
<1>9. Taken' = Taken \cup PhonesOf(i)
  <2>1. ASSUME NEW p \in Taken' PROVE p \in Taken \cup PhonesOf(i)
    BY <1>1, <1>3, <2>1 DEF Taken
  <2>2. ASSUME NEW p \in Taken PROVE p \in Taken'
    BY <1>1, <2>2 DEF Taken
  <2>3. ASSUME NEW p \in PhonesOf(i) \ Taken PROVE p \in Taken'
    BY <1>1, <1>6, <2>3 DEF Taken
  <2> QED BY <2>1, <2>2, <2>3
<1>10. \A j \in Imports : j # i => RowsOf(j)' = RowsOf(j)
  BY <1>1, <1>3 DEF RowsOf
<1> QED BY <1>4, <1>7, <1>8, <1>9, <1>10

LEMMA InsertInv ==
  ASSUME Inv, NEW i \in Imports, NEW label \in {"count", "cleanup"},
         stage[i] = "insert", Await(i, label), batches' = batches,
         customers' = Insert(i, PhonesOf(i))
  PROVE  Inv'
<1>1. /\ body' = body /\ answer' = answer
      /\ stage' \in [Imports -> Labels]
      /\ \A j \in Imports : stage'[j] = IF j = i THEN label ELSE stage[j]
  BY DEF Await, Inv, TypeOK, Labels
<1>2. /\ customers' \subseteq CustomerRow
      /\ RowsAreKept'
      /\ \A j \in Imports : PhonesOf(j)' = PhonesOf(j)
      /\ Taken' = Taken \cup PhonesOf(i)
      /\ \A j \in Imports : j # i => RowsOf(j)' = RowsOf(j)
  BY <1>1, InsertedRows DEF Inv
<1>3. i \in batches /\ answer[i] = NoAnswer
  BY DEF Inv, Progress
<1>4. TypeOK'
  BY <1>1, <1>2 DEF Inv, TypeOK, Labels
<1>5. ASSUME NEW j \in Imports PROVE Progress(j)'
  <2>1. CASE j = i
    BY <1>1, <1>2, <1>3, <2>1 DEF Progress
  <2>2. CASE j # i
    BY <1>1, <1>2, <2>2 DEF Inv, Progress
  <2> QED BY <2>1, <2>2
<1>6. AllOrNothing'
  BY <1>1, <1>2 DEF Inv, AllOrNothing
<1>7. AnswerIsTrue'
  <2> SUFFICES ASSUME NEW j \in Imports, answer[j].status = 200
               PROVE  (/\ answer[j].imported = Cardinality(RowsOf(j))
                       /\ answer[j].imported + answer[j].skipped = Len(body[j].rows)
                       /\ PhonesOf(j) \subseteq Taken)'
    BY <1>1 DEF AnswerIsTrue
  <2>1. j # i
    BY <1>3 DEF NoAnswer
  <2> QED BY <1>1, <1>2, <2>1 DEF Inv, AnswerIsTrue
<1>8. CustomersHaveTheirBatch'
  <2> SUFFICES ASSUME NEW row \in customers' PROVE row.batch \in batches
    BY DEF CustomersHaveTheirBatch
  <2>1. row.batch \in Imports /\ row \in RowsOf(row.batch)'
    BY <1>2 DEF CustomerRow, RowsOf
  <2>2. CASE row.batch = i
    BY <1>3, <2>2
  <2>3. CASE row.batch # i
    BY <1>2, <2>1, <2>3 DEF Inv, CustomersHaveTheirBatch, RowsOf
  <2> QED BY <2>2, <2>3
<1> QED BY <1>2, <1>4, <1>5, <1>6, <1>7, <1>8 DEF Inv

-----------------------------------------------------------------------------
(* All other steps leave the customers alone.                              *)

(* The handler of i goes on to label, having answered a so far.            *)
Moves(i, label, a) ==
  /\ stage' = [stage EXCEPT ![i] = label]
  /\ answer' = [answer EXCEPT ![i] = a]
  /\ customers' = customers /\ body' = body

(* What it has done by then.                                               *)
Allowed(i, label, a) ==
  /\ label \in {"idle", "batch", "insert"} => RowsOf(i) = {}
  /\ label \in {"insert", "cleanup", "count"} => i \in batches'
  /\ label = "count" => PhonesOf(i) \subseteq Taken
  /\ label # "done" => a = NoAnswer
  /\ a.status = 200 => TrueCount(i, a)
  /\ RowsOf(i) # {} => i \in batches'
  /\ batches' \subseteq Imports
  /\ \A j \in batches : j # i => j \in batches'

LEMMA MoveInv ==
  ASSUME Inv, NEW i \in Imports, NEW label \in Labels, NEW a \in Answers,
         Moves(i, label, a), Allowed(i, label, a)
  PROVE  Inv'
<1>1. /\ body' = body /\ customers' = customers
      /\ stage' \in [Imports -> Labels] /\ answer' \in [Imports -> Answers]
      /\ \A j \in Imports : /\ stage'[j] = IF j = i THEN label ELSE stage[j]
                            /\ answer'[j] = IF j = i THEN a ELSE answer[j]
  BY DEF Moves, Inv, TypeOK, Labels, Answers
<1>2. /\ Taken' = Taken
      /\ \A j \in Imports : PhonesOf(j)' = PhonesOf(j) /\ RowsOf(j)' = RowsOf(j)
  BY <1>1 DEF Taken, PhonesOf, PhoneAt, RowsOf
<1>3. TypeOK'
  BY <1>1 DEF Inv, TypeOK, Allowed, Labels, Answers
<1>4. RowsAreKept'
  BY <1>1, BodyStays DEF Inv, RowsAreKept
<1>5. ASSUME NEW j \in Imports PROVE Progress(j)'
  <2>1. CASE j = i
    BY <1>1, <1>2, <2>1 DEF Progress, Allowed
  <2>2. CASE j # i
    BY <1>1, <1>2, <2>2 DEF Inv, Progress, Allowed
  <2> QED BY <2>1, <2>2
<1>6. AllOrNothing'
  BY <1>2 DEF Inv, AllOrNothing
<1>7. AnswerIsTrue'
  <2> SUFFICES ASSUME NEW j \in Imports, answer'[j].status = 200
               PROVE  (/\ answer[j].imported = Cardinality(RowsOf(j))
                       /\ answer[j].imported + answer[j].skipped = Len(body[j].rows)
                       /\ PhonesOf(j) \subseteq Taken)'
    BY DEF AnswerIsTrue
  <2>1. CASE j = i
    BY <1>1, <1>2, <2>1 DEF Allowed, TrueCount
  <2>2. CASE j # i
    BY <1>1, <1>2, <2>2 DEF Inv, AnswerIsTrue
  <2> QED BY <2>1, <2>2
<1>8. CustomersHaveTheirBatch'
  <2> SUFFICES ASSUME NEW row \in customers PROVE row.batch \in batches'
    BY <1>1 DEF CustomersHaveTheirBatch
  <2>1. row.batch \in batches /\ row \in RowsOf(row.batch)
    BY DEF Inv, CustomersHaveTheirBatch, RowsOf
  <2> QED BY <2>1 DEF Allowed
<1> QED BY <1>3, <1>4, <1>5, <1>6, <1>7, <1>8 DEF Inv

LEMMA AwaitMoves ==
  ASSUME Inv, NEW i \in Imports, stage[i] # "done", NEW label, Await(i, label),
         customers' = customers
  PROVE  Moves(i, label, NoAnswer)
BY DEF Await, Moves, Inv, TypeOK, Progress

LEMMA RefusedIsAnswer ==
  ASSUME NEW code \in {400, 401, 403, 500}
  PROVE  Refused(code) \in Answers /\ Refused(code).status = code
BY DEF Refused, Answers

(* An answer that tells of no import, after which the batch stays.         *)
LEMMA EndInv ==
  ASSUME Inv, NEW i \in Imports, NEW a \in Answers, a.status # 200, Answer(i, a),
         customers' = customers, batches' \subseteq Imports, batches \subseteq batches'
  PROVE  Inv'
<1>1. Moves(i, "done", a)
  BY DEF Answer, Moves
<1>2. RowsOf(i) # {} => i \in batches
  BY DEF Inv, CustomersHaveTheirBatch, RowsOf
<1>3. Allowed(i, "done", a)
  BY <1>2 DEF Allowed
<1> QED BY <1>1, <1>3, MoveInv DEF Labels

LEMMA ReceiveInv ==
  ASSUME Inv, NEW i \in Imports, Receive(i)
  PROVE  Inv'
<1>1. /\ batches' = batches /\ customers' = customers /\ stage[i] = "idle"
      /\ batches \subseteq Imports
  BY DEF Receive, Inv, TypeOK
<1>2. ASSUME NEW code \in {400, 401, 403, 500}, Answer(i, Refused(code)) PROVE Inv'
  BY <1>1, <1>2, RefusedIsAnswer, EndInv
<1>3. CASE Await(i, "batch")
  <2>1. Moves(i, "batch", NoAnswer)
    BY <1>1, <1>3, AwaitMoves
  <2>2. RowsOf(i) = {}
    BY <1>1 DEF Inv, Progress
  <2>3. Allowed(i, "batch", NoAnswer)
    BY <1>1, <2>2 DEF Allowed, NoAnswer
  <2> QED BY <2>1, <2>3, MoveInv DEF Labels, Answers
<1> QED BY <1>2, <1>3 DEF Receive

LEMMA CreateBatchInv ==
  ASSUME Inv, NEW i \in Imports, CreateBatch(i)
  PROVE  Inv'
<1>1. /\ stage[i] = "batch" /\ RowsOf(i) = {}
      /\ batches' = batches \cup {i} /\ batches' \subseteq Imports
  BY DEF CreateBatch, Inv, TypeOK, Progress
<1>2. Moves(i, "insert", NoAnswer)
  BY <1>1, AwaitMoves DEF CreateBatch
<1>3. Allowed(i, "insert", NoAnswer)
  BY <1>1 DEF Allowed, NoAnswer
<1> QED BY <1>2, <1>3, MoveInv DEF Labels, Answers

LEMMA CreateBatchFailsInv ==
  ASSUME Inv, NEW i \in Imports, CreateBatchFails(i)
  PROVE  Inv'
<1>1. customers' = customers /\ batches' \subseteq Imports /\ batches \subseteq batches'
  BY DEF CreateBatchFails, Inv, TypeOK
<1> QED BY <1>1, RefusedIsAnswer, EndInv DEF CreateBatchFails

LEMMA InsertFailsInv ==
  ASSUME Inv, NEW i \in Imports, InsertFails(i)
  PROVE  Inv'
<1>1. CASE customers' = customers
  <2>1. /\ stage[i] = "insert" /\ i \in batches /\ batches' = batches
        /\ batches \subseteq Imports
    BY DEF InsertFails, Inv, TypeOK, Progress
  <2>2. Moves(i, "cleanup", NoAnswer)
    BY <1>1, <2>1, AwaitMoves DEF InsertFails
  <2>3. Allowed(i, "cleanup", NoAnswer)
    BY <2>1 DEF Allowed, NoAnswer
  <2> QED BY <2>2, <2>3, MoveInv DEF Labels, Answers
<1>2. CASE customers' = Insert(i, PhonesOf(i))
  BY <1>2, InsertInv DEF InsertFails
<1> QED BY <1>1, <1>2 DEF InsertFails

(* The batch goes only if no customer refers to it.                        *)
LEMMA CleanUpInv ==
  ASSUME Inv, NEW i \in Imports, CleanUp(i)
  PROVE  Inv'
<1>1. customers' = customers /\ Answer(i, Refused(500)) /\ batches \subseteq Imports
  BY DEF CleanUp, Inv, TypeOK
<1>2. CASE batches' = batches
  BY <1>1, <1>2, RefusedIsAnswer, EndInv
<1>3. CASE RowsOf(i) = {} /\ batches' = batches \ {i}
  <2>1. Moves(i, "done", Refused(500))
    BY <1>1 DEF Answer, Moves
  <2>2. Allowed(i, "done", Refused(500))
    BY <1>1, <1>3, RefusedIsAnswer DEF Allowed
  <2> QED BY <2>1, <2>2, RefusedIsAnswer, MoveInv DEF Labels
<1> QED BY <1>2, <1>3 DEF CleanUp

LEMMA CountInv ==
  ASSUME Inv, NEW i \in Imports, Count(i)
  PROVE  Inv'
<1> DEFINE count == Cardinality(RowsOf(i))
           a == Imported(count, Len(body[i].rows) - count)
<1>1. /\ stage[i] = "count" /\ Answer(i, a) /\ customers' = customers
      /\ batches' = batches /\ batches \subseteq Imports
      /\ i \in batches /\ PhonesOf(i) \subseteq Taken
  BY DEF Count, Inv, TypeOK, Progress
<1>2. count \in Nat /\ count <= Len(body[i].rows) /\ Len(body[i].rows) \in Nat
  BY RowsAreCounted DEF Inv
<1> HIDE DEF count
<1>3. /\ a \in Answers
      /\ a.imported = count /\ a.imported + a.skipped = Len(body[i].rows)
  BY <1>2 DEF Imported, Answers
<1> HIDE DEF a
<1>4. TrueCount(i, a)
  BY <1>1, <1>3 DEF TrueCount, count
<1>5. Moves(i, "done", a) /\ Allowed(i, "done", a)
  BY <1>1, <1>4 DEF Answer, Moves, Allowed
<1> QED BY <1>3, <1>5, MoveInv DEF Labels

LEMMA EndsInv ==
  ASSUME Inv, NEW i \in Imports, CountFails(i) \/ CutOff(i)
  PROVE  Inv'
<1>1. customers' = customers /\ batches' \subseteq Imports /\ batches \subseteq batches'
  BY DEF CountFails, CutOff, Inv, TypeOK
<1>2. NoAnswer \in Answers /\ NoAnswer.status # 200
  BY DEF NoAnswer, Answers
<1> QED BY <1>1, <1>2, RefusedIsAnswer, EndInv DEF CountFails, CutOff

-----------------------------------------------------------------------------
LEMMA InitInv == Init => Inv
<1> SUFFICES ASSUME Init PROVE Inv
  OBVIOUS
<1> USE DEF Init
<1>1. TypeOK
  BY DEF TypeOK
<1>2. \A i \in Imports : RowsOf(i) = {}
  BY DEF RowsOf
<1>3. \A i \in Imports : Progress(i)
  BY <1>2 DEF Progress
<1>4. AnswerIsTrue
  BY DEF AnswerIsTrue, NoAnswer
<1> QED BY <1>1, <1>2, <1>3, <1>4
        DEF Inv, RowsAreKept, AllOrNothing, CustomersHaveTheirBatch

LEMMA NextInv == Inv /\ [Next]_vars => Inv'
<1> SUFFICES ASSUME Inv, [Next]_vars PROVE Inv'
  OBVIOUS
<1>1. ASSUME NEW i \in Imports, Handle(i) PROVE Inv'
  <2>1. CASE InsertCustomers(i)
    BY <2>1, InsertInv DEF InsertCustomers
  <2> QED BY <1>1, <2>1, ReceiveInv, CreateBatchInv, CreateBatchFailsInv, InsertFailsInv,
             CleanUpInv, CountInv, EndsInv DEF Handle
<1>2. CASE UNCHANGED vars
  <2>1. UNCHANGED <<batches, customers, stage, body, answer>>
    BY <1>2 DEF vars
  <2>2. /\ Taken' = Taken
        /\ \A j \in Imports : PhonesOf(j)' = PhonesOf(j) /\ RowsOf(j)' = RowsOf(j)
    BY <2>1 DEF Taken, PhonesOf, PhoneAt, RowsOf
  <2>3. RowsAreKept'
    BY <2>1, BodyStays DEF Inv, RowsAreKept
  <2> QED BY <2>1, <2>2, <2>3
          DEF Inv, TypeOK, Progress, AllOrNothing, AnswerIsTrue, CustomersHaveTheirBatch
<1> QED BY <1>1, <1>2 DEF Next

LEMMA Invariance == Spec => []Inv
BY InitInv, NextInv, PTL DEF Spec

(* Tables, labels and answers keep their types: above all, no import skips *)
(* less than nothing.                                                      *)
THEOREM TypesHold == Spec => []TypeOK
<1>1. Inv => TypeOK
  BY DEF Inv
<1> QED BY <1>1, Invariance, PTL

(* Once a customer of an import is in the table, all phones of its body    *)
(* are, whatever fails, is lost or runs in between.                        *)
THEOREM ImportsAreAtomic == Spec => []AllOrNothing
<1>1. Inv => AllOrNothing
  BY DEF Inv
<1> QED BY <1>1, Invariance, PTL

(* An answer 200 counts the customers of the batch as imported and every   *)
(* other row of the body as skipped, and it stays true.                    *)
THEOREM CountsAreTrue == Spec => []AnswerIsTrue
<1>1. Inv => AnswerIsTrue
  BY DEF Inv
<1> QED BY <1>1, Invariance, PTL

(* The batch of a customer stays, also when the cleanup runs after an      *)
(* insert that did commit.                                                 *)
THEOREM NoOrphans == Spec => []CustomersHaveTheirBatch
<1>1. Inv => CustomersHaveTheirBatch
  BY DEF Inv
<1> QED BY <1>1, Invariance, PTL

(* A phone that is given twice is imported as its first row has it.        *)
THEOREM FirstRowsAreKept == Spec => []CustomersAreFirstRows
<1>1. Inv => CustomersAreFirstRows
  <2> SUFFICES ASSUME Inv, NEW row \in customers
               PROVE  \E k \in DOMAIN body[row.batch].rows :
                        /\ PhoneAt(row.batch, k) = row.phone
                        /\ body[row.batch].rows[k].name = row.name
                        /\ \A j \in 1..(k - 1) : PhoneAt(row.batch, j) # row.phone
    BY DEF CustomersAreFirstRows
  <2>1. row.batch \in Imports /\ row.phone \in PhonesOf(row.batch)
    BY DEF Inv, TypeOK, CustomerRow, RowsAreKept
  <2>2. row.name = body[row.batch].rows[KeptRow(row.batch, row.phone)].name
    BY DEF Inv, RowsAreKept, Row
  <2> QED BY <2>1, <2>2, KeptRowIsFirst DEF Inv
<1> QED BY <1>1, Invariance, PTL
=============================================================================
