------------------------- MODULE CommonRemarkProofs -------------------------
(***************************************************************************)
(* Proofs about CommonRemarks, for any number of requests and remarks: the *)
(* table keeps its types and implements the unique table, and a remark     *)
(* that is switched off stays off until it is asked back.                  *)
(***************************************************************************)
EXTENDS CommonRemarks, SequenceTheorems, TLAPS

(* What a handler past its checks knows: the body names a content that is  *)
(* looked up or inserted, and the row of an edit is there.                 *)
PastChecks ==
  \A o \in Operations :
    /\ stage[o] \in {"duplicate", "insert"} => request[o].content # Keep
    /\ stage[o] = "duplicate" => request[o].kind = "create" \/ Exists(o)
    /\ stage[o] = "update" => Exists(o)

Typed == TypeOK /\ PastChecks

-----------------------------------------------------------------------------
(* Lemmas *)

(* A request sent is one of the requests.                                  *)
LEMMA RequestType ==
  ASSUME Typed, NEW o \in Operations
  PROVE  request[o] \in Requests /\ request[o] \in RemarkRequest
BY RemarkAssumption DEF Typed, TypeOK

(* A remark that is edited stays a remark.                                 *)
LEMMA PatchedType ==
  ASSUME NEW row \in Remark, NEW r \in RemarkRequest
  PROVE  Patched(row, r) \in Remark
<1>1. Given(r.content, row.content) \in Contents
  BY DEF Given, Remark, RemarkRequest
<1>2. Given(r.sortOrder, row.sortOrder) \in Nat
  BY DEF Given, Remark, RemarkRequest
<1>3. Given(r.status, row.status) \in {0, 1}
  BY DEF Given, Remark, RemarkRequest
<1> QED  BY <1>1, <1>2, <1>3 DEF Patched, Remark

(* So does one that is switched off.                                       *)
LEMMA DisabledType ==
  ASSUME NEW row \in Remark
  PROVE  [row EXCEPT !.status = 0] \in Remark
BY DEF Remark

(* The row an edit or a deletion leaves behind keeps the table a table.    *)
LEMMA RowReplaced ==
  ASSUME remarks \in Seq(Remark), NEW i \in DOMAIN remarks, NEW row \in Remark
  PROVE  /\ [remarks EXCEPT ![i] = row] \in Seq(Remark)
         /\ DOMAIN [remarks EXCEPT ![i] = row] = DOMAIN remarks
<1>1. i \in 1..Len(remarks)
  OBVIOUS
<1> QED  BY <1>1, ExceptSeq

-----------------------------------------------------------------------------
(* Types *)

(* The seeded table and the idle handlers are typed.                       *)
LEMMA TypedInit == Init => Typed
<1> SUFFICES ASSUME Init PROVE Typed
  OBVIOUS
<1>1. Len(Seeded) \in Nat /\ DOMAIN Seeded = 1..Len(Seeded)
      /\ \A i \in 1..Len(Seeded) : Seeded[i] \in Contents
  BY RemarkAssumption
<1>2. remarks \in [1..Len(Seeded) -> Remark]
  BY <1>1 DEF Init, Remark
<1>3. remarks \in Seq(Remark)
  BY <1>1, <1>2, IsASeq
<1>4. stage = [o \in Operations |-> "idle"]
  BY DEF Init
<1> QED  BY <1>3, <1>4 DEF Init, Typed, TypeOK, PastChecks

(* An answer ends the handler and touches nobody else's.                   *)
LEMMA TypedAnswer ==
  ASSUME Typed, NEW o \in Operations, NEW status \in {200, 400, 401, 403, 404, 409, 500},
         Answer(o, status), remarks' \in Seq(Remark),
         DOMAIN remarks \subseteq DOMAIN remarks'
  PROVE  Typed'
<1>1. TypeOK'
  BY DEF Typed, TypeOK, Answer
<1>2. \A p \in Operations : stage'[p] = "done" \/ stage'[p] = stage[p]
  BY DEF Typed, TypeOK, Answer
<1>3. PastChecks'
  BY <1>2 DEF Typed, PastChecks, Answer, Exists
<1> QED  BY <1>1, <1>3 DEF Typed

(* A handler that goes on keeps the table, and must know what its next     *)
(* label asks for.                                                         *)
LEMMA TypedAwait ==
  ASSUME Typed, NEW o \in Operations,
         NEW label \in {"existing", "duplicate", "insert", "update", "disable"},
         Await(o, label),
         label \in {"duplicate", "insert"} => request[o].content # Keep,
         label = "duplicate" => request[o].kind = "create" \/ Exists(o),
         label = "update" => Exists(o)
  PROVE  Typed'
<1>1. TypeOK'
  BY DEF Typed, TypeOK, Await
<1>2. stage'[o] = label /\ \A p \in Operations : p # o => stage'[p] = stage[p]
  BY DEF Typed, TypeOK, Await
<1>3. UNCHANGED <<remarks, request>>
  BY DEF Await
<1>4. PastChecks'
  BY <1>2, <1>3 DEF Typed, PastChecks, Exists
<1> QED  BY <1>1, <1>4 DEF Typed

(* Every step of every handler keeps the table typed.                      *)
LEMMA TypedNext == Typed /\ [Next]_vars => Typed'
<1> SUFFICES ASSUME Typed, [Next]_vars PROVE Typed'
  OBVIOUS
<1>r. ASSUME NEW o \in Operations, NEW status \in {400, 401, 403, 404, 409, 500},
             Refuse(o, status)
      PROVE  Typed'
  <2>1. remarks' = remarks /\ Answer(o, status)
    BY <1>r DEF Refuse
  <2> QED  BY <2>1, <1>r, TypedAnswer DEF Typed, TypeOK
<1>w. ASSUME NEW o \in Operations, Written(o), remarks' \in Seq(Remark),
             DOMAIN remarks \subseteq DOMAIN remarks'
      PROVE  Typed'
  BY <1>w, TypedAnswer DEF Written
<1>1. ASSUME NEW o \in Operations, Receive(o) PROVE Typed'
  <2>1. CASE request[o].wellFormed /\ Await(o, FirstAwait(request[o]))
    <3>1. CASE request[o].kind = "create"
      <4>1. FirstAwait(request[o]) = "duplicate"
        BY <3>1 DEF FirstAwait
      <4>2. request[o].content # Keep
        BY <2>1, <3>1, RequestType, RemarkAssumption
      <4> QED  BY <2>1, <3>1, <4>1, <4>2, TypedAwait
    <3>2. CASE request[o].kind = "update"
      <4>1. FirstAwait(request[o]) = "existing"
        BY <3>2 DEF FirstAwait
      <4> QED  BY <2>1, <4>1, TypedAwait
    <3>3. CASE request[o].kind = "disable"
      <4>1. FirstAwait(request[o]) = "disable"
        BY <3>3 DEF FirstAwait
      <4> QED  BY <2>1, <4>1, TypedAwait
    <3>4. request[o].kind \in {"create", "update", "disable"}
      BY RequestType DEF RemarkRequest
    <3> QED  BY <3>1, <3>2, <3>3, <3>4
  <2> QED  BY <1>1, <2>1, <1>r DEF Receive
<1>2. ASSUME NEW o \in Operations, FindExisting(o) PROVE Typed'
  <2>1. CASE Exists(o) /\ request[o].content \notin {Keep, remarks[request[o].id].content}
             /\ Await(o, "duplicate")
    BY <2>1, TypedAwait
  <2>2. CASE Exists(o) /\ Await(o, "update")
    BY <2>2, TypedAwait
  <2> QED  BY <1>2, <2>1, <2>2, <1>r DEF FindExisting
<1>3. ASSUME NEW o \in Operations, FindDuplicate(o) PROVE Typed'
  <2>1. /\ stage[o] = "duplicate" /\ request[o].content # Keep
        /\ request[o].kind = "create" \/ Exists(o)
    BY <1>3 DEF FindDuplicate, Typed, PastChecks
  <2>2. CASE request[o].kind = "create" /\ Await(o, "insert")
    BY <2>1, <2>2, TypedAwait
  <2>3. CASE request[o].kind # "create" /\ Await(o, "update")
    BY <2>1, <2>3, TypedAwait
  <2> QED  BY <1>3, <2>2, <2>3, <1>r DEF FindDuplicate
<1>4. ASSUME NEW o \in Operations, Insert(o) PROVE Typed'
  <2> DEFINE r == request[o]
             row == [content |-> r.content, sortOrder |-> Given(r.sortOrder, 0),
                     status |-> Given(r.status, 1)]
  <2>1. CASE Refuse(o, 500)
    BY <2>1, <1>r
  <2>2. CASE remarks' = Append(remarks, row) /\ Written(o)
    <3>1. r.content \in Contents
      BY <1>4, RequestType DEF Insert, Typed, PastChecks, RemarkRequest
    <3>2. Given(r.sortOrder, 0) \in Nat
      BY RequestType DEF Given, RemarkRequest
    <3>3. Given(r.status, 1) \in {0, 1}
      BY RequestType DEF Given, RemarkRequest
    <3>4. row \in Remark
      BY <3>1, <3>2, <3>3 DEF Remark
    <3> HIDE DEF row
    <3>5. remarks' \in Seq(Remark) /\ Len(remarks') = Len(remarks) + 1
      BY <2>2, <3>4, AppendProperties DEF Typed, TypeOK
    <3>6. DOMAIN remarks \subseteq DOMAIN remarks'
      BY <3>5, LenProperties DEF Typed, TypeOK
    <3> QED  BY <2>2, <3>5, <3>6, <1>w
  <2> QED  BY <1>4, <2>1, <2>2 DEF Insert
<1>5. ASSUME NEW o \in Operations, Update(o) PROVE Typed'
  <2> DEFINE r == request[o]
  <2>1. CASE Refuse(o, 500)
    BY <2>1, <1>r
  <2>2. CASE remarks' = [remarks EXCEPT ![r.id] = Patched(@, r)] /\ Written(o)
    <3>1. r.id \in DOMAIN remarks
      BY <1>5 DEF Update, Typed, PastChecks, Exists
    <3>2. remarks[r.id] \in Remark
      BY <3>1 DEF Typed, TypeOK
    <3>3. Patched(remarks[r.id], r) \in Remark
      BY <3>2, PatchedType, RequestType
    <3>4. remarks' = [remarks EXCEPT ![r.id] = Patched(remarks[r.id], r)]
      BY <2>2
    <3>5. remarks' \in Seq(Remark) /\ DOMAIN remarks' = DOMAIN remarks
      BY <3>1, <3>3, <3>4, RowReplaced DEF Typed, TypeOK
    <3> QED  BY <2>2, <3>5, <1>w
  <2> QED  BY <1>5, <2>1, <2>2 DEF Update
<1>6. ASSUME NEW o \in Operations, Disable(o) PROVE Typed'
  <2> DEFINE i == request[o].id
  <2>1. CASE Refuse(o, 404)
    BY <2>1, <1>r
  <2>2. CASE Exists(o) /\ remarks' = [remarks EXCEPT ![i].status = 0] /\ Written(o)
    <3>1. i \in DOMAIN remarks
      BY <2>2 DEF Exists
    <3>2. remarks[i] \in Remark
      BY <3>1 DEF Typed, TypeOK
    <3> HIDE DEF i
    <3>3. remarks' = [remarks EXCEPT ![i] = [remarks[i] EXCEPT !.status = 0]]
      BY <2>2
    <3>4. remarks' \in Seq(Remark) /\ DOMAIN remarks' = DOMAIN remarks
      BY <3>1, <3>2, <3>3, DisabledType, RowReplaced DEF Typed, TypeOK
    <3> QED  BY <2>2, <3>4, <1>w
  <2> QED  BY <1>6, <2>1, <2>2 DEF Disable
<1>7. ASSUME NEW o \in Operations, Fail(o) PROVE Typed'
  BY <1>7, <1>r DEF Fail
<1>8. CASE UNCHANGED vars
  BY <1>8 DEF vars, Typed, TypeOK, PastChecks, Exists
<1> QED  BY <1>1, <1>2, <1>3, <1>4, <1>5, <1>6, <1>7, <1>8 DEF Next, Handle

(* The table, labels and answers keep their types, and a handler past its  *)
(* checks knows what it rests on.                                          *)
THEOREM RemarksTyped == Spec => []Typed
BY TypedInit, TypedNext, PTL DEF Spec

(* So does the declared type invariant alone.                              *)
THEOREM TypesHold == Spec => []TypeOK
<1>1. Typed => TypeOK
  BY DEF Typed
<1> QED  BY <1>1, RemarksTyped, PTL
-----------------------------------------------------------------------------
(* Refinement: the column of contents is a unique table. *)

(* The column of a table, as a sequence, and that of the remarks.          *)
ColumnOf(table) == [i \in DOMAIN table |-> table[i].content]

Column == ColumnOf(remarks)

(* A column is a sequence of contents with the ids of its table.           *)
LEMMA ColumnType ==
  ASSUME NEW table \in Seq(Remark)
  PROVE  /\ ColumnOf(table) \in Seq(Contents)
         /\ DOMAIN ColumnOf(table) = DOMAIN table
         /\ Len(ColumnOf(table)) = Len(table)
<1>1. Len(table) \in Nat /\ DOMAIN table = 1..Len(table)
      /\ \A i \in 1..Len(table) : table[i] \in Remark
  BY LenProperties
<1>2. ColumnOf(table) \in [1..Len(table) -> Contents]
  BY <1>1 DEF ColumnOf, Remark
<1>3. ColumnOf(table) \in Seq(Contents) /\ DOMAIN ColumnOf(table) = 1..Len(table)
  BY <1>1, <1>2, IsASeq
<1> QED  BY <1>1, <1>3, LenProperties

(* The seeded contents are distinct.                                       *)
LEMMA TableInit == Init => Table!Init
<1> SUFFICES ASSUME Init PROVE Table!Init
  OBVIOUS
<1>1. DOMAIN remarks = DOMAIN Seeded /\ \A i \in DOMAIN remarks : Column[i] = Seeded[i]
  BY DEF Init, Column, ColumnOf
<1>2. Column \in Seq(Contents) /\ DOMAIN Column = DOMAIN remarks
  BY TypedInit, ColumnType DEF Typed, TypeOK, Column
<1>3. \A i, j \in DOMAIN Column : Column[i] = Column[j] => i = j
  BY <1>1, <1>2, RemarkAssumption
<1> QED  BY <1>2, <1>3 DEF Table!Init, Table!IsInjective, Column, ColumnOf

(* A row that is written over with the content it had leaves the column.   *)
LEMMA ColumnKept ==
  ASSUME remarks \in Seq(Remark), NEW i \in DOMAIN remarks, NEW row \in Remark,
         row.content = remarks[i].content, remarks' = [remarks EXCEPT ![i] = row]
  PROVE  Column' = Column
<1>1. DOMAIN remarks' = DOMAIN remarks
  BY RowReplaced
<1>2. \A j \in DOMAIN remarks : remarks'[j].content = remarks[j].content
  BY <1>1
<1> QED  BY <1>1, <1>2 DEF Column, ColumnOf

(* One that gets a new and free content renames it in the column.          *)
LEMMA ColumnRenamed ==
  ASSUME remarks \in Seq(Remark), NEW i \in DOMAIN remarks, NEW row \in Remark,
         remarks' = [remarks EXCEPT ![i] = row], ~Taken(row.content)
  PROVE  Table!Next
<1>1. DOMAIN remarks' = DOMAIN remarks
  BY RowReplaced
<1>2. Column' = [Column EXCEPT ![i] = row.content]
  BY <1>1 DEF Column, ColumnOf
<1>3. \A j \in DOMAIN Column : Column[j] # row.content
  BY DEF Column, ColumnOf, Taken
<1>4. row.content \in Contents /\ i \in DOMAIN Column
  BY DEF Column, ColumnOf, Remark
<1> QED  BY <1>2, <1>3, <1>4 DEF Table!Next, Table!Rename, Column, ColumnOf

(* A row that is inserted with a free content enters the column last.      *)
LEMMA ColumnExtended ==
  ASSUME remarks \in Seq(Remark), NEW row \in Remark, remarks' = Append(remarks, row),
         ~Taken(row.content)
  PROVE  Table!Next
<1> DEFINE longer == Append(Column, row.content)
<1>1. /\ remarks' \in Seq(Remark) /\ Len(remarks') = Len(remarks) + 1
      /\ \A i \in 1..Len(remarks) : remarks'[i] = remarks[i]
      /\ remarks'[Len(remarks) + 1] = row
  BY AppendProperties
<1>2. /\ Len(remarks) \in Nat /\ DOMAIN remarks = 1..Len(remarks)
      /\ DOMAIN remarks' = 1..Len(remarks')
  BY <1>1, LenProperties
<1>3. Column \in Seq(Contents) /\ Len(Column) = Len(remarks)
  BY ColumnType DEF Column, ColumnOf
<1>4. ColumnOf(remarks') \in Seq(Contents) /\ Len(ColumnOf(remarks')) = Len(remarks')
  BY <1>1, ColumnType
<1>5. row.content \in Contents
  BY DEF Remark
<1>6. longer \in Seq(Contents) /\ Len(longer) = Len(remarks) + 1
      /\ (\A i \in 1..Len(remarks) : longer[i] = Column[i])
      /\ longer[Len(remarks) + 1] = row.content
  BY <1>3, <1>5, AppendProperties
<1>7. \A i \in 1..Len(remarks') : ColumnOf(remarks')[i] = longer[i]
  BY <1>1, <1>2, <1>6 DEF Column, ColumnOf
<1>8. ColumnOf(remarks') = longer
  <2> HIDE DEF longer
  <2> QED  BY <1>1, <1>4, <1>6, <1>7, SeqEqual
<1>9. \A j \in DOMAIN Column : Column[j] # row.content
  BY DEF Column, ColumnOf, Taken
<1> QED  BY <1>5, <1>8, <1>9 DEF Table!Next, Table!Insert, Column, ColumnOf

(* Every step inserts, renames or leaves the column alone.                 *)
LEMMA TableNext == Typed /\ [Next]_vars => [Table!Next]_Column
<1> SUFFICES ASSUME Typed, [Next]_vars PROVE Table!Next \/ Column' = Column
  BY DEF Column, ColumnOf
<1>t. remarks \in Seq(Remark)
  BY DEF Typed, TypeOK
<1>s. ASSUME remarks' = remarks PROVE Column' = Column
  BY <1>s DEF Column, ColumnOf
<1>1. ASSUME NEW o \in Operations, Insert(o) PROVE Table!Next \/ Column' = Column
  <2> DEFINE r == request[o]
             row == [content |-> r.content, sortOrder |-> Given(r.sortOrder, 0),
                     status |-> Given(r.status, 1)]
  <2>1. CASE Refuse(o, 500)
    BY <2>1, <1>s DEF Refuse
  <2>2. CASE remarks' = Append(remarks, row) /\ ~Taken(r.content)
    <3>1. r.content \in Contents
      BY <1>1, RequestType DEF Insert, Typed, PastChecks, RemarkRequest
    <3>2. Given(r.sortOrder, 0) \in Nat
      BY RequestType DEF Given, RemarkRequest
    <3>3. Given(r.status, 1) \in {0, 1}
      BY RequestType DEF Given, RemarkRequest
    <3>4. row \in Remark /\ row.content = r.content
      BY <3>1, <3>2, <3>3 DEF Remark
    <3> HIDE DEF row
    <3>5. ~Taken(row.content)
      BY <2>2, <3>4
    <3> QED  BY <1>t, <2>2, <3>4, <3>5, ColumnExtended
  <2> QED  BY <1>1, <2>1, <2>2 DEF Insert
<1>2. ASSUME NEW o \in Operations, Update(o) PROVE Table!Next \/ Column' = Column
  <2> DEFINE r == request[o]
             row == Patched(remarks[r.id], r)
  <2>1. CASE Refuse(o, 500)
    BY <2>1, <1>s DEF Refuse
  <2>2. CASE /\ remarks' = [remarks EXCEPT ![r.id] = row]
             /\ ~(r.content # Keep /\ \E j \in DOMAIN remarks \ {r.id} :
                                        remarks[j].content = r.content)
    <3>1. r.id \in DOMAIN remarks
      BY <1>2 DEF Update, Typed, PastChecks, Exists
    <3>2. row \in Remark
      BY <1>t, <3>1, PatchedType, RequestType
    <3>3. row.content = Given(r.content, remarks[r.id].content)
      BY DEF Patched
    <3> HIDE DEF row
    <3>4. CASE row.content = remarks[r.id].content
      BY <1>t, <2>2, <3>1, <3>2, <3>4, ColumnKept
    <3>5. CASE row.content # remarks[r.id].content
      <4>1. r.content # Keep /\ row.content = r.content
        BY <3>3, <3>5 DEF Given
      <4>2. ~Taken(row.content)
        BY <2>2, <3>5, <4>1 DEF Taken
      <4> QED  BY <1>t, <2>2, <3>1, <3>2, <4>2, ColumnRenamed
    <3> QED  BY <3>4, <3>5
  <2> QED  BY <1>2, <2>1, <2>2 DEF Update
<1>3. ASSUME NEW o \in Operations, Disable(o) PROVE Table!Next \/ Column' = Column
  <2> DEFINE i == request[o].id
  <2>1. CASE Refuse(o, 404)
    BY <2>1, <1>s DEF Refuse
  <2>2. CASE Exists(o) /\ remarks' = [remarks EXCEPT ![i].status = 0]
    <3>1. i \in DOMAIN remarks /\ remarks[i] \in Remark
      BY <1>t, <2>2 DEF Exists
    <3>2. remarks' = [remarks EXCEPT ![i] = [remarks[i] EXCEPT !.status = 0]]
      BY <2>2
    <3> HIDE DEF i
    <3>3. [remarks[i] EXCEPT !.status = 0].content = remarks[i].content
      BY <3>1 DEF Remark
    <3> QED  BY <1>t, <3>1, <3>2, <3>3, DisabledType, ColumnKept
  <2> QED  BY <1>3, <2>1, <2>2 DEF Disable
<1>4. ASSUME NEW o \in Operations,
             Receive(o) \/ FindExisting(o) \/ FindDuplicate(o) \/ Fail(o)
      PROVE  Table!Next \/ Column' = Column
  <2>1. remarks' = remarks
    BY <1>4 DEF Receive, FindExisting, FindDuplicate, Fail, Refuse, Await
  <2> QED  BY <2>1, <1>s
<1>5. CASE UNCHANGED vars
  BY <1>5, <1>s DEF vars
<1> QED  BY <1>1, <1>2, <1>3, <1>4, <1>5 DEF Next, Handle

(* However requests interleave between look-up and write, the remarks      *)
(* implement a unique table: no content twice, no remark removed.          *)
THEOREM RemarksAreUnique == Spec => ImplementsUniqueTable
BY TableInit, TableNext, RemarksTyped, PTL DEF Spec, ImplementsUniqueTable, Table!Spec, Column, ColumnOf

(* No two remarks share a content: what the unique column promises.        *)
UniqueContents ==
  \A i, j \in DOMAIN remarks : remarks[i].content = remarks[j].content => i = j

(* No id that was handed out is ever without its row.                      *)
RowsKept == [][DOMAIN remarks \subseteq DOMAIN remarks']_remarks

(* A unique table loses no row and gives no content twice: an insertion or *)
(* a renaming takes a content that no row has.                             *)
LEMMA TableKeepsUnique ==
  ASSUME Typed, Typed', UniqueContents, [Table!Next]_Column
  PROVE  UniqueContents' /\ DOMAIN remarks \subseteq DOMAIN remarks'
<1> DEFINE c == Column
          d == Column'
<1>1. /\ c \in Seq(Contents) /\ DOMAIN c = DOMAIN remarks
      /\ d \in Seq(Contents) /\ DOMAIN d = DOMAIN remarks'
  BY ColumnType DEF Typed, TypeOK, Column
<1>2. /\ \A i \in DOMAIN remarks : c[i] = remarks[i].content
      /\ \A i \in DOMAIN remarks' : d[i] = remarks'[i].content
  BY DEF Column, ColumnOf
<1>3. \A i, j \in DOMAIN c : c[i] = c[j] => i = j
  BY <1>1, <1>2 DEF UniqueContents
<1>4. ASSUME NEW k \in Contents, Table!Insert(k)
      PROVE  /\ DOMAIN c \subseteq DOMAIN d
             /\ \A i, j \in DOMAIN d : d[i] = d[j] => i = j
  <2>1. d = Append(c, k) /\ \A i \in DOMAIN c : c[i] # k
    BY <1>4 DEF Table!Insert, Column, ColumnOf
  <2> HIDE DEF c, d
  <2> QED  BY <1>1, <1>3, <2>1, AppendProperties, LenProperties
<1>5. ASSUME NEW i \in DOMAIN c, NEW k \in Contents, Table!Rename(i, k)
      PROVE  /\ DOMAIN c \subseteq DOMAIN d
             /\ \A h, j \in DOMAIN d : d[h] = d[j] => h = j
  <2>1. d = [c EXCEPT ![i] = k] /\ \A j \in DOMAIN c : c[j] # k
    BY <1>5 DEF Table!Rename, Column, ColumnOf
  <2> HIDE DEF c, d
  <2> QED  BY <1>3, <2>1
<1>6. ASSUME d = c
      PROVE  /\ DOMAIN c \subseteq DOMAIN d
             /\ \A i, j \in DOMAIN d : d[i] = d[j] => i = j
  <2> HIDE DEF c, d
  <2> QED  BY <1>3, <1>6
<1>7. d = c \/ (\E k \in Contents : Table!Insert(k))
      \/ \E i \in DOMAIN c, k \in Contents : Table!Rename(i, k)
  BY DEF Table!Next, Column, ColumnOf
<1>8. DOMAIN c \subseteq DOMAIN d /\ \A i, j \in DOMAIN d : d[i] = d[j] => i = j
  <2> HIDE DEF c, d
  <2> QED  BY <1>3, <1>4, <1>5, <1>6, <1>7
<1> HIDE DEF c, d
<1> QED  BY <1>1, <1>2, <1>8 DEF UniqueContents

(* So the app is never offered a remark twice, and the id of a remark      *)
(* stays that of a row, switched off or not.                               *)
THEOREM ContentsStayUnique == Spec => []UniqueContents /\ RowsKept
<1>1. Init => UniqueContents
  BY TypedInit, TableInit, ColumnType
     DEF Typed, TypeOK, Table!Init, Table!IsInjective, Column, ColumnOf, UniqueContents
<1>2. Typed /\ Typed' /\ [Next]_vars /\ UniqueContents => UniqueContents'
  BY TableNext, TableKeepsUnique
<1>3. Typed /\ Typed' /\ [Next]_vars /\ UniqueContents => [DOMAIN remarks \subseteq DOMAIN remarks']_remarks
  BY TableNext, TableKeepsUnique
<1> QED  BY <1>1, <1>2, <1>3, RemarksTyped, PTL DEF Spec, RowsKept
-----------------------------------------------------------------------------
(* Switched-off remarks *)

(* A request that is at its update and leaves it has status i in its hands. *)
EnabledBy(i) ==
  \E o \in Operations :
    /\ stage[o] = "update" /\ stage'[o] = "done"
    /\ request[o].id = i /\ request[o].status = 1

(* Of the writes, a creation adds a row behind the others, a deletion      *)
(* switches off, and an edit changes the one row it names.                 *)
LEMMA RevivedByName ==
  ASSUME Typed, [Next]_vars, NEW i \in DOMAIN remarks,
         remarks[i].status = 0, remarks'[i].status = 1
  PROVE  EnabledBy(i)
<1>t. remarks \in Seq(Remark) /\ remarks[i] \in Remark
  BY DEF Typed, TypeOK
<1>s. ASSUME remarks' = remarks PROVE FALSE
  BY <1>s
<1>1. ASSUME NEW o \in Operations, Insert(o) PROVE FALSE
  <2> DEFINE r == request[o]
             row == [content |-> r.content, sortOrder |-> Given(r.sortOrder, 0),
                     status |-> Given(r.status, 1)]
  <2>1. CASE Refuse(o, 500)
    BY <2>1, <1>s DEF Refuse
  <2>2. CASE remarks' = Append(remarks, row)
    <3>1. Given(r.sortOrder, 0) \in Nat /\ Given(r.status, 1) \in {0, 1}
      BY RequestType DEF Given, RemarkRequest
    <3>2. r.content \in Contents
      BY <1>1, RequestType DEF Insert, Typed, PastChecks, RemarkRequest
    <3>3. row \in Remark
      BY <3>1, <3>2 DEF Remark
    <3> HIDE DEF row
    <3>4. i \in 1..Len(remarks)
      BY <1>t, LenProperties
    <3>5. remarks'[i] = remarks[i]
      BY <1>t, <2>2, <3>3, <3>4, AppendProperties
    <3> QED  BY <3>5
  <2> QED  BY <1>1, <2>1, <2>2 DEF Insert
<1>2. ASSUME NEW o \in Operations, Update(o) PROVE EnabledBy(i)
  <2> DEFINE r == request[o]
  <2>1. CASE Refuse(o, 500)
    BY <2>1, <1>s DEF Refuse
  <2>2. CASE remarks' = [remarks EXCEPT ![r.id] = Patched(remarks[r.id], r)] /\ Written(o)
    <3>1. r.id = i
      BY <2>2
    <3>2. Patched(remarks[i], r).status = 1
      BY <2>2, <3>1
    <3>3. r.status = 1
      BY <3>2 DEF Patched, Given
    <3>4. stage[o] = "update" /\ stage'[o] = "done"
      BY <1>2, <2>2 DEF Update, Written, Answer, Typed, TypeOK
    <3> QED  BY <3>1, <3>3, <3>4 DEF EnabledBy
  <2> QED  BY <1>2, <2>1, <2>2 DEF Update
<1>3. ASSUME NEW o \in Operations, Disable(o) PROVE FALSE
  <2> DEFINE j == request[o].id
  <2>1. CASE Refuse(o, 404)
    BY <2>1, <1>s DEF Refuse
  <2>2. CASE Exists(o) /\ remarks' = [remarks EXCEPT ![j].status = 0]
    <3>1. j \in DOMAIN remarks /\ remarks[j] \in Remark
      BY <1>t, <2>2 DEF Exists
    <3>2. remarks' = [remarks EXCEPT ![j] = [remarks[j] EXCEPT !.status = 0]]
      BY <2>2
    <3> HIDE DEF j
    <3>3. [remarks[j] EXCEPT !.status = 0].status = 0
      BY <3>1 DEF Remark
    <3>4. remarks'[i].status = 0
      BY <3>2, <3>3
    <3> QED  BY <3>4
  <2> QED  BY <1>3, <2>1, <2>2 DEF Disable
<1>4. ASSUME NEW o \in Operations,
             Receive(o) \/ FindExisting(o) \/ FindDuplicate(o) \/ Fail(o)
      PROVE  FALSE
  <2>1. remarks' = remarks
    BY <1>4 DEF Receive, FindExisting, FindDuplicate, Fail, Refuse, Await
  <2> QED  BY <2>1, <1>s
<1>5. CASE UNCHANGED vars
  BY <1>5, <1>s DEF vars
<1> QED  BY <1>1, <1>2, <1>3, <1>4, <1>5 DEF Next, Handle

(* No write revives a remark that is switched off but the PATCH that names *)
(* status 1 for it, whatever edits of its other columns are under way.     *)
THEOREM DisabledStayOff == Spec => DisabledUntilEnabled
<1>1. Typed /\ [Next]_vars =>
        [\A i \in DOMAIN remarks :
           remarks[i].status = 0 /\ remarks'[i].status = 1 => EnabledBy(i)]_vars
  BY RevivedByName
<1> QED  BY <1>1, RemarksTyped, PTL DEF Spec, DisabledUntilEnabled, EnabledBy
=============================================================================
