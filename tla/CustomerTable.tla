--------------------------- MODULE CustomerTable ----------------------------
(***************************************************************************)
(* The customers table and the statements the repositories send to it.     *)
(* Each statement is a function from the table before it to the table      *)
(* after it; D1 runs a statement, or a batch of them, in one step.         *)
(***************************************************************************)
EXTENDS Integers

CONSTANTS
  Users,        \* users.id
  Customers,    \* the ids that are rows of the customers table
  Remarks,      \* remark texts
  NoUser, NoRemark,   \* SQL null in the column of that type
  Keep          \* undefined in a drizzle set(): the column is left alone

ASSUME TableAssumption ==
  /\ NoUser \notin Users
  /\ NoRemark \notin Remarks
  /\ Keep \notin Remarks \cup {NoRemark}
  /\ Keep \notin Int

Types == -1..2

CustomerRow ==
  [owner : Users \cup {NoUser}, isDeleted : {0, 1}, status : Nat,
   type : Types, remark : Remarks \cup {NoRemark}]

(* What a set() clause says of the columns a call or an edit may change.   *)
Patch ==
  [status : Nat \cup {Keep}, type : Types \cup {Keep},
   remark : Remarks \cup {NoRemark, Keep}]

SetField(old, new) == IF new = Keep THEN old ELSE new

Patched(row, patch) ==
  [row EXCEPT !.status = SetField(@, patch.status),
              !.remark = SetField(@, patch.remark),
              !.type = SetField(@, patch.type)]

(* update customers set owner_id where id in (ids) and is_deleted = 0 *)
SetOwner(table, ids, owner) ==
  [c \in Customers |->
     IF c \in ids /\ table[c].isDeleted = 0
     THEN [table[c] EXCEPT !.owner = owner] ELSE table[c]]

(* update customers set is_deleted = 1 where id *)
MarkDeleted(table, c) == [table EXCEPT ![c].isDeleted = 1]

(* update customers set ... where id in (ids) *)
PatchRows(table, ids, patch) ==
  [c \in Customers |-> IF c \in ids THEN Patched(table[c], patch) ELSE table[c]]

(* A freshly imported customer belongs to nobody and was not called.       *)
ImportedRow ==
  [owner |-> NoUser, isDeleted |-> 0, status |-> 0, type |-> 0, remark |-> NoRemark]
=============================================================================
