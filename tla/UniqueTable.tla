---------------------------- MODULE UniqueTable -----------------------------
(***************************************************************************)
(* What the program relies on of a table with an AUTOINCREMENT id and a    *)
(* unique column (users.username, common_call_remarks.content): ids are    *)
(* handed out one after the other, no row is ever removed, and no two rows *)
(* share the column, however creations and renamings interleave.           *)
(***************************************************************************)
EXTENDS Naturals, Sequences, Functions

CONSTANT Keys     \* the values of the unique column

VARIABLE keys     \* the unique column, by id

Init == keys \in Seq(Keys) /\ IsInjective(keys)

Insert(k) ==
  /\ \A j \in DOMAIN keys : keys[j] # k
  /\ keys' = Append(keys, k)

Rename(i, k) ==
  /\ \A j \in DOMAIN keys : keys[j] # k
  /\ keys' = [keys EXCEPT ![i] = k]

Next ==
  \/ \E k \in Keys : Insert(k)
  \/ \E i \in DOMAIN keys, k \in Keys : Rename(i, k)

Spec == Init /\ [][Next]_keys
=============================================================================
