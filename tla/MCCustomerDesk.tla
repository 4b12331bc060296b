--------------------------- MODULE MCCustomerDesk ---------------------------
(***************************************************************************)
(* A small office for TLC: a manager and an agent, two customers (and ids  *)
(* that name nobody), three operations.                                    *)
(***************************************************************************)
EXTENDS CustomerDesk, TLC

CONSTANTS mary, ulf, nobody, c1, c2, c9, o1, o2, o3, r1

MCUsers == {mary, ulf}
MCUserIds == {mary, ulf, nobody}
MCCustomers == {c1, c2}
MCCustomerIds == {c1, c2, c9}
MCOperations == {o1, o2, o3}

NoPatch == [status |-> Keep, type |-> Keep, remark |-> Keep]
Mark == [status |-> 4, type |-> Keep, remark |-> r1]

Assign(ids, to) ==
  [kind |-> "assign", operator |-> mary, wellFormed |-> TRUE, ids |-> ids,
   length |-> Cardinality(ids), target |-> to, patch |-> NoPatch]
Edit(kind, ids) ==
  [kind |-> kind, operator |-> mary, wellFormed |-> TRUE, ids |-> ids,
   length |-> Cardinality(ids), target |-> NoUser, patch |-> Mark]

(* The requests that write *)
MCRequests ==
  {Assign({c1, c2}, ulf), Assign({c1, c9}, mary), Assign({c1}, NoUser),
   Edit("patch", {c1}), Edit("delete", {c1}), Edit("batch", {c1, c2})}

(* The requests that a check refuses, each for its own reason *)
Refusals ==
  {Assign({c9}, ulf), Assign({c1}, nobody), Edit("delete", {c9}),
   [Edit("batch", {c1}) EXCEPT !.length = 3]}
AllRequests == MCRequests \cup Refusals

Active(role) == [role |-> role, status |-> 1]
MCUserRows == {Active(2), Active(3), [role |-> 2, status |-> 0]}
Answered == [status |-> 1, type |-> 1, remark |-> r1]
MCOutcomes == {Answered}

Symmetric == Permutations(MCOperations)
=============================================================================
