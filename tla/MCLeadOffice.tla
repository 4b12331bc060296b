---------------------------- MODULE MCLeadOffice ----------------------------
(***************************************************************************)
(* A small office for TLC: a manager who also calls, an agent, one         *)
(* customer, two attempts over one request id and two operations.          *)
(***************************************************************************)
EXTENDS LeadOffice, TLC

CONSTANTS mary, ulf, c1, a1, a2, o1, o2, q1, r1

MCUsers == {mary, ulf}
MCCustomers == {c1}
MCAttempts == {a1, a2}
MCOperations == {o1, o2}

Named ==
  [user |-> ulf, customer |-> c1, requestId |-> q1, duration |-> 2, callResult |-> 1,
   callRemark |-> r1, customerType |-> 1, startedAt |-> NoTime, endedAt |-> 0]
Unnamed ==
  [user |-> mary, customer |-> c1, requestId |-> NoId, duration |-> 0, callResult |-> 2,
   callRemark |-> NoRemark, customerType |-> 0, startedAt |-> NoTime, endedAt |-> NoTime]
MCInputs == {Named, Unnamed}

NoPatch == [status |-> Keep, type |-> Keep, remark |-> Keep]
Mark == [status |-> 4, type |-> Keep, remark |-> NoRemark]

Order(kind, target, patch) ==
  [kind |-> kind, operator |-> mary, wellFormed |-> TRUE, ids |-> {c1}, length |-> 1,
   target |-> target, patch |-> patch]

MCRequests ==
  {Order("assign", ulf, NoPatch), Order("assign", mary, NoPatch), Order("assign", NoUser, NoPatch),
   Order("patch", NoUser, Mark), Order("delete", NoUser, NoPatch),
   Order("batch", NoUser, Mark)}

MCUserRows == {[role |-> 2, status |-> 1], [role |-> 1, status |-> 1]}

Symmetric == Permutations(MCAttempts) \cup Permutations(MCOperations)
=============================================================================
