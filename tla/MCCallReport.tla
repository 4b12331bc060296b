---------------------------- MODULE MCCallReport ----------------------------
(***************************************************************************)
(* A small office for TLC: two agents, one customer (and an id that names  *)
(* none), two attempts over one request id.                                *)
(***************************************************************************)
EXTENDS CallReport

CONSTANTS u1, u2, c1, c9, a1, a2, r1, m1

MCUsers == {u1, u2}
MCCustomers == {c1}
MCCustomerIds == {c1, c9}

Body(user, customer, requestId, duration, result, remark, type, started, ended) ==
  [user |-> user, customer |-> customer, requestId |-> requestId,
   duration |-> duration, callResult |-> result, callRemark |-> remark,
   customerType |-> type, startedAt |-> started, endedAt |-> ended]

(* A named call, connected, made offline earlier in the day *)
Named == Body(u1, c1, r1, 2, 1, m1, 1, 1, 1)
(* The same request id, another outcome, timed by the server *)
Resent == Body(u1, c1, r1, 3, 2, NoRemark, 0, NoTime, NoTime)
(* An app that names no request, connected *)
Unnamed == Body(u1, c1, NoId, 1, 1, m1, 2, NoTime, NoTime)
(* Another agent's use of the same request id; the result 0 is let through *)
Other == Body(u2, c1, r1, 0, 0, NoRemark, 0, NoTime, 2)
(* A connected call without the remark it requires; an unknown customer *)
NoText == Body(u1, c1, r1, 1, 1, NoRemark, 0, NoTime, NoTime)
Unknown == Body(u1, c9, r1, 0, 2, NoRemark, 0, NoTime, NoTime)
(* A customer type that is none; a call that ends before it starts *)
NoType == Body(u1, c1, r1, 0, 2, NoRemark, 7, NoTime, NoTime)
Backwards == Body(u1, c1, NoId, 0, 2, NoRemark, 0, 2, 1)

MCInputs == {Named, Resent, Unnamed, Other}
AllInputs == MCInputs \cup {NoText, Unknown, NoType, Backwards}

Reopen == [status |-> 0, type |-> Keep, remark |-> NoRemark]
MCPatches == {Reopen}
=============================================================================
