---------------------------- MODULE MCDashboard -----------------------------
(***************************************************************************)
(* Two agents report three calls around the end of a year, around the end  *)
(* of February in a leap year and in another, and in the middle of a       *)
(* month, while one of the three pages is asked for.                       *)
(***************************************************************************)
EXTENDS Dashboard, TLC

CONSTANTS u1, u2, c1, c2, a1, a2, a3, m1

MCUsers == {u1, u2}
MCCustomers == {c1, c2}
MCAttempts == {a1, a2, a3}

Call(user, customer, duration, result, remark, ended) ==
  [user |-> user, customer |-> customer, requestId |-> NoId, duration |-> duration,
   callResult |-> result, callRemark |-> remark, customerType |-> 1,
   startedAt |-> NoTime, endedAt |-> ended]

MCInputs ==
  {Call(u1, c1, 2, 1, m1, 1), Call(u1, c1, 0, 1, m1, 2),
   Call(u1, c2, 0, 2, NoRemark, 0), Call(u2, c2, 1, 1, m1, NoTime)}

Symmetric == Permutations(MCAttempts)

MCFirstDays == {<<2023, 12, 31>>, <<2024, 2, 28>>, <<2023, 2, 28>>, <<2024, 7, 15>>}
MCBadDates == {<<2023, 2, 29>>}
MCBadMonths == {<<2024, 13>>}
=============================================================================
