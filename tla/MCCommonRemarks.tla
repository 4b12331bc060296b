-------------------------- MODULE MCCommonRemarks ---------------------------
(***************************************************************************)
(* Three requests on a table that starts with one remark: two texts are    *)
(* created and renamed to, so that every pair of writers can collide.      *)
(***************************************************************************)
EXTENDS CommonRemarks, TLC

CONSTANTS o1, o2, o3, yes, later, call

MCOperations == {o1, o2, o3}
MCSeeded == <<yes>>

Of(kind, id, content, sortOrder, status) ==
  [kind |-> kind, wellFormed |-> TRUE, id |-> id, content |-> content,
   sortOrder |-> sortOrder, status |-> status]

MCRequests ==
  {Of("create", 0, later, Keep, Keep), Of("create", 0, later, 5, 0),
   Of("create", 0, call, Keep, Keep),
   Of("update", 1, later, Keep, Keep), Of("update", 2, yes, 7, Keep),
   Of("update", 1, yes, Keep, 1), Of("update", 1, Keep, 3, Keep),
   Of("disable", 1, Keep, Keep, Keep), Of("disable", 3, Keep, Keep, Keep),
   Of("update", 3, call, Keep, Keep),
   [Of("update", 1, Keep, Keep, Keep) EXCEPT !.wellFormed = FALSE]}

Symmetric == Permutations(MCOperations)
=============================================================================
