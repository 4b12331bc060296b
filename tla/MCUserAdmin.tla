---------------------------- MODULE MCUserAdmin -----------------------------
(***************************************************************************)
(* Three requests of every kind, on a development system with an           *)
(* administrator and an agent, on one that is still empty, and on a        *)
(* production system whose only administrator became a manager.            *)
(***************************************************************************)
EXTENDS UserAdmin, TLC

CONSTANTS o1, o2, o3, root, ann, bob, p1, p2

MCOperations == {o1, o2, o3}

Row(username, role) == [username |-> username, password |-> p1, role |-> role, status |-> 1]
Staffed == [founders |-> <<Row(root, 1), Row(ann, 3)>>, localDev |-> TRUE]
Empty == [founders |-> <<>>, localDev |-> TRUE]
Leaderless == [founders |-> <<Row(root, 2)>>, localDev |-> FALSE]

MCDeployments == {Staffed, Empty, Leaderless}

Of(kind, operator, id, username, password, role, status) ==
  [kind |-> kind, operator |-> operator, wellFormed |-> TRUE, id |-> id,
   username |-> username, password |-> password, role |-> role, status |-> status]

Create(username, role) == Of("create", 1, 0, username, p2, role, Keep)
Edit(id, username, password, role, status) ==
  Of("update", 1, id, username, password, role, status)
Delete(operator, id) == Of("disable", operator, id, Keep, Keep, Keep, Keep)
Initialize(username) == Of("init", 0, 0, username, p2, Keep, Keep)

MCRequests ==
  {Create(bob, 1), Create(bob, 3), Create(ann, 2),
   Edit(2, bob, Keep, Keep, Keep), Edit(2, Keep, p2, 2, Keep), Edit(2, Keep, Keep, Keep, 1),
   Edit(1, bob, Keep, Keep, 0), Edit(3, ann, Keep, Keep, Keep),
   Delete(1, 2), Delete(1, 1), Delete(1, 3), Delete(2, 1), Delete(3, 1),
   [Create(bob, 1) EXCEPT !.wellFormed = FALSE],
   Initialize(bob), Initialize(root), [Initialize(bob) EXCEPT !.wellFormed = FALSE]}

Symmetric == Permutations(MCOperations)
=============================================================================
