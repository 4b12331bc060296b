----------------------------- MODULE MCSessions -----------------------------
(***************************************************************************)
(* One user with an open session, and two requests of every kind at two    *)
(* edges of the KV namespace (MCSessions); three refreshes and logouts of  *)
(* that session, where a copy that an edge has made shows                  *)
(* (MCSessionsLogout).                                                     *)
(***************************************************************************)
EXTENDS Sessions, TLC

CONSTANTS u1, s1, s2, r1, r2, r3, t0, east, west

MCUsers == {u1}
MCSecrets == {s1, s2}
OneSecret == {s1}
MCRequests == {r1, r2}
ThreeRequests == {r1, r2, r3}
MCOldTokens == {t0}
MCEdges == {east, west}

Of(kind, user, secret, new, edge) ==
  [kind |-> kind, wellFormed |-> TRUE, user |-> user, secret |-> secret,
   newSecret |-> new, edge |-> edge]

Refreshes == {Of("refresh", NoUser, s1, s1, e) : e \in MCEdges}
Logouts == {Of("logout", NoUser, s1, s1, e) : e \in MCEdges}
Login == Of("login", u1, s1, s1, east)
Change == Of("change", NoUser, s1, s2, east)

MCInputs ==
  Refreshes \cup Logouts \cup
  {Login, Change, Of("login", NoUser, s1, s1, east), Of("other", NoUser, s1, s1, east),
   [Login EXCEPT !.wellFormed = FALSE], [Change EXCEPT !.wellFormed = FALSE]}

LogoutInputs == Refreshes \cup Logouts

Symmetric == Permutations(MCRequests)
=============================================================================
