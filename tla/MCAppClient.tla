---------------------------- MODULE MCAppClient -----------------------------
(* One call, two requests in flight, three changes of the world around it. *)
EXTENDS AppClient

CONSTANTS a, b

MCSlots == {a, b}
=============================================================================
