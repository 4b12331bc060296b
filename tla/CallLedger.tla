----------------------------- MODULE CallLedger -----------------------------
(***************************************************************************)
(* What POST /api/calls/report promises, without a handler or a database:  *)
(* a call enters the ledger at most once under its key, it never leaves,   *)
(* and an attempt is acknowledged only with the ledger's own entry for the *)
(* attempt's key.  An agent who names the call (clientRequestId) may send  *)
(* any number of attempts for it; a call that is not named has a key that  *)
(* no other attempt shares.                                                *)
(***************************************************************************)
CONSTANTS
  Attempts,   \* requests that reach the endpoint
  Entries     \* what the ledger can hold: records with a user and a call

VARIABLES
  ledger,     \* the entries recorded so far
  answer      \* answer[a]: the entries attempt a was acknowledged with

ledgerVars == <<ledger, answer>>

Init ==
  /\ ledger = {}
  /\ answer = [a \in Attempts |-> {}]

KeyOf(e) == <<e.user, e.call>>

(* A call is recorded, once per key. *)
Record(e) ==
  /\ \A f \in ledger : KeyOf(f) # KeyOf(e)
  /\ ledger' = ledger \cup {e}
  /\ UNCHANGED answer

(* An attempt is told the entry that is in the ledger, and only once. *)
Acknowledge(a, e) ==
  /\ e \in ledger
  /\ answer[a] = {}
  /\ answer' = [answer EXCEPT ![a] = {e}]
  /\ UNCHANGED ledger

Next ==
  \/ \E e \in Entries : Record(e)
  \/ \E a \in Attempts, e \in Entries : Acknowledge(a, e)

Spec == Init /\ [][Next]_ledgerVars
=============================================================================
