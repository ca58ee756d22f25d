----------------------------- MODULE Conversion -----------------------------
(***************************************************************************)
(* What the conversion of one conversation promises its client: the first  *)
(* request that succeeds makes the ticket, the ticket never changes, and   *)
(* every later request that succeeds is answered with it.                  *)
(***************************************************************************)
CONSTANTS Users, Payloads, NULL

VARIABLES ticket, granted

Init == ticket = NULL /\ granted = {}

First(user, payload) ==
  /\ ticket = NULL
  /\ ticket' = [client |-> user, payload |-> payload]
  /\ granted' = {[payload |-> payload, created |-> TRUE]}

Retry ==
  /\ ticket # NULL
  /\ granted' = granted \cup {[payload |-> ticket.payload, created |-> FALSE]}
  /\ UNCHANGED ticket

Next == Retry \/ \E user \in Users, payload \in Payloads : First(user, payload)

Spec == Init /\ [][Next]_<<ticket, granted>>

=============================================================================
