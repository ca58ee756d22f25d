------------------------ MODULE AiCircuitProperties ------------------------
(***************************************************************************)
(* What the circuit, the cache and the limits of the generated answers     *)
(* must get right.                                                         *)
(***************************************************************************)
EXTENDS AiCircuit

\* Every variable keeps its type.
TypeOK ==
  /\ failures \in 0 .. MaxFailures
  /\ left \in 0 .. Cooldown
  /\ DOMAIN cache \subseteq Contexts
  /\ \A key \in DOMAIN cache : cache[key] \in Entry
  /\ article \in [Articles -> [version: 1 .. MaxVersion, usable: BOOLEAN]]
  /\ answers \in Nat
  /\ req \in [Requests -> {Idle} \cup Asking \cup Returning \cup Answering]

\* The circuit is open only after MaxFailures calls failed with no success among
\* them, though successes and failures of overlapping calls arrive in any order.
OpenIsEarned == CircuitOpen => failures = MaxFailures

\* An answer, generated now or served again from the cache, rests on articles that
\* its own request read, in the version it read.
AnswersFromOwnContext ==
  \A r \in Requests : At(r, "answering") =>
    req[r].sources # {} /\ req[r].sources \subseteq req[r].context

\* Overlapping requests count the same answers: the conversation gets more than it
\* is allowed, but by no more than the other requests in flight.
AnswerSlack == answers <= MaxResponses + Cardinality(Requests) - 1

\* An open circuit closes: only calls begun before it opened prolong it, and the
\* requests that keep coming do not.
CircuitCloses == CircuitOpen ~> ~CircuitOpen

\* A provider that never answers holds no request for ever.
EveryRequestEnds == \A r \in Requests : ~At(r, "idle") ~> At(r, "idle")

=============================================================================
