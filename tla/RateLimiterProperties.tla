----------------------- MODULE RateLimiterProperties -----------------------
(***************************************************************************)
(* What the limiter promises although nothing is locked.                   *)
(***************************************************************************)
EXTENDS RateLimiter, Combinatorics

\* Every variable keeps its type.
LimiterTypeOK ==
  /\ ticks \in Ticks
  /\ row \in Seen
  /\ created \in 0 .. MaxRows
  /\ login \in [Logins -> {NoLogin} \cup Arrived \cup Deciding \cup Verifying \cup Forgetting]
  /\ window \in Windows

InFlight == Cardinality(Logins)

\* The end of a window is told from the row that was read. A login that read it before
\* another began the window starts the count again in the middle of it; one that arrived
\* earlier even sets the row back, and every other may then start the count once more. With
\* n logins in flight that happens at most (n - 1)(n + 4) / 2 times in a window of time.
RestartSlack == 2 * window.restarts <= (InFlight - 1) * (InFlight + 4)

\* A request that writes what it counted long ago takes the counter back. In a window of
\* time more than MaxAttempts pass, but each time the count is started no more than the ways
\* of choosing n of MaxAttempts + n - 1, n being the logins in flight.
AttemptSlack ==
  window.admitted <= (1 + window.restarts) * choose(MaxAttempts + InFlight - 1, InFlight)

InForce == row # NONE /\ Blocked(row, ticks)

\* The block a request knew of when it was let through.
KnownBlock(r) == IF At(r, "deciding") THEN BlockOf(login[r].seen) ELSE login[r].block

\* A block ends before its time only through a request that was in flight when it was
\* set: by the login it was admitted for, or by writing over what it had read before.
BlockHolds ==
  [][InForce /\ BlockOf(row') # row.blocked =>
       \E r \in Logins : /\ At(r, "deciding") \/ At(r, "forgetting")
                         /\ login'[r] # login[r]
                         /\ KnownBlock(r) # row.blocked]_limiter

=============================================================================
