------------------------- MODULE TicketProperties --------------------------
(***************************************************************************)
(* What the ticket service must get right, stated over TicketService.      *)
(***************************************************************************)
EXTENDS TicketService, SequencesExt

\* Every variable keeps its type: the row of a ticket, its assignment and
\* history rows and the requests in flight.
TypeOK ==
  /\ ticket \in [Tickets -> TicketRow]
  /\ assignments \in [Tickets -> Seq(Assignment)]
  /\ history \in [Tickets -> Seq(HistoryRow)]
  /\ req \in [Requests -> InFlight \cup {Idle}]

(***************************************************************************)
(* Assignments.                                                            *)
(***************************************************************************)
\* The rows the CHECK constraint lets a table hold. It strengthens the type
\* invariant for the proofs: no row found under the lock is still ABSENT.
RowsLegal == \A t \in Tickets : ticket[t] = NoRow \/ AssignmentState(ticket[t])

\* A ticket's row and its assignments agree: one open assignment, the advisor's, or
\* none without an advisor.
SoleOpen(row, rows) ==
  IF row.advisor = NULL
  THEN OpenRows(rows) = {}
  ELSE \E i \in OpenRows(rows) : OpenRows(rows) = {i} /\ rows[i].advisor = row.advisor

\* A ticket with an advisor has exactly one open assignment, that advisor's,
\* and one without has none: assign closes the previous assignment, release
\* the current one.
OneOpenAssignment == \A t \in Tickets : SoleOpen(ticket[t], assignments[t])

\* A ticket whose one open assignment is its advisor's loses that only by a request
\* that assigned or released it on a snapshot showing other open assignments than
\* there were: neither the order of the handlers' steps nor a reopening on a stale
\* row breaks it.
OnlyStaleSnapshotSplits ==
  [][\A t \in Tickets :
       SoleOpen(ticket[t], assignments[t]) /\ ~SoleOpen(ticket'[t], assignments'[t]) =>
         \E r \in Requests :
           /\ req[r].ticket = t /\ ~Active(r)'
           /\ OpenRows(req[r].rows) # OpenRows(assignments[t])]_vars

\* Whatever assignment a stale snapshot made a request close, the last one
\* inserted is open and is the advisor's as long as the ticket has one: the row
\* current_assignment orders first is never the wrong one.
LatestAssignmentMatches ==
  \A t \in Tickets : ticket[t].advisor # NULL =>
    /\ assignments[t] # <<>>
    /\ Last(assignments[t]) = [advisor |-> ticket[t].advisor, open |-> TRUE]

\* The CHECK constraint is never what stops an endpoint other than reopen: on
\* every row it may find under the lock, an operation whose guards pass leaves a
\* row that satisfies it.
GuardsKeepAssignmentState ==
  \A t \in Tickets : LET row == ticket[t] IN row # NoRow =>
    /\ \A advisor \in Advisors :
         CanAssign(row, advisor) => AssignmentState(AssignedRow(row, advisor))
    /\ \A actor \in Staff :
         /\ CanRelease(row, actor) => AssignmentState(ReleasedRow(row))
         /\ \A new \in TicketStatus, reason \in BOOLEAN :
              CanTransition(row, new, reason, actor) => AssignmentState(MovedRow(row, new))

(***************************************************************************)
(* Terminal tickets and concurrent writers.                                *)
(***************************************************************************)
\* A closed or cancelled ticket never changes again: not its row, not its
\* assignments, not its history.
TerminalIsFinal ==
  [][\A t \in Tickets : ticket[t].status \in Terminal =>
       /\ ticket'[t] = ticket[t]
       /\ assignments'[t] = assignments[t]
       /\ history'[t] = history[t]]_vars

\* Nothing but a reopen that authenticated before the ticket was closed or
\* cancelled brings it back, and always to EN_PROCESO with its advisor.
OnlyStaleReopenRevives ==
  [][\A t \in Tickets : ticket[t].status \in Terminal /\ ticket'[t] # ticket[t] =>
       /\ ticket'[t].status = "EN_PROCESO"
       /\ ticket'[t].advisor = ticket[t].advisor
       /\ \E r \in Requests : Active(r) /\ ~Active(r)' /\ req[r].row.status = "RESUELTO"]_vars

\* A request that sends expected_version writes only over that version: whoever
\* updated the ticket in between makes it fail instead.
ConditionalWriteSeesLatest ==
  [][\A r \in Requests : Active(r) /\ ticket' # ticket /\ ~Active(r)' =>
       req[r].expected \in {NULL, ticket[req[r].ticket].version}]_vars

(***************************************************************************)
(* The history of a ticket.                                                *)
(***************************************************************************)
NoState == [status |-> "ABSENT", advisor |-> NULL, version |-> 0]

\* The status, advisor and version a reader of the history derives from one more
\* row. A release leaves two history rows, every other write one.
Replay(state, entry) ==
  CASE entry.action \in {"CREATED", "STATUS_CHANGED"} ->
         [state EXCEPT !.status = entry.new, !.version = @ + 1]
    [] entry.action \in {"ASSIGNED", "TAKEN"} ->
         [status  |-> IF state.status = "NUEVO" THEN "ASIGNADO" ELSE state.status,
          advisor |-> entry.new,
          version |-> state.version + 1]
    [] entry.action = "RELEASED" -> [state EXCEPT !.advisor = NULL]
    [] OTHER -> [state EXCEPT !.version = @ + 1]

\* What is derived from the first n rows, for every n.
Replays(entries) ==
  LET at[n \in 0..Len(entries)] ==
        IF n = 0 THEN NoState ELSE Replay(at[n - 1], entries[n])
  IN at

ReplayOf(entries) == Replays(entries)[Len(entries)]

\* The history alone gives the status and the advisor of every ticket.
HistoryExplainsTicket ==
  \A t \in Tickets :
    /\ ReplayOf(history[t]).status = ticket[t].status
    /\ ReplayOf(history[t]).advisor = ticket[t].advisor

\* The version counts the committed writes: two of them never share one.
VersionCountsWrites == \A t \in Tickets : ReplayOf(history[t]).version = ticket[t].version

\* The old value of a row is the value the rows before it leave.
RecordsOld(entry, before) ==
  /\ entry.action = "STATUS_CHANGED" => entry.old = before.status
  /\ entry.action \in {"ASSIGNED", "TAKEN", "RELEASED"} => entry.old = before.advisor

\* The history has no gap: no write went unrecorded, and no row overwrote a change
\* of a concurrent request that the request had not seen.
HistoryHasNoGap ==
  /\ VersionCountsWrites
  /\ \A t \in Tickets : \A i \in DOMAIN history[t] :
       RecordsOld(history[t][i], Replays(history[t])[i - 1])

\* The timestamps of a row agree with its status: closed_at and cancelled_at are
\* set exactly in the status they belong to, resolved_at from the resolution on.
TimestampsFollowStatus ==
  \A t \in Tickets : LET row == ticket[t] IN
    /\ row.closed <=> row.status = "CERRADO"
    /\ row.cancelled <=> row.status = "CANCELADO"
    /\ row.status \in {"RESUELTO", "CERRADO"} => row.resolved
    /\ row.status \in {"NUEVO", "ASIGNADO"} => ~row.resolved

(***************************************************************************)
(* The service implements the workflow: transactions over snapshots look   *)
(* like operations that act at once on the latest row.                     *)
(***************************************************************************)
Board == [t \in Tickets |-> [status |-> ticket[t].status, advisor |-> ticket[t].advisor,
                            version |-> ticket[t].version]]

Workflow == INSTANCE TicketWorkflow WITH board <- Board

\* Every behaviour of the endpoints, concurrent requests included, is one of
\* TicketWorkflow: no update is lost and every change is a legal one.
ImplementsWorkflow == Workflow!Spec

============================================================================
