--------------------------- MODULE TicketService ---------------------------
(***************************************************************************)
(* The ticket endpoints, run by concurrent requests on MySQL.              *)
(*                                                                         *)
(* Every request owns one SQLAlchemy session and one transaction. The      *)
(* authentication dependency issues the first SELECT, which at REPEATABLE  *)
(* READ, the default of MySQL, fixes the snapshot every later plain SELECT *)
(* reads. The handler then takes the ticket row with SELECT ... FOR        *)
(* UPDATE, which reads the latest committed row and keeps other writers of *)
(* that ticket out until COMMIT. A request is therefore two steps: Begin,  *)
(* which keeps what the snapshot holds, and one step from the lock to the  *)
(* COMMIT.                                                                 *)
(*                                                                         *)
(* What is stale in the second step is what the code reads without the     *)
(* lock: the current assignment (a plain SELECT) and, in reopen, the       *)
(* ticket itself, loaded before the lock and kept by the identity map.     *)
(***************************************************************************)
EXTENDS TicketRules

CONSTANTS
  Tickets,     \* ticket ids that may ever be created
  Requests,    \* requests that may be in flight at the same time
  Endpoints,   \* the endpoints clients call, a subset of AllEndpoints
  MaxVersion   \* bound: no commit raises a version above it

AllEndpoints == {"create", "assign", "take", "release", "status", "cancel",
                 "reopen", "close", "comment"}

ASSUME ServiceAssumption ==
  /\ NULL \notin Nat \cup Tickets
  /\ Endpoints \subseteq AllEndpoints
  /\ MaxVersion \in Nat \ {0}

VARIABLES
  ticket,       \* tickets: the committed row of each ticket
  assignments,  \* ticket_assignments: the committed rows of each ticket, in insertion order
  history,      \* ticket_history: the committed rows of each ticket, in insertion order
  req           \* the requests in flight, with what their snapshot holds

vars == <<ticket, assignments, history, req>>

Assignment == [advisor: Advisors, open: BOOLEAN]

HistoryAction == {"CREATED", "ASSIGNED", "TAKEN", "RELEASED", "STATUS_CHANGED",
                  "COMMENT_ADDED"}
HistoryRow == [action: HistoryAction, old: TicketStatus \cup Advisors \cup {NULL},
               new: TicketStatus \cup Advisors \cup {NULL}]

Idle == [ticket |-> NULL]
InFlight == [ticket: Tickets, expected: Nat \cup {NULL}, row: TicketRow,
             rows: Seq(Assignment)]

Active(r) == req[r].ticket # NULL

Init ==
  /\ ticket = [t \in Tickets |-> NoRow]
  /\ assignments = [t \in Tickets |-> <<>>]
  /\ history = [t \in Tickets |-> <<>>]
  /\ req = [r \in Requests |-> Idle]

(***************************************************************************)
(* The transaction of a request.                                           *)
(***************************************************************************)
\* Authentication: the session opens its transaction and reads for the first time.
Begin(r, t, expected) ==
  /\ ~Active(r)
  /\ ticket[t] # NoRow
  /\ req' = [req EXCEPT ![r] = [ticket |-> t, expected |-> expected,
                                row |-> ticket[t], rows |-> assignments[t]]]
  /\ UNCHANGED <<ticket, assignments, history>>

\* An early return, an exception, a deadlock victim or a lost connection:
\* the session closes and rolls back.
Rollback(r) ==
  /\ Active(r)
  /\ req' = [req EXCEPT ![r] = Idle]
  /\ UNCHANGED <<ticket, assignments, history>>

\* Mutant: an older version than the row's is accepted.
VersionNotAhead(r, row) == req[r].expected \in 0..row.version \cup {NULL}

\* _get_mutable_ticket: the row the lock returned, or the one the session
\* already held, must carry the version the client sent.
VersionMatches(r, row) == req[r].expected \in {NULL, row.version}

Entry(action, old, new) == [action |-> action, old |-> old, new |-> new]

\* COMMIT, which the CHECK constraint of the table may refuse.
Commit(r, row, rows, entries) ==
  LET t == req[r].ticket IN
  /\ row.version <= MaxVersion
  /\ AssignmentState(row)
  /\ ticket' = [ticket EXCEPT ![t] = row]
  /\ assignments' = [assignments EXCEPT ![t] = rows]
  /\ history' = [history EXCEPT ![t] = @ \o entries]
  /\ req' = [req EXCEPT ![r] = Idle]

(***************************************************************************)
(* current_assignment is a plain SELECT: it sees the snapshot. It returns  *)
(* the latest open row there, if any; closing it writes that row only.     *)
(***************************************************************************)
OpenRows(rows) == {i \in DOMAIN rows : rows[i].open}

CurrentAssignment(r) ==
  {i \in OpenRows(req[r].rows) : \A j \in OpenRows(req[r].rows) : j <= i}

CloseAssignment(rows, closed) ==
  [i \in DOMAIN rows |-> [rows[i] EXCEPT !.open = @ /\ i \notin closed]]

(***************************************************************************)
(* The endpoints. A ticket is inserted with its first history row in one   *)
(* transaction that reads no ticket.                                       *)
(***************************************************************************)
Create(t, c) ==
  /\ "create" \in Endpoints
  /\ ticket[t] = NoRow
  /\ ticket' = [ticket EXCEPT ![t] = NewRow(c)]
  /\ history' = [history EXCEPT ![t] = <<Entry("CREATED", NULL, "NUEVO")>>]
  /\ UNCHANGED <<assignments, req>>

\* Mutant: the history row of an assignment records no previous advisor.
AssignWithoutPrevious(r, advisor) ==
  LET t   == req[r].ticket
      row == ticket[t]
  IN
  /\ "assign" \in Endpoints /\ Active(r)
  /\ VersionMatches(r, row)
  /\ CanAssign(row, advisor)
  /\ Commit(r, AssignedRow(row, advisor),
            Append(CloseAssignment(assignments[t], CurrentAssignment(r)),
                   [advisor |-> advisor, open |-> TRUE]),
            <<Entry("ASSIGNED", NULL, advisor)>>)

\* Mutant: the current assignment is looked up after the new one is inserted.
AssignThenClose(r, advisor) ==
  LET t   == req[r].ticket
      row == ticket[t]
  IN
  /\ "assign" \in Endpoints /\ Active(r)
  /\ VersionMatches(r, row)
  /\ CanAssign(row, advisor)
  /\ Commit(r, AssignedRow(row, advisor),
            Append(assignments[t], [advisor |-> advisor, open |-> FALSE]),
            <<Entry("ASSIGNED", row.advisor, advisor)>>)

Assign(r, advisor) ==
  LET t   == req[r].ticket
      row == ticket[t]
  IN
  /\ "assign" \in Endpoints /\ Active(r)
  /\ VersionMatches(r, row)
  /\ CanAssign(row, advisor)
  /\ Commit(r, AssignedRow(row, advisor),
            Append(CloseAssignment(assignments[t], CurrentAssignment(r)),
                   [advisor |-> advisor, open |-> TRUE]),
            <<Entry("ASSIGNED", row.advisor, advisor)>>)

Take(r, advisor) ==
  LET t   == req[r].ticket
      row == ticket[t]
  IN
  /\ "take" \in Endpoints /\ Active(r)
  /\ VersionMatches(r, row)
  /\ CanTake(row)
  /\ Commit(r, AssignedRow(row, advisor),
            Append(assignments[t], [advisor |-> advisor, open |-> TRUE]),
            <<Entry("TAKEN", NULL, advisor)>>)

\* Mutant: release records no change of status.
ReleaseWithoutStatusRow(r, actor) ==
  LET t   == req[r].ticket
      row == ticket[t]
  IN
  /\ "release" \in Endpoints /\ Active(r)
  /\ VersionMatches(r, row)
  /\ CanRelease(row, actor)
  /\ Commit(r, ReleasedRow(row),
            CloseAssignment(assignments[t], CurrentAssignment(r)),
            <<Entry("RELEASED", row.advisor, NULL)>>)

\* Mutant: release leaves the current assignment open.
ReleaseWithoutClose(r, actor) ==
  LET t   == req[r].ticket
      row == ticket[t]
  IN
  /\ "release" \in Endpoints /\ Active(r)
  /\ VersionMatches(r, row)
  /\ CanRelease(row, actor)
  /\ Commit(r, ReleasedRow(row), assignments[t],
            <<Entry("RELEASED", row.advisor, NULL),
              Entry("STATUS_CHANGED", row.status, "NUEVO")>>)

Release(r, actor) ==
  LET t   == req[r].ticket
      row == ticket[t]
  IN
  /\ "release" \in Endpoints /\ Active(r)
  /\ VersionMatches(r, row)
  /\ CanRelease(row, actor)
  /\ Commit(r, ReleasedRow(row),
            CloseAssignment(assignments[t], CurrentAssignment(r)),
            <<Entry("RELEASED", row.advisor, NULL),
              Entry("STATUS_CHANGED", row.status, "NUEVO")>>)

\* change_status, and the part of it that cancel, close and reopen share: seen
\* is the row the checks are made on.
MayChangeStatus(r, seen, new, reason, actor) ==
  /\ VersionMatches(r, seen)
  /\ CanManage(seen, actor)
  /\ CanTransition(seen, new, reason, actor)

\* Mutant: the ticket is read without the lock, from the snapshot.
MoveUnlocked(r, new, reason, actor) ==
  LET row == req[r].row IN
  /\ MayChangeStatus(r, row, new, reason, actor)
  /\ Commit(r, MovedRow(row, new), assignments[req[r].ticket],
            <<Entry("STATUS_CHANGED", row.status, new)>>)

Move(r, new, reason, actor) ==
  LET t   == req[r].ticket
      row == ticket[t]
  IN
  /\ MayChangeStatus(r, row, new, reason, actor)
  /\ Commit(r, MovedRow(row, new), assignments[t],
            <<Entry("STATUS_CHANGED", row.status, new)>>)

ChangeStatus(r, new, reason, actor) ==
  "status" \in Endpoints /\ Active(r) /\ Move(r, new, reason, actor)

\* The endpoint of a supervisor, with a reason the schema requires.
Cancel(r, actor) ==
  /\ "cancel" \in Endpoints /\ Active(r)
  /\ actor \in Supervisors
  /\ Move(r, "CANCELADO", TRUE, actor)

\* close sends no expected_version of its own.
Close(r, actor) ==
  /\ "close" \in Endpoints /\ Active(r)
  /\ req[r].expected = NULL
  /\ Move(r, "CERRADO", FALSE, actor)

(***************************************************************************)
(* reopen loads the ticket without the lock. The locking read of           *)
(* change_status that follows returns the same object, which the session   *)
(* does not refresh: every check is made on the row of the snapshot, and   *)
(* the UPDATE writes the columns that differ from it (status and version). *)
(***************************************************************************)
ReopenedRow(seen, row) ==
  [row EXCEPT !.status = "EN_PROCESO", !.version = seen.version + 1]

Reopen(r, actor) ==
  LET t    == req[r].ticket
      seen == req[r].row
  IN
  /\ "reopen" \in Endpoints /\ Active(r)
  /\ seen.status = "RESUELTO"
  /\ MayChangeStatus(r, seen, "EN_PROCESO", TRUE, actor)
  /\ Commit(r, ReopenedRow(seen, ticket[t]), assignments[t],
            <<Entry("STATUS_CHANGED", seen.status, "EN_PROCESO")>>)

AddComment(r, actor) ==
  LET t   == req[r].ticket
      row == ticket[t]
  IN
  /\ "comment" \in Endpoints /\ Active(r)
  /\ VersionMatches(r, row)
  /\ CanView(row, actor)
  /\ IsOpen(row)
  /\ Commit(r, Touch(row), assignments[t], <<Entry("COMMENT_ADDED", NULL, NULL)>>)

Next ==
  \/ \E t \in Tickets, c \in Clients : Create(t, c)
  \/ \E r \in Requests, t \in Tickets :
       \E expected \in 1..ticket[t].version \cup {NULL} : Begin(r, t, expected)
  \/ \E r \in Requests : Rollback(r)
  \/ \E r \in Requests, advisor \in Advisors : Assign(r, advisor) \/ Take(r, advisor)
  \/ \E r \in Requests, actor \in Staff :
       \/ Release(r, actor)
       \/ Cancel(r, actor)
       \/ Close(r, actor)
       \/ Reopen(r, actor)
       \/ \E new \in TicketStatus, reason \in BOOLEAN : ChangeStatus(r, new, reason, actor)
  \/ \E r \in Requests, actor \in Actors : AddComment(r, actor)

Spec == Init /\ [][Next]_vars

=============================================================================
