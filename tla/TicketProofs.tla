--------------------------- MODULE TicketProofs ----------------------------
(***************************************************************************)
(* Theorems about TicketService, for any sets of users, tickets and        *)
(* concurrent requests and any bound on versions.                          *)
(***************************************************************************)
EXTENDS TicketProperties, SequenceTheorems, NaturalsInduction, WellFoundedInduction,
        TLAPS

(***************************************************************************)
(* Lemmas about the operators the model is built from.                     *)
(***************************************************************************)
\* Closing assignments keeps the rows, their number and their advisors.
LEMMA CloseAssignmentType ==
  ASSUME NEW rows \in Seq(Assignment), NEW closed
  PROVE  /\ CloseAssignment(rows, closed) \in Seq(Assignment)
         /\ Len(CloseAssignment(rows, closed)) = Len(rows)
<1> DEFINE after == CloseAssignment(rows, closed)
<1>1. /\ Len(rows) \in Nat
      /\ DOMAIN rows = 1..Len(rows)
      /\ \A i \in 1..Len(rows) : rows[i] \in Assignment
  OBVIOUS
<1>2. after \in [1..Len(rows) -> Assignment]
  BY <1>1 DEF CloseAssignment, Assignment
<1>3. after \in Seq(Assignment) /\ Len(after) = Len(rows)
  BY <1>1, <1>2
<1> QED
  BY <1>3

\* The rows the operations write are rows.
LEMMA EffectTypes ==
  ASSUME NEW row \in TicketRow
  PROVE  /\ Touch(row) \in TicketRow
         /\ ReleasedRow(row) \in TicketRow
         /\ \A advisor \in Advisors : AssignedRow(row, advisor) \in TicketRow
         /\ \A new \in TicketStatus : MovedRow(row, new) \in TicketRow
         /\ \A seen \in TicketRow : ReopenedRow(seen, row) \in TicketRow
<1>1. \A any \in TicketRow : Touch(any) \in TicketRow
  BY DEF TicketRow, Touch
<1>2. ReleasedRow(row) \in TicketRow
  <2> DEFINE freed == [row EXCEPT !.advisor = NULL, !.status = "NUEVO", !.resolved = FALSE,
                                  !.closed = FALSE, !.cancelled = FALSE]
  <2>1. freed \in TicketRow
    BY DEF TicketRow, TicketStatus
  <2> QED
    BY <1>1, <2>1 DEF ReleasedRow
<1>3. ASSUME NEW advisor \in Advisors PROVE AssignedRow(row, advisor) \in TicketRow
  <2> DEFINE handed == [row EXCEPT !.advisor = advisor,
                                   !.status = IF @ = "NUEVO" THEN "ASIGNADO" ELSE @]
  <2>1. handed \in TicketRow
    BY <1>3 DEF TicketRow, TicketStatus
  <2> QED
    BY <1>1, <2>1 DEF AssignedRow
<1>4. ASSUME NEW new \in TicketStatus PROVE MovedRow(row, new) \in TicketRow
  <2> DEFINE moved == [row EXCEPT !.status = new]
  <2>1. moved \in TicketRow
    BY <1>4 DEF TicketRow
  <2>2. Stamp(moved, new) \in TicketRow
    BY <2>1 DEF TicketRow, Stamp
  <2> QED
    BY <1>1, <2>2 DEF MovedRow
<1>5. ASSUME NEW seen \in TicketRow PROVE ReopenedRow(seen, row) \in TicketRow
  <2> DEFINE version == seen.version + 1
  <2>1. version \in Nat
    BY <1>5 DEF TicketRow
  <2>2. [row EXCEPT !.status = "EN_PROCESO", !.version = version] \in TicketRow
    <3> HIDE DEF version
    <3> QED
      BY <2>1 DEF TicketRow, TicketStatus
  <2> QED
    BY <2>2 DEF ReopenedRow
<1> QED
  BY <1>1, <1>2, <1>3, <1>4, <1>5

\* The status, advisor and version the operations write.
LEMMA EffectFields ==
  ASSUME NEW row \in TicketRow
  PROVE  /\ /\ Touch(row).status = row.status
            /\ Touch(row).advisor = row.advisor
            /\ Touch(row).version = row.version + 1
         /\ /\ ReleasedRow(row).status = "NUEVO"
            /\ ReleasedRow(row).advisor = NULL
            /\ ReleasedRow(row).version = row.version + 1
         /\ \A advisor \in Advisors :
              /\ AssignedRow(row, advisor).status =
                   IF row.status = "NUEVO" THEN "ASIGNADO" ELSE row.status
              /\ AssignedRow(row, advisor).advisor = advisor
              /\ AssignedRow(row, advisor).version = row.version + 1
         /\ \A new \in TicketStatus :
              /\ MovedRow(row, new).status = new
              /\ MovedRow(row, new).advisor = row.advisor
              /\ MovedRow(row, new).version = row.version + 1
<1>1. \A any \in TicketRow :
        /\ Touch(any).status = any.status
        /\ Touch(any).advisor = any.advisor
        /\ Touch(any).version = any.version + 1
  BY DEF Touch, TicketRow
<1>2. /\ ReleasedRow(row).status = "NUEVO"
      /\ ReleasedRow(row).advisor = NULL
      /\ ReleasedRow(row).version = row.version + 1
  BY DEF ReleasedRow, Touch, TicketRow
<1>3. ASSUME NEW advisor \in Advisors
      PROVE  /\ AssignedRow(row, advisor).status =
                  IF row.status = "NUEVO" THEN "ASIGNADO" ELSE row.status
             /\ AssignedRow(row, advisor).advisor = advisor
             /\ AssignedRow(row, advisor).version = row.version + 1
  BY DEF AssignedRow, Touch, TicketRow
<1>4. ASSUME NEW new \in TicketStatus
      PROVE  /\ MovedRow(row, new).status = new
             /\ MovedRow(row, new).advisor = row.advisor
             /\ MovedRow(row, new).version = row.version + 1
  <2> DEFINE moved == [row EXCEPT !.status = new]
             stamped == Stamp(moved, new)
  <2>1. moved \in TicketRow /\ moved.status = new /\ moved.advisor = row.advisor
          /\ moved.version = row.version
    BY DEF TicketRow
  <2>2. stamped \in TicketRow /\ stamped.status = moved.status
          /\ stamped.advisor = moved.advisor /\ stamped.version = moved.version
    <3> HIDE DEF moved
    <3> QED
      BY <2>1 DEF TicketRow, Stamp
  <2> QED
    BY <1>1, <2>1, <2>2 DEF MovedRow
<1> QED
  BY <1>1, <1>2, <1>3, <1>4

LEMMA NewRowType == NoRow \in TicketRow /\ \A c \in Clients : NewRow(c) \in TicketRow
  BY DEF NoRow, NewRow, TicketRow, TicketStatus

LEMMA ActiveRequest ==
  ASSUME TypeOK, NEW r \in Requests, Active(r)
  PROVE  /\ req[r] \in InFlight
         /\ req[r].ticket \in Tickets
         /\ ticket[req[r].ticket] \in TicketRow
         /\ assignments[req[r].ticket] \in Seq(Assignment)
         /\ history[req[r].ticket] \in Seq(HistoryRow)
         /\ req[r].row \in TicketRow
         /\ req[r].rows \in Seq(Assignment)
<1>1. req[r] \in InFlight
  BY DEF TypeOK, Active, Idle
<1> QED
  BY <1>1 DEF TypeOK, InFlight

LEMMA CommitType ==
  ASSUME TypeOK, NEW r \in Requests, Active(r),
         NEW row \in TicketRow, NEW rows \in Seq(Assignment),
         NEW entries \in Seq(HistoryRow),
         Commit(r, row, rows, entries)
  PROVE  TypeOK'
<1> DEFINE t == req[r].ticket
<1>1. t \in Tickets /\ history[t] \in Seq(HistoryRow)
  BY ActiveRequest
<1>2. history[t] \o entries \in Seq(HistoryRow)
  BY <1>1
<1>3. /\ ticket' = [ticket EXCEPT ![t] = row]
      /\ assignments' = [assignments EXCEPT ![t] = rows]
      /\ history' = [history EXCEPT ![t] = history[t] \o entries]
      /\ req' = [req EXCEPT ![r] = Idle]
  BY DEF Commit, TypeOK
<1> QED
  BY <1>1, <1>2, <1>3 DEF TypeOK

(***************************************************************************)
(* Type correctness, one lemma per kind of step.                           *)
(***************************************************************************)
LEMMA InitType == Init => TypeOK
  BY NewRowType DEF Init, TypeOK, Idle

LEMMA CreateType ==
  ASSUME TypeOK, NEW t \in Tickets, NEW c \in Clients, Create(t, c)
  PROVE  TypeOK'
<1>1. <<Entry("CREATED", NULL, "NUEVO")>> \in Seq(HistoryRow)
  BY DEF Entry, HistoryRow, HistoryAction, TicketStatus
<1> QED
  BY <1>1, NewRowType DEF TypeOK, Create

LEMMA BeginType ==
  ASSUME TypeOK, NEW r \in Requests, NEW t \in Tickets,
         NEW expected \in 1..ticket[t].version \cup {NULL}, Begin(r, t, expected)
  PROVE  TypeOK'
<1>1. ticket[t] \in TicketRow /\ assignments[t] \in Seq(Assignment)
  BY DEF TypeOK
<1>2. ticket[t].version \in Nat
  BY <1>1 DEF TicketRow
<1>3. expected \in Nat \cup {NULL}
  BY <1>2
<1>4. [ticket |-> t, expected |-> expected, row |-> ticket[t], rows |-> assignments[t]]
        \in InFlight
  BY <1>1, <1>3 DEF InFlight
<1> QED
  BY <1>4 DEF TypeOK, Begin

LEMMA RollbackType ==
  ASSUME TypeOK, NEW r \in Requests, Rollback(r)
  PROVE  TypeOK'
  BY DEF TypeOK, Rollback

LEMMA AssignType ==
  ASSUME TypeOK, NEW r \in Requests, NEW advisor \in Advisors, Assign(r, advisor)
  PROVE  TypeOK'
<1> DEFINE t == req[r].ticket
           row == ticket[t]
           closed == CloseAssignment(assignments[t], CurrentAssignment(r))
           rows == Append(closed, [advisor |-> advisor, open |-> TRUE])
           entries == <<Entry("ASSIGNED", row.advisor, advisor)>>
<1>1. Active(r) /\ Commit(r, AssignedRow(row, advisor), rows, entries)
  BY DEF Assign
<1>2. row \in TicketRow /\ assignments[t] \in Seq(Assignment)
  BY <1>1, ActiveRequest
<1>3. AssignedRow(row, advisor) \in TicketRow
  BY <1>2, EffectTypes
<1>4. closed \in Seq(Assignment)
  BY <1>2, CloseAssignmentType
<1>5. rows \in Seq(Assignment)
  BY <1>4 DEF Assignment
<1>6. entries \in Seq(HistoryRow)
  BY <1>2 DEF Entry, HistoryRow, HistoryAction, TicketRow
<1> QED
  BY <1>1, <1>3, <1>5, <1>6, CommitType

LEMMA TakeType ==
  ASSUME TypeOK, NEW r \in Requests, NEW advisor \in Advisors, Take(r, advisor)
  PROVE  TypeOK'
<1> DEFINE t == req[r].ticket
           row == ticket[t]
           rows == Append(assignments[t], [advisor |-> advisor, open |-> TRUE])
           entries == <<Entry("TAKEN", NULL, advisor)>>
<1>1. Active(r) /\ Commit(r, AssignedRow(row, advisor), rows, entries)
  BY DEF Take
<1>2. row \in TicketRow /\ assignments[t] \in Seq(Assignment)
  BY <1>1, ActiveRequest
<1>3. AssignedRow(row, advisor) \in TicketRow
  BY <1>2, EffectTypes
<1>4. rows \in Seq(Assignment)
  BY <1>2 DEF Assignment
<1>5. entries \in Seq(HistoryRow)
  BY DEF Entry, HistoryRow, HistoryAction
<1> QED
  BY <1>1, <1>3, <1>4, <1>5, CommitType

LEMMA ReleaseType ==
  ASSUME TypeOK, RowsLegal, NEW r \in Requests, NEW actor \in Staff, Release(r, actor)
  PROVE  TypeOK'
<1> DEFINE t == req[r].ticket
           row == ticket[t]
           rows == CloseAssignment(assignments[t], CurrentAssignment(r))
           entries == <<Entry("RELEASED", row.advisor, NULL),
                        Entry("STATUS_CHANGED", row.status, "NUEVO")>>
<1>1. /\ Active(r)
      /\ CanRelease(row, actor)
      /\ Commit(r, ReleasedRow(row), rows, entries)
  BY DEF Release
<1>2. row \in TicketRow /\ assignments[t] \in Seq(Assignment)
  BY <1>1, ActiveRequest
<1>3. ReleasedRow(row) \in TicketRow
  BY <1>2, EffectTypes
<1>4. rows \in Seq(Assignment)
  BY <1>2, CloseAssignmentType
<1>5. entries \in Seq(HistoryRow)
  <2>1. row.status \in TicketStatus
    BY <1>1, <1>2, ActiveRequest
       DEF RowsLegal, NoRow, AssignmentState, CanRelease, RequiresAssignedAdvisor,
           Terminal, TicketStatus
  <2> QED
    BY <1>2, <2>1 DEF Entry, HistoryRow, HistoryAction, TicketRow, TicketStatus
<1> QED
  BY <1>1, <1>3, <1>4, <1>5, CommitType

\* ChangeStatus, Cancel and Close are moves.
LEMMA MoveType ==
  ASSUME TypeOK, RowsLegal, NEW r \in Requests, Active(r), NEW new \in TicketStatus,
         NEW reason \in BOOLEAN, NEW actor \in Staff, Move(r, new, reason, actor)
  PROVE  TypeOK'
<1> DEFINE t == req[r].ticket
           row == ticket[t]
           entries == <<Entry("STATUS_CHANGED", row.status, new)>>
<1>1. /\ CanTransition(row, new, reason, actor)
      /\ Commit(r, MovedRow(row, new), assignments[t], entries)
  BY DEF Move, MayChangeStatus
<1>2. row \in TicketRow /\ assignments[t] \in Seq(Assignment)
  BY ActiveRequest
<1>3. MovedRow(row, new) \in TicketRow
  BY <1>2, EffectTypes
<1>4. row.status \in TicketStatus
  BY <1>1, <1>2 DEF CanTransition, AllowedTransitions, TicketRow, TicketStatus
<1>5. entries \in Seq(HistoryRow)
  BY <1>4 DEF Entry, HistoryRow, HistoryAction
<1> QED
  BY <1>1, <1>2, <1>3, <1>5, CommitType

LEMMA ReopenType ==
  ASSUME TypeOK, NEW r \in Requests, NEW actor \in Staff, Reopen(r, actor)
  PROVE  TypeOK'
<1> DEFINE t == req[r].ticket
           seen == req[r].row
           entries == <<Entry("STATUS_CHANGED", seen.status, "EN_PROCESO")>>
<1>1. /\ Active(r)
      /\ seen.status = "RESUELTO"
      /\ Commit(r, ReopenedRow(seen, ticket[t]), assignments[t], entries)
  BY DEF Reopen
<1>2. /\ seen \in TicketRow
      /\ ticket[t] \in TicketRow
      /\ assignments[t] \in Seq(Assignment)
  BY <1>1, ActiveRequest
<1>3. ReopenedRow(seen, ticket[t]) \in TicketRow
  BY <1>2, EffectTypes
<1>4. entries \in Seq(HistoryRow)
  BY <1>1 DEF Entry, HistoryRow, HistoryAction, TicketStatus
<1> QED
  BY <1>1, <1>2, <1>3, <1>4, CommitType

LEMMA AddCommentType ==
  ASSUME TypeOK, NEW r \in Requests, NEW actor \in Actors, AddComment(r, actor)
  PROVE  TypeOK'
<1> DEFINE t == req[r].ticket
           row == ticket[t]
           entries == <<Entry("COMMENT_ADDED", NULL, NULL)>>
<1>1. Active(r) /\ Commit(r, Touch(row), assignments[t], entries)
  BY DEF AddComment
<1>2. row \in TicketRow /\ assignments[t] \in Seq(Assignment)
  BY <1>1, ActiveRequest
<1>3. Touch(row) \in TicketRow
  BY <1>2, EffectTypes
<1>4. entries \in Seq(HistoryRow)
  BY DEF Entry, HistoryRow, HistoryAction
<1> QED
  BY <1>1, <1>2, <1>3, <1>4, CommitType

(***************************************************************************)
(* The inductive invariant: the types, and the rows the table may hold.    *)
(***************************************************************************)
IInv == TypeOK /\ RowsLegal

\* The CHECK constraint holds of whatever a COMMIT writes.
LEMMA CommitRowsLegal ==
  ASSUME TypeOK, RowsLegal, NEW r \in Requests, Active(r),
         NEW row, NEW rows, NEW entries, Commit(r, row, rows, entries)
  PROVE  RowsLegal'
<1>1. req[r].ticket \in Tickets
  BY ActiveRequest
<1>2. ticket' = [ticket EXCEPT ![req[r].ticket] = row] /\ AssignmentState(row)
  BY DEF Commit
<1>3. ASSUME NEW t \in Tickets PROVE ticket'[t] = NoRow \/ AssignmentState(ticket'[t])
  <2>1. ticket'[t] = ticket[t] \/ ticket'[t] = row
    BY <1>1, <1>2 DEF TypeOK
  <2> QED
    BY <1>2, <2>1 DEF RowsLegal
<1> QED
  BY <1>3 DEF RowsLegal

\* A step of the service creates a ticket, starts or ends a transaction with no
\* write, or commits one write; a stutter is the only other step.
LEMMA StepKinds ==
  ASSUME [Next]_vars
  PROVE  \/ \E t \in Tickets, c \in Clients : Create(t, c)
         \/ \E r \in Requests, t \in Tickets :
              \E expected \in 1..ticket[t].version \cup {NULL} : Begin(r, t, expected)
         \/ \E r \in Requests : Rollback(r)
         \/ \E r \in Requests, advisor \in Advisors : Assign(r, advisor)
         \/ \E r \in Requests, advisor \in Advisors : Take(r, advisor)
         \/ \E r \in Requests, actor \in Staff : Release(r, actor)
         \/ \E r \in Requests, actor \in Staff, new \in TicketStatus, reason \in BOOLEAN :
              Active(r) /\ Move(r, new, reason, actor)
         \/ \E r \in Requests, actor \in Staff : Reopen(r, actor)
         \/ \E r \in Requests, actor \in Actors : AddComment(r, actor)
         \/ UNCHANGED vars
<1>1. CASE \E r \in Requests, actor \in Staff : Cancel(r, actor) \/ Close(r, actor)
  BY <1>1 DEF Cancel, Close, TicketStatus
<1>2. CASE \E r \in Requests, actor \in Staff, new \in TicketStatus, reason \in BOOLEAN :
             ChangeStatus(r, new, reason, actor)
  BY <1>2 DEF ChangeStatus
<1> QED
  BY <1>1, <1>2 DEF Next

LEMMA TypeStep == IInv /\ [Next]_vars => TypeOK'
<1> SUFFICES ASSUME TypeOK, RowsLegal, [Next]_vars
             PROVE  TypeOK'
  BY DEF IInv
<1>1. CASE UNCHANGED vars
  BY <1>1 DEF vars, TypeOK
<1> QED
  BY <1>1, StepKinds, CreateType, BeginType, RollbackType, AssignType, TakeType,
     ReleaseType, MoveType, ReopenType, AddCommentType

LEMMA RowsLegalStep == IInv /\ [Next]_vars => RowsLegal'
<1> SUFFICES ASSUME TypeOK, RowsLegal, [Next]_vars
             PROVE  RowsLegal'
  BY DEF IInv
<1>1. ASSUME NEW t \in Tickets, NEW c \in Clients, Create(t, c) PROVE RowsLegal'
  <2>1. AssignmentState(NewRow(c))
    BY DEF AssignmentState, NewRow, NoRow
  <2> QED
    BY <1>1, <2>1 DEF RowsLegal, Create, TypeOK
<1>2. CASE UNCHANGED ticket
  BY <1>2 DEF RowsLegal
<1>3. ASSUME NEW r \in Requests, NEW advisor \in Advisors, Assign(r, advisor)
      PROVE RowsLegal'
  BY <1>3, CommitRowsLegal DEF Assign
<1>4. ASSUME NEW r \in Requests, NEW advisor \in Advisors, Take(r, advisor)
      PROVE RowsLegal'
  BY <1>4, CommitRowsLegal DEF Take
<1>5. ASSUME NEW r \in Requests, NEW actor \in Staff, Release(r, actor)
      PROVE RowsLegal'
  BY <1>5, CommitRowsLegal DEF Release
<1>6. ASSUME NEW r \in Requests, NEW actor \in Staff, NEW new \in TicketStatus,
             NEW reason \in BOOLEAN, Active(r), Move(r, new, reason, actor)
      PROVE RowsLegal'
  BY <1>6, CommitRowsLegal DEF Move
<1>7. ASSUME NEW r \in Requests, NEW actor \in Staff, Reopen(r, actor)
      PROVE RowsLegal'
  BY <1>7, CommitRowsLegal DEF Reopen
<1>8. ASSUME NEW r \in Requests, NEW actor \in Actors, AddComment(r, actor)
      PROVE RowsLegal'
  BY <1>8, CommitRowsLegal DEF AddComment
<1>9. ASSUME NEW r \in Requests, Rollback(r) \/ \E t \in Tickets :
               \E expected \in 1..ticket[t].version \cup {NULL} : Begin(r, t, expected)
      PROVE RowsLegal'
  BY <1>9, <1>2 DEF Rollback, Begin
<1>10. CASE UNCHANGED vars
  BY <1>10, <1>2 DEF vars
<1> QED
  BY <1>1, <1>3, <1>4, <1>5, <1>6, <1>7, <1>8, <1>9, <1>10, StepKinds

LEMMA Invariance == Spec => []IInv
<1>1. Init => IInv
  BY InitType DEF IInv, RowsLegal, Init
<1>2. IInv /\ [Next]_vars => IInv'
  BY TypeStep, RowsLegalStep DEF IInv
<1> QED
  BY <1>1, <1>2, PTL DEF Spec

\* Rows, assignments, history and requests keep their types in every behaviour.
THEOREM TypeCorrect == Spec => []TypeOK
<1>1. IInv => TypeOK
  BY DEF IInv
<1> QED
  BY <1>1, Invariance, PTL

(***************************************************************************)
(* The guards of the operations and the CHECK constraint.                  *)
(***************************************************************************)
\* On a row the table may hold, a guard that passes never leads to a row the
\* CHECK constraint refuses.
LEMMA GuardsImplyCheck ==
  ASSUME NEW row \in TicketRow, AssignmentState(row)
  PROVE  /\ \A advisor \in Advisors :
              CanAssign(row, advisor) => AssignmentState(AssignedRow(row, advisor))
         /\ \A actor \in Staff :
              /\ CanRelease(row, actor) => AssignmentState(ReleasedRow(row))
              /\ \A new \in TicketStatus, reason \in BOOLEAN :
                   CanTransition(row, new, reason, actor) => AssignmentState(MovedRow(row, new))
<1>1. ASSUME NEW advisor \in Advisors, CanAssign(row, advisor)
      PROVE  AssignmentState(AssignedRow(row, advisor))
  <2> DEFINE after == AssignedRow(row, advisor)
  <2>1. /\ after.advisor = advisor
        /\ after.status = IF row.status = "NUEVO" THEN "ASIGNADO" ELSE row.status
    BY EffectFields
  <2>2. row.status \notin Terminal /\ advisor # NULL
    BY <1>1, RolesAssumption DEF CanAssign, IsOpen
  <2> QED
    BY <2>1, <2>2 DEF AssignmentState, RequiresAssignedAdvisor, Terminal
<1>2. AssignmentState(ReleasedRow(row))
  <2>1. ReleasedRow(row).status = "NUEVO" /\ ReleasedRow(row).advisor = NULL
    BY EffectFields
  <2> QED
    BY <2>1 DEF AssignmentState
<1>3. ASSUME NEW actor \in Staff, NEW new \in TicketStatus, NEW reason \in BOOLEAN,
             CanTransition(row, new, reason, actor)
      PROVE  AssignmentState(MovedRow(row, new))
  <2>1. MovedRow(row, new).status = new /\ MovedRow(row, new).advisor = row.advisor
    BY EffectFields
  <2>2. new \in RequiresAssignedAdvisor \cup Terminal
    BY <1>3 DEF CanTransition, AllowedTransitions, RequiresAssignedAdvisor, Terminal
  <2> QED
    BY <1>3, <2>1, <2>2 DEF CanTransition, AssignmentState
<1> QED
  BY <1>1, <1>2, <1>3

\* The CHECK constraint never stops an endpoint whose guards passed on the row it
\* locked: reopen, which looks at another row, is the only one it can stop.
THEOREM GuardsKeepCheck == Spec => []GuardsKeepAssignmentState
<1>1. IInv => GuardsKeepAssignmentState
  <2> SUFFICES ASSUME TypeOK, RowsLegal, NEW t \in Tickets, ticket[t] # NoRow
               PROVE  AssignmentState(ticket[t]) /\ ticket[t] \in TicketRow
    BY GuardsImplyCheck DEF IInv, GuardsKeepAssignmentState
  <2> QED
    BY DEF TypeOK, RowsLegal
<1> QED
  BY <1>1, Invariance, PTL

(***************************************************************************)
(* The latest assignment.                                                  *)
(***************************************************************************)
\* The row that Assign and Take insert is the last one and is open.
LEMMA AppendIsLatest ==
  ASSUME NEW rows \in Seq(Assignment), NEW advisor \in Advisors
  PROVE  LET after == Append(rows, [advisor |-> advisor, open |-> TRUE]) IN
         after # <<>> /\ Last(after) = [advisor |-> advisor, open |-> TRUE]
<1> DEFINE new == [advisor |-> advisor, open |-> TRUE]
           after == Append(rows, new)
<1>1. new \in Assignment
  BY DEF Assignment
<1>2. after # <<>> /\ after[Len(after)] = new
  BY <1>1
<1> QED
  BY <1>2 DEF Last

\* A commit disturbs the property at its own ticket only.
LEMMA CommitLatest ==
  ASSUME TypeOK, LatestAssignmentMatches, NEW r \in Requests, Active(r),
         NEW row, NEW rows, NEW entries, Commit(r, row, rows, entries),
         row.advisor # NULL =>
           rows # <<>> /\ Last(rows) = [advisor |-> row.advisor, open |-> TRUE]
  PROVE  LatestAssignmentMatches'
<1> DEFINE t == req[r].ticket
<1>1. /\ t \in Tickets
      /\ ticket' = [ticket EXCEPT ![t] = row]
      /\ assignments' = [assignments EXCEPT ![t] = rows]
  BY ActiveRequest DEF Commit
<1>2. /\ ticket'[t] = row /\ assignments'[t] = rows
      /\ \A u \in Tickets \ {t} : ticket'[u] = ticket[u] /\ assignments'[u] = assignments[u]
  BY <1>1 DEF TypeOK
<1> QED
  BY <1>2 DEF LatestAssignmentMatches

LEMMA LatestStep == TypeOK /\ LatestAssignmentMatches /\ [Next]_vars => LatestAssignmentMatches'
<1> SUFFICES ASSUME TypeOK, LatestAssignmentMatches, [Next]_vars
             PROVE  LatestAssignmentMatches'
  OBVIOUS
<1>1. ASSUME NEW t \in Tickets, NEW c \in Clients, Create(t, c)
      PROVE  LatestAssignmentMatches'
  <2>1. NewRow(c).advisor = NULL
    BY DEF NewRow, NoRow
  <2> QED
    BY <1>1, <2>1 DEF Create, TypeOK, LatestAssignmentMatches
<1>2. CASE UNCHANGED <<ticket, assignments>>
  BY <1>2 DEF LatestAssignmentMatches
<1>3. ASSUME NEW r \in Requests, NEW advisor \in Advisors, Assign(r, advisor)
      PROVE  LatestAssignmentMatches'
  <2> DEFINE t == req[r].ticket
             closed == CloseAssignment(assignments[t], CurrentAssignment(r))
  <2>1. /\ Active(r)
        /\ Commit(r, AssignedRow(ticket[t], advisor),
                  Append(closed, [advisor |-> advisor, open |-> TRUE]),
                  <<Entry("ASSIGNED", ticket[t].advisor, advisor)>>)
    BY <1>3 DEF Assign
  <2>2. ticket[t] \in TicketRow /\ closed \in Seq(Assignment)
    BY <2>1, ActiveRequest, CloseAssignmentType
  <2>3. AssignedRow(ticket[t], advisor).advisor = advisor
    BY <2>2, EffectFields
  <2> QED
    BY <2>1, <2>2, <2>3, AppendIsLatest, CommitLatest
<1>4. ASSUME NEW r \in Requests, NEW advisor \in Advisors, Take(r, advisor)
      PROVE  LatestAssignmentMatches'
  <2> DEFINE t == req[r].ticket
  <2>1. /\ Active(r)
        /\ Commit(r, AssignedRow(ticket[t], advisor),
                  Append(assignments[t], [advisor |-> advisor, open |-> TRUE]),
                  <<Entry("TAKEN", NULL, advisor)>>)
    BY <1>4 DEF Take
  <2>2. ticket[t] \in TicketRow /\ assignments[t] \in Seq(Assignment)
    BY <2>1, ActiveRequest
  <2>3. AssignedRow(ticket[t], advisor).advisor = advisor
    BY <2>2, EffectFields
  <2> QED
    BY <2>1, <2>2, <2>3, AppendIsLatest, CommitLatest
<1>5. ASSUME NEW r \in Requests, NEW actor \in Staff, Release(r, actor)
      PROVE  LatestAssignmentMatches'
  <2>1. Active(r) /\ ticket[req[r].ticket] \in TicketRow
    BY <1>5, ActiveRequest DEF Release
  <2>2. ReleasedRow(ticket[req[r].ticket]).advisor = NULL
    BY <2>1, EffectFields
  <2> QED
    BY <1>5, <2>1, <2>2, CommitLatest DEF Release
<1>6. ASSUME NEW r \in Requests, Active(r), NEW row \in TicketRow, NEW entries,
             row.advisor = ticket[req[r].ticket].advisor,
             Commit(r, row, assignments[req[r].ticket], entries)
      PROVE  LatestAssignmentMatches'
  <2>1. req[r].ticket \in Tickets
    BY <1>6, ActiveRequest
  <2> QED
    BY <1>6, <2>1, CommitLatest DEF LatestAssignmentMatches
<1>7. ASSUME NEW r \in Requests, NEW actor \in Staff, NEW new \in TicketStatus,
             NEW reason \in BOOLEAN, Active(r), Move(r, new, reason, actor)
      PROVE  LatestAssignmentMatches'
  <2> DEFINE row == ticket[req[r].ticket]
  <2>1. row \in TicketRow
    BY <1>7, ActiveRequest
  <2>2. MovedRow(row, new) \in TicketRow /\ MovedRow(row, new).advisor = row.advisor
    BY <2>1, EffectTypes, EffectFields
  <2> QED
    BY <1>6, <1>7, <2>2 DEF Move
<1>8. ASSUME NEW r \in Requests, NEW actor \in Staff, Reopen(r, actor)
      PROVE  LatestAssignmentMatches'
  <2> DEFINE row == ticket[req[r].ticket]
             seen == req[r].row
  <2>1. Active(r) /\ row \in TicketRow /\ seen \in TicketRow
    BY <1>8, ActiveRequest DEF Reopen
  <2>2. ReopenedRow(seen, row) \in TicketRow /\ ReopenedRow(seen, row).advisor = row.advisor
    BY <2>1, EffectTypes DEF ReopenedRow, TicketRow
  <2> QED
    BY <1>6, <1>8, <2>1, <2>2 DEF Reopen
<1>9. ASSUME NEW r \in Requests, NEW actor \in Actors, AddComment(r, actor)
      PROVE  LatestAssignmentMatches'
  <2> DEFINE row == ticket[req[r].ticket]
  <2>1. Active(r) /\ row \in TicketRow
    BY <1>9, ActiveRequest DEF AddComment
  <2>2. Touch(row) \in TicketRow /\ Touch(row).advisor = row.advisor
    BY <2>1, EffectTypes, EffectFields
  <2> QED
    BY <1>6, <1>9, <2>1, <2>2 DEF AddComment
<1>10. ASSUME NEW r \in Requests, Rollback(r) \/ \E t \in Tickets :
                \E expected \in 1..ticket[t].version \cup {NULL} : Begin(r, t, expected)
       PROVE  LatestAssignmentMatches'
  BY <1>2, <1>10 DEF Rollback, Begin
<1>11. CASE UNCHANGED vars
  BY <1>2, <1>11 DEF vars
<1> QED
  BY <1>1, <1>3, <1>4, <1>5, <1>7, <1>8, <1>9, <1>10, <1>11, StepKinds

\* However stale the snapshot an operation closes assignments from, the last
\* assignment of a ticket with an advisor is open and is that advisor's.
THEOREM LatestAssignment == Spec => []LatestAssignmentMatches
<1>1. Init => LatestAssignmentMatches
  BY DEF Init, LatestAssignmentMatches, NoRow
<1>2. TypeOK /\ LatestAssignmentMatches /\ [Next]_vars => LatestAssignmentMatches'
  BY LatestStep
<1> QED
  BY <1>1, <1>2, TypeCorrect, PTL DEF Spec

(***************************************************************************)
(* The service without reopen: every check is made on the locked row.      *)
(***************************************************************************)
\* A step that changes a ticket inserts it, or writes one that is open and has
\* the version its request expects, and leaves the other tickets alone.
LEMMA LockedSteps ==
  ASSUME TypeOK, "reopen" \notin Endpoints, [Next]_vars
  PROVE  \/ UNCHANGED <<ticket, assignments, history>>
         \/ \E t \in Tickets, c \in Clients : Create(t, c)
         \/ \E r \in Requests :
              /\ Active(r)
              /\ VersionMatches(r, ticket[req[r].ticket])
              /\ IsOpen(ticket[req[r].ticket])
              /\ req' = [req EXCEPT ![r] = Idle]
              /\ \A u \in Tickets \ {req[r].ticket} :
                   /\ ticket'[u] = ticket[u]
                   /\ assignments'[u] = assignments[u]
                   /\ history'[u] = history[u]
<1> DEFINE Writes(r) ==
             /\ Active(r)
             /\ VersionMatches(r, ticket[req[r].ticket])
             /\ IsOpen(ticket[req[r].ticket])
             /\ req' = [req EXCEPT ![r] = Idle]
             /\ \A u \in Tickets \ {req[r].ticket} :
                  /\ ticket'[u] = ticket[u]
                  /\ assignments'[u] = assignments[u]
                  /\ history'[u] = history[u]
<1>1. ASSUME NEW r \in Requests, Active(r), VersionMatches(r, ticket[req[r].ticket]),
             IsOpen(ticket[req[r].ticket]),
             NEW row, NEW rows, NEW entries, Commit(r, row, rows, entries)
      PROVE  Writes(r)
  BY <1>1, ActiveRequest DEF Commit, TypeOK
<1> HIDE DEF Writes
<1>2. ASSUME NEW r \in Requests, NEW advisor \in Advisors, Assign(r, advisor)
      PROVE  Writes(r)
  BY <1>1, <1>2 DEF Assign, CanAssign
<1>3. ASSUME NEW r \in Requests, NEW advisor \in Advisors, Take(r, advisor)
      PROVE  Writes(r)
  BY <1>1, <1>3 DEF Take, CanTake
<1>4. ASSUME NEW r \in Requests, NEW actor \in Staff, Release(r, actor)
      PROVE  Writes(r)
  BY <1>1, <1>4 DEF Release, CanRelease
<1>5. ASSUME NEW r \in Requests, NEW actor \in Staff, NEW new \in TicketStatus,
             NEW reason \in BOOLEAN, Active(r), Move(r, new, reason, actor)
      PROVE  Writes(r)
  BY <1>1, <1>5 DEF Move, MayChangeStatus, CanTransition
<1>6. ASSUME NEW r \in Requests, NEW actor \in Actors, AddComment(r, actor)
      PROVE  Writes(r)
  BY <1>1, <1>6 DEF AddComment
<1>7. ASSUME NEW r \in Requests, NEW actor \in Staff, Reopen(r, actor) PROVE FALSE
  BY <1>7 DEF Reopen
<1>8. ASSUME NEW r \in Requests, Rollback(r) \/ \E t \in Tickets :
               \E expected \in 1..ticket[t].version \cup {NULL} : Begin(r, t, expected)
      PROVE  UNCHANGED <<ticket, assignments, history>>
  BY <1>8 DEF Rollback, Begin
<1>9. CASE UNCHANGED vars
  BY <1>9 DEF vars
<1> QED
  BY <1>2, <1>3, <1>4, <1>5, <1>6, <1>7, <1>8, <1>9, StepKinds DEF Writes

\* When nothing calls reopen, a closed or cancelled ticket never changes again.
THEOREM TerminalFinal ==
  ASSUME "reopen" \notin Endpoints
  PROVE  Spec => TerminalIsFinal
<1> DEFINE Final == \A t \in Tickets : ticket[t].status \in Terminal =>
                      /\ ticket'[t] = ticket[t]
                      /\ assignments'[t] = assignments[t]
                      /\ history'[t] = history[t]
<1>1. TypeOK /\ [Next]_vars => Final
  <2> SUFFICES ASSUME TypeOK, [Next]_vars, NEW t \in Tickets, ticket[t].status \in Terminal
               PROVE  /\ ticket'[t] = ticket[t]
                      /\ assignments'[t] = assignments[t]
                      /\ history'[t] = history[t]
    OBVIOUS
  <2>1. ASSUME NEW u \in Tickets, NEW c \in Clients, Create(u, c)
        PROVE  u # t /\ ticket'[t] = ticket[t] /\ assignments'[t] = assignments[t]
                 /\ history'[t] = history[t]
    <3>1. u # t
      BY <2>1 DEF Create, NoRow, Terminal
    <3> QED
      BY <2>1, <3>1 DEF Create, TypeOK
  <2> QED
    BY <2>1, LockedSteps DEF IsOpen
<1>2. TypeOK /\ [Next]_vars => [Final]_vars
  BY <1>1
<1> QED
  BY <1>2, TypeCorrect, PTL DEF Spec, TerminalIsFinal

\* When nothing calls reopen, a request that sent expected_version writes over
\* that version only.
THEOREM ConditionalWrite ==
  ASSUME "reopen" \notin Endpoints
  PROVE  Spec => ConditionalWriteSeesLatest
<1> DEFINE Latest == \A r \in Requests : Active(r) /\ ticket' # ticket /\ ~Active(r)' =>
                       req[r].expected \in {NULL, ticket[req[r].ticket].version}
<1>1. TypeOK /\ [Next]_vars => Latest
  <2> SUFFICES ASSUME TypeOK, [Next]_vars, NEW r \in Requests,
                      Active(r), ticket' # ticket, ~Active(r)'
               PROVE  req[r].expected \in {NULL, ticket[req[r].ticket].version}
    OBVIOUS
  <2>1. ASSUME NEW t \in Tickets, NEW c \in Clients, Create(t, c) PROVE FALSE
    BY <2>1 DEF Create, Active
  <2>2. ASSUME NEW s \in Requests, req' = [req EXCEPT ![s] = Idle] PROVE s = r
    BY <2>2 DEF Active, TypeOK
  <2> QED
    BY <2>1, <2>2, LockedSteps DEF VersionMatches
<1>2. TypeOK /\ [Next]_vars => [Latest]_vars
  BY <1>1
<1> QED
  BY <1>2, TypeCorrect, PTL DEF Spec, ConditionalWriteSeesLatest

(***************************************************************************)
(* The service without reopen implements the serial workflow.              *)
(***************************************************************************)
\* A commit is a write of one version on the abstract board.
LEMMA CommitIsWrite ==
  ASSUME TypeOK, NEW r \in Requests, Active(r), IsOpen(ticket[req[r].ticket]),
         ticket[req[r].ticket].status # "ABSENT",
         NEW row \in TicketRow, row.version = ticket[req[r].ticket].version + 1,
         NEW rows, NEW entries, Commit(r, row, rows, entries)
  PROVE  Workflow!Write(req[r].ticket, row.status, row.advisor)
<1> DEFINE t == req[r].ticket
           card == [status |-> row.status, advisor |-> row.advisor, version |-> row.version]
<1>1. t \in Tickets /\ ticket' = [ticket EXCEPT ![t] = row]
  BY ActiveRequest DEF Commit
<1>2. Board[t].status = ticket[t].status /\ Board[t].version = ticket[t].version
  BY <1>1 DEF Board
<1>3. \A u \in Tickets : Board'[u] = IF u = t THEN card ELSE Board[u]
  BY <1>1 DEF Board, TypeOK
<1>4. Board' = [Board EXCEPT ![t] = card]
  BY <1>3 DEF Board
<1> QED
  BY <1>2, <1>4 DEF Workflow!Write, Workflow!Terminal, IsOpen, Terminal

LEMMA StepRefines ==
  ASSUME TypeOK, RowsLegal, "reopen" \notin Endpoints, [Next]_vars
  PROVE  [Workflow!Next]_Board
<1> DEFINE Held(r) == ticket[req[r].ticket]
<1>1. ASSUME NEW r \in Requests, Active(r)
      PROVE  /\ req[r].ticket \in Tickets
             /\ Held(r) \in TicketRow
             /\ Held(r).status = "ABSENT" => Held(r) = NoRow
             /\ Board[req[r].ticket].status = Held(r).status
             /\ Board[req[r].ticket].advisor = Held(r).advisor
  BY <1>1, ActiveRequest
     DEF RowsLegal, AssignmentState, RequiresAssignedAdvisor, Terminal, Board
<1>2. ASSUME NEW t \in Tickets, NEW c \in Clients, Create(t, c) PROVE Workflow!File(t)
  <2> DEFINE card == [status |-> "NUEVO", advisor |-> NULL, version |-> 1]
  <2>1. NewRow(c).status = "NUEVO" /\ NewRow(c).advisor = NULL /\ NewRow(c).version = 1
    BY DEF NewRow, NoRow
  <2>2. \A u \in Tickets : Board'[u] = IF u = t THEN card ELSE Board[u]
    BY <1>2, <2>1 DEF Board, Create, TypeOK
  <2>3. Board' = [Board EXCEPT ![t] = card]
    BY <2>2 DEF Board
  <2>4. Board[t].status = "ABSENT"
    BY <1>2 DEF Create, Board, NoRow
  <2> QED
    BY <2>3, <2>4 DEF Workflow!File
<1>3. ASSUME NEW r \in Requests, NEW advisor \in Advisors, NEW rows, NEW entries, Active(r),
             CanAssign(Held(r), advisor), Commit(r, AssignedRow(Held(r), advisor), rows, entries)
      PROVE  Workflow!Hand(req[r].ticket, advisor)
  <2> DEFINE row == AssignedRow(Held(r), advisor)
  <2>1. /\ row \in TicketRow
        /\ row.status = IF Held(r).status = "NUEVO" THEN "ASIGNADO" ELSE Held(r).status
        /\ row.advisor = advisor
        /\ row.version = Held(r).version + 1
    BY <1>1, <1>3, EffectTypes, EffectFields
  <2>2. Held(r).status # "ABSENT"
    BY <1>3, <2>1 DEF Commit, AssignmentState, RequiresAssignedAdvisor, Terminal
  <2>3. Workflow!Write(req[r].ticket, row.status, row.advisor)
    BY <1>3, <2>1, <2>2, CommitIsWrite DEF CanAssign
  <2> QED
    BY <1>1, <1>3, <2>1, <2>3 DEF Workflow!Hand, CanAssign
<1>4. ASSUME NEW r \in Requests, NEW advisor \in Advisors, Assign(r, advisor)
      PROVE  req[r].ticket \in Tickets /\ Workflow!Hand(req[r].ticket, advisor)
  BY <1>1, <1>3, <1>4 DEF Assign
<1>5. ASSUME NEW r \in Requests, NEW advisor \in Advisors, Take(r, advisor)
      PROVE  req[r].ticket \in Tickets /\ Workflow!Hand(req[r].ticket, advisor)
  <2>1. CanAssign(Held(r), advisor)
    BY <1>5, RolesAssumption DEF Take, CanTake, CanAssign
  <2> QED
    BY <1>1, <1>3, <1>5, <2>1 DEF Take
<1>6. ASSUME NEW r \in Requests, NEW actor \in Staff, Release(r, actor)
      PROVE  req[r].ticket \in Tickets /\ Workflow!GiveBack(req[r].ticket)
  <2> DEFINE row == ReleasedRow(Held(r))
  <2>1. Active(r) /\ CanRelease(Held(r), actor)
    BY <1>6 DEF Release
  <2>2. /\ row \in TicketRow
        /\ row.status = "NUEVO" /\ row.advisor = NULL
        /\ row.version = Held(r).version + 1
    BY <1>1, <2>1, EffectTypes, EffectFields
  <2>3. Held(r).status # "ABSENT"
    BY <1>1, <2>1 DEF CanRelease, NoRow
  <2>4. Workflow!Write(req[r].ticket, row.status, row.advisor)
    BY <1>6, <2>1, <2>2, <2>3, CommitIsWrite DEF Release, CanRelease
  <2> QED
    BY <1>1, <2>1, <2>2, <2>4 DEF Workflow!GiveBack, CanRelease
<1>7. ASSUME NEW r \in Requests, NEW actor \in Staff, NEW new \in TicketStatus,
             NEW reason \in BOOLEAN, Active(r), Move(r, new, reason, actor)
      PROVE  req[r].ticket \in Tickets /\ Workflow!Move(req[r].ticket, new)
  <2> DEFINE row == MovedRow(Held(r), new)
  <2>1. CanTransition(Held(r), new, reason, actor)
    BY <1>7 DEF Move, MayChangeStatus
  <2>2. /\ row \in TicketRow
        /\ row.status = new /\ row.advisor = Held(r).advisor
        /\ row.version = Held(r).version + 1
    BY <1>1, <1>7, EffectTypes, EffectFields
  <2>3. Held(r).status # "ABSENT"
    BY <2>1 DEF CanTransition, AllowedTransitions
  <2>4. Workflow!Write(req[r].ticket, row.status, row.advisor)
    BY <1>7, <2>1, <2>2, <2>3, CommitIsWrite DEF Move, CanTransition
  <2>5. new \in Workflow!AllowedTransitions(Held(r).status)
    BY <2>1 DEF CanTransition, AllowedTransitions, Workflow!AllowedTransitions
  <2> QED
    BY <1>1, <1>7, <2>1, <2>2, <2>4, <2>5
       DEF Workflow!Move, CanTransition, RequiresAssignedAdvisor, Workflow!RequiresAssignedAdvisor
<1>8. ASSUME NEW r \in Requests, NEW actor \in Actors, AddComment(r, actor)
      PROVE  req[r].ticket \in Tickets /\ Workflow!Comment(req[r].ticket)
  <2> DEFINE row == Touch(Held(r))
  <2>1. Active(r) /\ IsOpen(Held(r))
    BY <1>8 DEF AddComment
  <2>2. /\ row \in TicketRow
        /\ row.status = Held(r).status /\ row.advisor = Held(r).advisor
        /\ row.version = Held(r).version + 1
    BY <1>1, <2>1, EffectTypes, EffectFields
  <2>3. Held(r).status # "ABSENT"
    BY <1>8, <2>2 DEF AddComment, Commit, AssignmentState, RequiresAssignedAdvisor, Terminal
  <2>4. Workflow!Write(req[r].ticket, row.status, row.advisor)
    BY <1>8, <2>1, <2>2, <2>3, CommitIsWrite DEF AddComment
  <2> QED
    BY <1>1, <2>1, <2>2, <2>4 DEF Workflow!Comment
<1>9. ASSUME NEW r \in Requests, NEW actor \in Staff, Reopen(r, actor) PROVE FALSE
  BY <1>9 DEF Reopen
<1>10. CASE UNCHANGED ticket
  BY <1>10 DEF Board
<1>11. ASSUME NEW r \in Requests, Rollback(r) \/ \E t \in Tickets :
                \E expected \in 1..ticket[t].version \cup {NULL} : Begin(r, t, expected)
       PROVE  UNCHANGED ticket
  BY <1>11 DEF Rollback, Begin
<1>12. CASE UNCHANGED vars
  BY <1>10, <1>12 DEF vars
<1> HIDE DEF Held
<1>13. CASE \E t \in Tickets, c \in Clients : Create(t, c)
  BY <1>2, <1>13 DEF Workflow!Next
<1>14. CASE \E r \in Requests, advisor \in Advisors : Assign(r, advisor) \/ Take(r, advisor)
  BY <1>4, <1>5, <1>14 DEF Workflow!Next
<1>15. CASE \E r \in Requests, actor \in Staff : Release(r, actor)
  BY <1>6, <1>15 DEF Workflow!Next
<1>16. CASE \E r \in Requests, actor \in Staff, new \in TicketStatus, reason \in BOOLEAN :
              Active(r) /\ Move(r, new, reason, actor)
  <2>1. TicketStatus = Workflow!TicketStatus
    BY DEF TicketStatus, Workflow!TicketStatus
  <2> QED
    BY <1>7, <1>16, <2>1 DEF Workflow!Next
<1>17. CASE \E r \in Requests, actor \in Actors : AddComment(r, actor)
  BY <1>8, <1>17 DEF Workflow!Next
<1> QED
  BY <1>9, <1>10, <1>11, <1>12, <1>13, <1>14, <1>15, <1>16, <1>17, StepKinds

\* When nothing calls reopen, whatever the concurrent requests do looks like
\* operations that act at once on the latest row: no update is lost.
THEOREM Refinement ==
  ASSUME "reopen" \notin Endpoints
  PROVE  Spec => ImplementsWorkflow
<1>1. Init => Workflow!Init
  BY DEF Init, Workflow!Init, Workflow!Card, Workflow!NoRow, NoRow, Board
<1>2. IInv /\ [Next]_vars => [Workflow!Next]_Board
  BY StepRefines DEF IInv
<1> QED
  BY <1>1, <1>2, Invariance, PTL DEF Spec, Workflow!Spec, ImplementsWorkflow

(***************************************************************************)
(* Open assignments: closing works on a snapshot that shows the open rows. *)
(***************************************************************************)
\* A request whose snapshot shows the open rows there are.
ReadsOpen(r) == OpenRows(req[r].rows) = OpenRows(assignments[req[r].ticket])

\* With at most one open row, and that one in sight, closing the current assignment
\* leaves none open.
LEMMA CloseSole ==
  ASSUME TypeOK, NEW r \in Requests, Active(r), ReadsOpen(r),
         SoleOpen(ticket[req[r].ticket], assignments[req[r].ticket])
  PROVE  OpenRows(CloseAssignment(assignments[req[r].ticket], CurrentAssignment(r))) = {}
<1> DEFINE rows == assignments[req[r].ticket]
<1>1. rows \in Seq(Assignment)
  BY ActiveRequest
<1>2. DOMAIN rows = 1..Len(rows) /\ Len(rows) \in Nat
  BY <1>1
<1>3. OpenRows(req[r].rows) = OpenRows(rows)
  BY DEF ReadsOpen
<1>4. OpenRows(rows) = {} \/ \E i \in OpenRows(rows) : OpenRows(rows) = {i}
  BY DEF SoleOpen
<1>5. OpenRows(rows) \subseteq CurrentAssignment(r)
  <2>1. CurrentAssignment(r) = {i \in OpenRows(rows) : \A j \in OpenRows(rows) : j <= i}
    BY <1>3 DEF CurrentAssignment
  <2>2. OpenRows(rows) \subseteq 1..Len(rows)
    BY <1>2 DEF OpenRows
  <2> HIDE DEF rows
  <2> QED
    BY <1>2, <1>4, <2>1, <2>2
<1>6. ASSUME NEW i \in DOMAIN rows PROVE ~CloseAssignment(rows, CurrentAssignment(r))[i].open
  <2>1. rows[i] \in Assignment
    BY <1>1, <1>2
  <2>2. CloseAssignment(rows, CurrentAssignment(r))[i].open
          = (rows[i].open /\ i \notin CurrentAssignment(r))
    BY <2>1 DEF CloseAssignment, Assignment
  <2>3. rows[i].open => i \in CurrentAssignment(r)
    BY <1>5 DEF OpenRows
  <2> QED
    BY <2>2, <2>3
<1>7. DOMAIN CloseAssignment(rows, CurrentAssignment(r)) = DOMAIN rows
  BY DEF CloseAssignment
<1> QED
  BY <1>6, <1>7 DEF OpenRows

\* Appending an open row where none was open makes it the only one.
LEMMA AppendSole ==
  ASSUME NEW rows \in Seq(Assignment), OpenRows(rows) = {}, NEW advisor \in Advisors,
         NEW row, row.advisor = advisor
  PROVE  SoleOpen(row, Append(rows, [advisor |-> advisor, open |-> TRUE]))
<1> DEFINE new == [advisor |-> advisor, open |-> TRUE]
           after == Append(rows, new)
           last == Len(rows) + 1
<1>1. /\ Len(rows) \in Nat
      /\ DOMAIN rows = 1..Len(rows)
      /\ DOMAIN after = 1..last
      /\ after[last] = new
      /\ \A i \in 1..Len(rows) : after[i] = rows[i]
  <2>1. new \in Assignment
    BY DEF Assignment
  <2> QED
    BY <2>1
<1>2. OpenRows(after) = {last}
  <2>1. \A i \in 1..Len(rows) : ~rows[i].open
    BY <1>1 DEF OpenRows
  <2>2. \A i \in 1..last : after[i].open <=> i = last
    BY <1>1, <2>1
  <2> HIDE DEF after, last
  <2>3. last \in 1..last
    BY <1>1 DEF last
  <2> QED
    BY <1>1, <2>2, <2>3 DEF OpenRows
<1>3. advisor # NULL
  BY RolesAssumption
<1>4. after[last].advisor = advisor
  BY <1>1
<1> HIDE DEF after, last
<1>5. SoleOpen(row, after)
  BY <1>2, <1>3, <1>4 DEF SoleOpen
<1> QED
  BY <1>5 DEF after

\* A commit disturbs the property at its own ticket only.
LEMMA CommitSole ==
  ASSUME TypeOK, NEW r \in Requests, Active(r),
         NEW row, NEW rows, NEW entries, Commit(r, row, rows, entries),
         NEW t \in Tickets, SoleOpen(ticket[t], assignments[t]),
         t = req[r].ticket => SoleOpen(row, rows)
  PROVE  SoleOpen(ticket'[t], assignments'[t])
<1> DEFINE own == req[r].ticket
<1>1. /\ own \in Tickets
      /\ ticket' = [ticket EXCEPT ![own] = row]
      /\ assignments' = [assignments EXCEPT ![own] = rows]
  BY ActiveRequest DEF Commit
<1>2. /\ ticket'[own] = row /\ assignments'[own] = rows
      /\ \A u \in Tickets \ {own} : ticket'[u] = ticket[u] /\ assignments'[u] = assignments[u]
  BY <1>1 DEF TypeOK
<1> QED
  BY <1>2

\* A request that ends at ticket t without having seen its open assignments.
Blind(t) ==
  \E r \in Requests : req[r].ticket = t /\ ~Active(r)' /\ ~ReadsOpen(r)

\* A request that commits is over.
LEMMA CommitEnds ==
  ASSUME TypeOK, NEW r \in Requests, NEW row, NEW rows, NEW entries,
         Commit(r, row, rows, entries)
  PROVE  ~Active(r)'
BY DEF Commit, Active, Idle, TypeOK

LEMMA SoleStep ==
  ASSUME TypeOK, [Next]_vars, NEW t \in Tickets, SoleOpen(ticket[t], assignments[t])
  PROVE  SoleOpen(ticket'[t], assignments'[t]) \/ Blind(t)
<1> DEFINE Goal == SoleOpen(ticket'[t], assignments'[t]) \/ Blind(t)
<1>1. ASSUME NEW r \in Requests, Active(r)
      PROVE  /\ ticket[req[r].ticket] \in TicketRow
             /\ assignments[req[r].ticket] \in Seq(Assignment)
             /\ req[r].row \in TicketRow
  BY <1>1, ActiveRequest
<1>2. ASSUME NEW u \in Tickets, NEW c \in Clients, Create(u, c)
      PROVE  Goal
  <2>1. NewRow(c).advisor = NULL /\ NoRow.advisor = NULL
    BY DEF NewRow, NoRow
  <2>2. ticket'[t].advisor = ticket[t].advisor /\ assignments' = assignments
    BY <1>2, <2>1 DEF Create, TypeOK
  <2> QED
    BY <2>2 DEF SoleOpen
<1>3. CASE UNCHANGED <<ticket, assignments>>
  BY <1>3
<1>4. ASSUME NEW r \in Requests, NEW advisor \in Advisors, Assign(r, advisor)
      PROVE  Goal
  <2> DEFINE own == req[r].ticket
             row == AssignedRow(ticket[own], advisor)
             closed == CloseAssignment(assignments[own], CurrentAssignment(r))
             rows == Append(closed, [advisor |-> advisor, open |-> TRUE])
  <2>1. Active(r) /\ Commit(r, row, rows, <<Entry("ASSIGNED", ticket[own].advisor, advisor)>>)
    BY <1>4 DEF Assign
  <2>2. CASE t = own /\ ~ReadsOpen(r)
    BY <2>1, <2>2, CommitEnds DEF Blind
  <2>3. CASE t = own /\ ReadsOpen(r)
    <3>1. OpenRows(closed) = {} /\ closed \in Seq(Assignment)
      BY <1>1, <2>1, <2>3, CloseSole, CloseAssignmentType
    <3>2. row.advisor = advisor
      BY <1>1, <2>1, EffectFields
    <3>3. SoleOpen(row, rows)
      BY <3>1, <3>2, AppendSole
    <3> QED
      BY <2>1, <3>3, CommitSole
  <2>4. CASE t # own
    BY <2>1, <2>4, CommitSole
  <2> QED
    BY <2>2, <2>3, <2>4
<1>5. ASSUME NEW r \in Requests, NEW advisor \in Advisors, Take(r, advisor)
      PROVE  Goal
  <2> DEFINE own == req[r].ticket
             row == AssignedRow(ticket[own], advisor)
             rows == Append(assignments[own], [advisor |-> advisor, open |-> TRUE])
  <2>1. /\ Active(r)
        /\ ticket[own].advisor = NULL
        /\ Commit(r, row, rows, <<Entry("TAKEN", NULL, advisor)>>)
    BY <1>5 DEF Take, CanTake
  <2>2. t = own => SoleOpen(row, rows)
    <3> SUFFICES ASSUME t = own PROVE SoleOpen(row, rows)
      OBVIOUS
    <3>1. OpenRows(assignments[own]) = {} /\ assignments[own] \in Seq(Assignment)
      BY <1>1, <2>1 DEF SoleOpen
    <3>2. row.advisor = advisor
      BY <1>1, <2>1, EffectFields
    <3> QED
      BY <3>1, <3>2, AppendSole
  <2> QED
    BY <2>1, <2>2, CommitSole
<1>6. ASSUME NEW r \in Requests, NEW actor \in Staff, Release(r, actor)
      PROVE  Goal
  <2> DEFINE own == req[r].ticket
             closed == CloseAssignment(assignments[own], CurrentAssignment(r))
             entries == <<Entry("RELEASED", ticket[own].advisor, NULL),
                          Entry("STATUS_CHANGED", ticket[own].status, "NUEVO")>>
  <2>1. Active(r) /\ Commit(r, ReleasedRow(ticket[own]), closed, entries)
    BY <1>6 DEF Release
  <2>2. CASE t = own /\ ~ReadsOpen(r)
    BY <2>1, <2>2, CommitEnds DEF Blind
  <2>3. CASE t = own /\ ReadsOpen(r)
    <3>1. SoleOpen(ReleasedRow(ticket[own]), closed)
      BY <1>1, <2>1, <2>3, CloseSole, EffectFields DEF SoleOpen
    <3> QED
      BY <2>1, <3>1, CommitSole
  <2>4. CASE t # own
    BY <2>1, <2>4, CommitSole
  <2> QED
    BY <2>2, <2>3, <2>4
<1>7. ASSUME NEW r \in Requests, Active(r), NEW row, NEW entries,
             row.advisor = ticket[req[r].ticket].advisor,
             Commit(r, row, assignments[req[r].ticket], entries)
      PROVE  Goal
  <2>1. t = req[r].ticket => SoleOpen(row, assignments[req[r].ticket])
    BY <1>7 DEF SoleOpen
  <2> QED
    BY <1>7, <2>1, CommitSole
<1>8. ASSUME NEW r \in Requests, NEW actor \in Staff, NEW new \in TicketStatus,
             NEW reason \in BOOLEAN, Active(r), Move(r, new, reason, actor)
      PROVE  Goal
  <2>1. MovedRow(ticket[req[r].ticket], new).advisor = ticket[req[r].ticket].advisor
    BY <1>1, <1>8, EffectFields
  <2> QED
    BY <1>7, <1>8, <2>1 DEF Move
<1>9. ASSUME NEW r \in Requests, NEW actor \in Staff, Reopen(r, actor)
      PROVE  Goal
  <2>1. Active(r)
    BY <1>9 DEF Reopen
  <2>2. ReopenedRow(req[r].row, ticket[req[r].ticket]).advisor = ticket[req[r].ticket].advisor
    BY <1>1, <2>1 DEF ReopenedRow, TicketRow
  <2> QED
    BY <1>7, <1>9, <2>1, <2>2 DEF Reopen
<1>10. ASSUME NEW r \in Requests, NEW actor \in Actors, AddComment(r, actor)
       PROVE  Goal
  <2>1. Active(r)
    BY <1>10 DEF AddComment
  <2>2. Touch(ticket[req[r].ticket]).advisor = ticket[req[r].ticket].advisor
    BY <1>1, <2>1, EffectFields
  <2> QED
    BY <1>7, <1>10, <2>1, <2>2 DEF AddComment
<1>11. ASSUME NEW r \in Requests, Rollback(r) \/ \E u \in Tickets :
                \E expected \in 1..ticket[u].version \cup {NULL} : Begin(r, u, expected)
       PROVE  Goal
  BY <1>3, <1>11 DEF Rollback, Begin
<1>12. CASE UNCHANGED vars
  BY <1>3, <1>12 DEF vars
<1> QED
  BY <1>2, <1>4, <1>5, <1>6, <1>8, <1>9, <1>10, <1>11, <1>12, StepKinds

\* One open assignment, the advisor's, is lost only to a request whose snapshot
\* misses the open assignments there are: with every endpoint in the mix.
THEOREM StaleSnapshotSplits == Spec => OnlyStaleSnapshotSplits
<1>1. TypeOK /\ [Next]_vars =>
        [\A t \in Tickets :
           SoleOpen(ticket[t], assignments[t]) /\ ~SoleOpen(ticket'[t], assignments'[t]) =>
             \E r \in Requests :
               /\ req[r].ticket = t /\ ~Active(r)'
               /\ OpenRows(req[r].rows) # OpenRows(assignments[t])]_vars
  <2> SUFFICES ASSUME TypeOK, [Next]_vars, NEW t \in Tickets,
                      SoleOpen(ticket[t], assignments[t]),
                      ~SoleOpen(ticket'[t], assignments'[t])
               PROVE  \E r \in Requests :
                        /\ req[r].ticket = t /\ ~Active(r)'
                        /\ OpenRows(req[r].rows) # OpenRows(assignments[t])
    OBVIOUS
  <2> QED
    BY SoleStep DEF Blind, ReadsOpen
<1> QED
  BY <1>1, TypeCorrect, PTL DEF Spec, OnlyStaleSnapshotSplits

(***************************************************************************)
(* Timestamps, without reopen.                                             *)
(***************************************************************************)
\* One ticket's part of TimestampsFollowStatus.
Stamped(row) ==
  /\ row.closed <=> row.status = "CERRADO"
  /\ row.cancelled <=> row.status = "CANCELADO"
  /\ row.status \in {"RESUELTO", "CERRADO"} => row.resolved
  /\ row.status \in {"NUEVO", "ASIGNADO"} => ~row.resolved

\* An operation whose guards pass leaves the timestamps its status requires.
LEMMA EffectsStamped ==
  ASSUME NEW row \in TicketRow, Stamped(row)
  PROVE  /\ Stamped(Touch(row))
         /\ Stamped(ReleasedRow(row))
         /\ \A advisor \in Advisors : Stamped(AssignedRow(row, advisor))
         /\ \A actor \in Staff, new \in TicketStatus, reason \in BOOLEAN :
              CanTransition(row, new, reason, actor) => Stamped(MovedRow(row, new))
<1>1. \A any \in TicketRow :
        /\ Touch(any).status = any.status
        /\ Touch(any).resolved = any.resolved
        /\ Touch(any).closed = any.closed
        /\ Touch(any).cancelled = any.cancelled
  BY DEF Touch, TicketRow
<1>2. Stamped(Touch(row))
  BY <1>1 DEF Stamped
<1>3. Stamped(ReleasedRow(row))
  BY DEF Stamped, ReleasedRow, Touch, TicketRow
<1>4. ASSUME NEW advisor \in Advisors PROVE Stamped(AssignedRow(row, advisor))
  BY DEF Stamped, AssignedRow, Touch, TicketRow
<1>5. ASSUME NEW actor \in Staff, NEW new \in TicketStatus, NEW reason \in BOOLEAN,
             CanTransition(row, new, reason, actor)
      PROVE  Stamped(MovedRow(row, new))
  <2> DEFINE moved == [row EXCEPT !.status = new]
             stamped == Stamp(moved, new)
  <2>1. /\ moved \in TicketRow /\ moved.status = new
        /\ moved.resolved = row.resolved /\ moved.closed = row.closed
        /\ moved.cancelled = row.cancelled
    BY DEF TicketRow
  <2>2. /\ stamped \in TicketRow
        /\ stamped.status = new
        /\ stamped.resolved = (row.resolved \/ new = "RESUELTO")
        /\ stamped.closed = (row.closed \/ new = "CERRADO")
        /\ stamped.cancelled = (row.cancelled \/ new = "CANCELADO")
    <3> HIDE DEF moved
    <3> QED
      BY <2>1 DEF TicketRow, Stamp
  <2>3. row.closed = FALSE /\ row.cancelled = FALSE
    BY <1>5 DEF CanTransition, IsOpen, Terminal, Stamped, TicketRow
  <2>4. /\ new # "NUEVO"
        /\ new = "ASIGNADO" => row.status = "NUEVO"
        /\ new = "CERRADO" => row.status = "RESUELTO"
    BY <1>5 DEF CanTransition, AllowedTransitions
  <2>5. Stamped(stamped)
    <3> HIDE DEF stamped, moved
    <3> QED
      BY <2>2, <2>3, <2>4 DEF Stamped
  <2> QED
    BY <1>1, <2>2, <2>5 DEF MovedRow, Stamped
<1> QED
  BY <1>2, <1>3, <1>4, <1>5

\* A commit disturbs the property at its own ticket only.
LEMMA CommitStamped ==
  ASSUME TypeOK, TimestampsFollowStatus, NEW r \in Requests, Active(r),
         NEW row, NEW rows, NEW entries, Commit(r, row, rows, entries), Stamped(row)
  PROVE  TimestampsFollowStatus'
<1> DEFINE t == req[r].ticket
<1>1. t \in Tickets /\ ticket' = [ticket EXCEPT ![t] = row]
  BY ActiveRequest DEF Commit
<1>2. ticket'[t] = row /\ \A u \in Tickets \ {t} : ticket'[u] = ticket[u]
  BY <1>1 DEF TypeOK
<1>3. \A u \in Tickets : Stamped(ticket[u])
  BY DEF TimestampsFollowStatus, Stamped
<1>4. \A u \in Tickets : Stamped(ticket'[u])
  BY <1>2, <1>3
<1> QED
  BY <1>4 DEF TimestampsFollowStatus, Stamped

LEMMA StampedStep ==
  ASSUME "reopen" \notin Endpoints
  PROVE  TypeOK /\ TimestampsFollowStatus /\ [Next]_vars => TimestampsFollowStatus'
<1> SUFFICES ASSUME TypeOK, TimestampsFollowStatus, [Next]_vars
             PROVE  TimestampsFollowStatus'
  OBVIOUS
<1>1. ASSUME NEW r \in Requests, Active(r)
      PROVE  ticket[req[r].ticket] \in TicketRow /\ Stamped(ticket[req[r].ticket])
  BY <1>1, ActiveRequest DEF TimestampsFollowStatus, Stamped
<1>2. ASSUME NEW t \in Tickets, NEW c \in Clients, Create(t, c)
      PROVE  TimestampsFollowStatus'
  <2>1. Stamped(NewRow(c))
    BY DEF Stamped, NewRow, NoRow
  <2>2. \A u \in Tickets : ticket'[u] = ticket[u] \/ ticket'[u] = NewRow(c)
    BY <1>2 DEF Create, TypeOK
  <2>3. \A u \in Tickets : Stamped(ticket[u])
    BY DEF TimestampsFollowStatus, Stamped
  <2>4. \A u \in Tickets : Stamped(ticket'[u])
    BY <2>1, <2>2, <2>3
  <2> QED
    BY <2>4 DEF TimestampsFollowStatus, Stamped
<1>3. CASE UNCHANGED ticket
  BY <1>3 DEF TimestampsFollowStatus
<1>4. ASSUME NEW r \in Requests, NEW advisor \in Advisors, Assign(r, advisor) \/ Take(r, advisor)
      PROVE  TimestampsFollowStatus'
  <2>1. Active(r)
    BY <1>4 DEF Assign, Take
  <2>2. Stamped(AssignedRow(ticket[req[r].ticket], advisor))
    BY <1>1, <2>1, EffectsStamped
  <2> QED
    BY <1>4, <2>1, <2>2, CommitStamped DEF Assign, Take
<1>5. ASSUME NEW r \in Requests, NEW actor \in Staff, Release(r, actor)
      PROVE  TimestampsFollowStatus'
  <2>1. Active(r)
    BY <1>5 DEF Release
  <2>2. Stamped(ReleasedRow(ticket[req[r].ticket]))
    BY <1>1, <2>1, EffectsStamped
  <2> QED
    BY <1>5, <2>1, <2>2, CommitStamped DEF Release
<1>6. ASSUME NEW r \in Requests, NEW actor \in Staff, NEW new \in TicketStatus,
             NEW reason \in BOOLEAN, Active(r), Move(r, new, reason, actor)
      PROVE  TimestampsFollowStatus'
  <2>1. Stamped(MovedRow(ticket[req[r].ticket], new))
    BY <1>1, <1>6, EffectsStamped DEF Move, MayChangeStatus
  <2> QED
    BY <1>6, <2>1, CommitStamped DEF Move
<1>7. ASSUME NEW r \in Requests, NEW actor \in Staff, Reopen(r, actor) PROVE FALSE
  BY <1>7 DEF Reopen
<1>8. ASSUME NEW r \in Requests, NEW actor \in Actors, AddComment(r, actor)
      PROVE  TimestampsFollowStatus'
  <2>1. Active(r)
    BY <1>8 DEF AddComment
  <2>2. Stamped(Touch(ticket[req[r].ticket]))
    BY <1>1, <2>1, EffectsStamped
  <2> QED
    BY <1>8, <2>1, <2>2, CommitStamped DEF AddComment
<1>9. ASSUME NEW r \in Requests, Rollback(r) \/ \E t \in Tickets :
               \E expected \in 1..ticket[t].version \cup {NULL} : Begin(r, t, expected)
      PROVE  TimestampsFollowStatus'
  BY <1>3, <1>9 DEF Rollback, Begin
<1>10. CASE UNCHANGED vars
  BY <1>3, <1>10 DEF vars
<1> QED
  BY <1>2, <1>4, <1>5, <1>6, <1>7, <1>8, <1>9, <1>10, StepKinds

\* When nothing calls reopen, a row has closed_at and cancelled_at exactly in the
\* status they belong to and resolved_at from the resolution to a release.
THEOREM TimestampsAgree ==
  ASSUME "reopen" \notin Endpoints
  PROVE  Spec => []TimestampsFollowStatus
<1>1. Init => TimestampsFollowStatus
  BY DEF Init, TimestampsFollowStatus, NoRow
<1>2. TypeOK /\ TimestampsFollowStatus /\ [Next]_vars => TimestampsFollowStatus'
  BY StampedStep
<1> QED
  BY <1>1, <1>2, TypeCorrect, PTL DEF Spec

(***************************************************************************)
(* With reopen: what may still bring a closed or cancelled ticket back.    *)
(***************************************************************************)
\* The only step that changes a terminal ticket is a reopen of a request whose
\* snapshot shows it resolved.
LEMMA RevivalStep ==
  ASSUME TypeOK, [Next]_vars, NEW t \in Tickets,
         ticket[t].status \in Terminal, ticket'[t] # ticket[t]
  PROVE  /\ ticket'[t].status = "EN_PROCESO"
         /\ ticket'[t].advisor = ticket[t].advisor
         /\ \E r \in Requests : Active(r) /\ ~Active(r)' /\ req[r].row.status = "RESUELTO"
<1>1. ASSUME NEW u \in Tickets, NEW c \in Clients, Create(u, c) PROVE FALSE
  <2>1. u # t
    BY <1>1 DEF Create, NoRow, Terminal
  <2> QED
    BY <1>1, <2>1 DEF Create, TypeOK
<1>2. ASSUME NEW r \in Requests, Active(r), IsOpen(ticket[req[r].ticket]),
             NEW row, NEW rows, NEW entries, Commit(r, row, rows, entries)
      PROVE  FALSE
  <2>1. req[r].ticket # t
    BY <1>2 DEF IsOpen
  <2> QED
    BY <1>2, <2>1 DEF Commit, TypeOK
<1>3. ASSUME NEW r \in Requests, NEW advisor \in Advisors, Assign(r, advisor) \/ Take(r, advisor)
      PROVE  FALSE
  BY <1>2, <1>3 DEF Assign, Take, CanAssign, CanTake
<1>4. ASSUME NEW r \in Requests, NEW actor \in Staff, Release(r, actor) PROVE FALSE
  BY <1>2, <1>4 DEF Release, CanRelease
<1>5. ASSUME NEW r \in Requests, NEW actor \in Staff, NEW new \in TicketStatus,
             NEW reason \in BOOLEAN, Active(r), Move(r, new, reason, actor)
      PROVE  FALSE
  BY <1>2, <1>5 DEF Move, MayChangeStatus, CanTransition
<1>6. ASSUME NEW r \in Requests, NEW actor \in Actors, AddComment(r, actor) PROVE FALSE
  BY <1>2, <1>6 DEF AddComment
<1>7. ASSUME NEW r \in Requests, NEW actor \in Staff, Reopen(r, actor)
      PROVE  /\ ticket'[t].status = "EN_PROCESO"
             /\ ticket'[t].advisor = ticket[t].advisor
             /\ Active(r) /\ ~Active(r)' /\ req[r].row.status = "RESUELTO"
  <2> DEFINE u == req[r].ticket
             row == ReopenedRow(req[r].row, ticket[u])
  <2>1. /\ Active(r) /\ req[r].row.status = "RESUELTO"
        /\ ticket' = [ticket EXCEPT ![u] = row]
        /\ req' = [req EXCEPT ![r] = Idle]
    BY <1>7 DEF Reopen, Commit
  <2>2. u = t
    BY <2>1 DEF TypeOK
  <2>3. ticket'[t] = row
    BY <2>1, <2>2 DEF TypeOK
  <2>4. ticket[u] \in TicketRow /\ req[r].row \in TicketRow
    BY <2>1, ActiveRequest
  <2>5. row.status = "EN_PROCESO" /\ row.advisor = ticket[u].advisor
    BY <2>4 DEF ReopenedRow, TicketRow
  <2>6. ~Active(r)'
    <3>1. req'[r] = Idle
      BY <2>1 DEF TypeOK
    <3> QED
      BY <3>1 DEF Active, Idle
  <2> QED
    BY <2>1, <2>2, <2>3, <2>5, <2>6
<1>8. ASSUME NEW r \in Requests, Rollback(r) \/ \E u \in Tickets :
               \E expected \in 1..ticket[u].version \cup {NULL} : Begin(r, u, expected)
      PROVE  FALSE
  BY <1>8 DEF Rollback, Begin
<1>9. CASE UNCHANGED vars
  BY <1>9 DEF vars
<1> QED
  BY <1>1, <1>3, <1>4, <1>5, <1>6, <1>7, <1>8, <1>9, StepKinds

\* Only a reopen that authenticated while the ticket was resolved brings a closed
\* or cancelled ticket back, whatever else is in flight.
THEOREM StaleReopenOnly == Spec => OnlyStaleReopenRevives
<1> DEFINE Revived == \A t \in Tickets : ticket[t].status \in Terminal /\ ticket'[t] # ticket[t] =>
       /\ ticket'[t].status = "EN_PROCESO"
       /\ ticket'[t].advisor = ticket[t].advisor
       /\ \E r \in Requests : Active(r) /\ ~Active(r)' /\ req[r].row.status = "RESUELTO"
<1>1. TypeOK /\ [Next]_vars => [Revived]_vars
  BY RevivalStep
<1> QED
  BY <1>1, TypeCorrect, PTL DEF Spec, OnlyStaleReopenRevives

(***************************************************************************)
(* Induction on the rows of a history.                                     *)
(***************************************************************************)
Before == {pair \in Nat \X Nat : pair[1] < pair[2]}

\* A set of numbers with 0 and the successor of each of its members is Nat. The
\* library's theorem takes a predicate; this one takes a set.
LEMMA Induction ==
  ASSUME NEW T \in SUBSET Nat, 0 \in T, \A n \in T : n + 1 \in T
  PROVE  T = Nat
<1> SUFFICES ASSUME Nat \ T # {} PROVE FALSE
  OBVIOUS
<1>1. IsWellFoundedOn(Before, Nat)
  BY NatLessThanWellFounded, Zenon DEF OpToRel, Before
<1>2. \E n \in Nat \ T : \A m \in Nat \ T : ~(<<m, n>> \in Before)
  BY <1>1, WFMin, Zenon
<1>3. PICK n \in Nat \ T : \A m \in Nat \ T : ~(<<m, n>> \in Before)
  BY <1>2
<1>4. n - 1 \in Nat /\ <<n - 1, n>> \in Before
  BY DEF Before
<1>5. (n - 1) + 1 \in T
  BY <1>3, <1>4
<1> QED
  BY <1>5

\* f replays the first n rows.
Follows(f, entries, n) ==
  f = [i \in 0..n |-> IF i = 0 THEN NoState ELSE Replay(f[i - 1], entries[i])]

LEMMA FollowsRows ==
  ASSUME NEW f, NEW entries, NEW n \in Nat
  PROVE  Follows(f, entries, n) <=>
           /\ f = [i \in 0..n |-> f[i]]
           /\ f[0] = NoState
           /\ \A i \in 1..n : f[i] = Replay(f[i - 1], entries[i])
<1> DEFINE next(i) == Replay(f[i - 1], entries[i])
<1> SUFFICES f = [i \in 0..n |-> IF i = 0 THEN NoState ELSE next(i)] <=>
               /\ f = [i \in 0..n |-> f[i]]
               /\ f[0] = NoState
               /\ \A i \in 1..n : f[i] = next(i)
  BY DEF Follows
<1> HIDE DEF next
<1>1. ASSUME f = [i \in 0..n |-> IF i = 0 THEN NoState ELSE next(i)]
      PROVE  /\ f = [i \in 0..n |-> f[i]]
             /\ f[0] = NoState
             /\ \A i \in 1..n : f[i] = next(i)
  <2>1. \A i \in 0..n : f[i] = IF i = 0 THEN NoState ELSE next(i)
    BY <1>1
  <2>2. \A i \in 1..n : i \in 0..n /\ i # 0
    OBVIOUS
  <2>3. \A i \in 1..n : f[i] = next(i)
    BY <2>1, <2>2
  <2> QED
    BY <1>1, <2>1, <2>3
<1>2. ASSUME f = [i \in 0..n |-> f[i]], f[0] = NoState, \A i \in 1..n : f[i] = next(i)
      PROVE  f = [i \in 0..n |-> IF i = 0 THEN NoState ELSE next(i)]
  <2>1. \A i \in 0..n : i = 0 \/ i \in 1..n
    OBVIOUS
  <2>2. \A i \in 0..n : f[i] = IF i = 0 THEN NoState ELSE next(i)
    BY <1>2, <2>1
  <2> QED
    BY <1>2, <2>2
<1> QED
  BY <1>1, <1>2

LEMMA SomethingFollows ==
  ASSUME NEW entries, NEW n \in Nat
  PROVE  \E f : Follows(f, entries, n)
<1> DEFINE T == {k \in Nat : \E f : Follows(f, entries, k)}
<1>1. 0 \in T
  <2> DEFINE f == [i \in 0..0 |-> NoState]
  <2>1. Follows(f, entries, 0)
    <3>1. f = [i \in 0..0 |-> f[i]] /\ f[0] = NoState /\ 1..0 = {}
      OBVIOUS
    <3> HIDE DEF f
    <3> QED
      BY <3>1, FollowsRows
  <2> QED
    BY <2>1
<1>2. ASSUME NEW k \in T PROVE k + 1 \in T
  <2>1. PICK f : Follows(f, entries, k)
    OBVIOUS
  <2> DEFINE next == Replay(f[k], entries[k + 1])
             g == [i \in 0..(k + 1) |-> IF i = k + 1 THEN next ELSE f[i]]
  <2>2. /\ g[0] = f[0]
        /\ g[k + 1] = next
        /\ \A i \in 0..k : g[i] = f[i]
        /\ g = [i \in 0..(k + 1) |-> g[i]]
    OBVIOUS
  <2>3. ASSUME NEW i \in 1..(k + 1) PROVE g[i] = Replay(g[i - 1], entries[i])
    <3>1. CASE i = k + 1
      <4>1. g[i - 1] = f[k]
        BY <2>2, <3>1
      <4> QED
        BY <2>2, <3>1, <4>1
    <3>2. CASE i \in 1..k
      <4>1. g[i] = f[i] /\ g[i - 1] = f[i - 1]
        BY <2>2, <3>2
      <4> QED
        BY <2>1, <3>2, <4>1, FollowsRows
    <3> QED
      BY <3>1, <3>2
  <2>4. g[0] = NoState
    BY <2>1, <2>2, FollowsRows
  <2>5. Follows(g, entries, k + 1)
    <3> HIDE DEF g
    <3>1. k + 1 \in Nat
      OBVIOUS
    <3> QED
      BY <2>2, <2>3, <2>4, <3>1, FollowsRows
  <2> QED
    BY <2>5
<1>3. T = Nat
  <2> HIDE DEF T
  <2>1. T \in SUBSET Nat
    BY DEF T
  <2> QED
    BY <1>1, <1>2, <2>1, Induction
<1> QED
  BY <1>3

LEMMA SameReplay ==
  ASSUME NEW f, NEW g, NEW h, NEW k, NEW n \in Nat, NEW m \in Nat,
         Follows(f, h, n), Follows(g, k, m), n <= m, \A i \in 1..n : h[i] = k[i]
  PROVE  \A i \in 0..n : f[i] = g[i]
<1> DEFINE T == {i \in Nat : i <= n => f[i] = g[i]}
<1>1. 0 \in T
  BY FollowsRows
<1>2. ASSUME NEW i \in T PROVE i + 1 \in T
  <2> SUFFICES ASSUME i + 1 <= n PROVE f[i + 1] = g[i + 1]
    OBVIOUS
  <2>1. i + 1 \in 1..n /\ i + 1 \in 1..m /\ (i + 1) - 1 = i
    OBVIOUS
  <2>2. f[i + 1] = Replay(f[i], h[i + 1]) /\ g[i + 1] = Replay(g[i], k[i + 1])
    BY <2>1, FollowsRows
  <2>3. f[i] = g[i] /\ h[i + 1] = k[i + 1]
    BY <2>1
  <2> QED
    BY <2>2, <2>3
<1>3. T = Nat
  <2> HIDE DEF T
  <2>1. T \in SUBSET Nat
    BY DEF T
  <2> QED
    BY <1>1, <1>2, <2>1, Induction
<1> QED
  BY <1>3

\* The recursive definition of Replays has a solution, so Replays is one.
LEMMA ReplaysFollows ==
  ASSUME NEW S, NEW entries \in Seq(S)
  PROVE  Follows(Replays(entries), entries, Len(entries))
<1>1. Replays(entries) = CHOOSE f : Follows(f, entries, Len(entries))
  BY DEF Replays, Follows
<1> QED
  BY <1>1, SomethingFollows

LEMMA ReplayAppend ==
  ASSUME NEW S, NEW entries \in Seq(S), NEW entry \in S
  PROVE  LET more == entries \o <<entry>> IN
         /\ ReplayOf(more) = Replay(ReplayOf(entries), entry)
         /\ \A i \in 0..Len(entries) : Replays(more)[i] = Replays(entries)[i]
<1> DEFINE more == entries \o <<entry>>
           n == Len(entries)
<1>1. /\ n \in Nat
      /\ more \in Seq(S)
      /\ Len(more) = n + 1
      /\ more[n + 1] = entry
      /\ \A i \in 1..n : more[i] = entries[i]
  OBVIOUS
<1>2. Follows(Replays(entries), entries, n) /\ Follows(Replays(more), more, n + 1)
  BY <1>1, ReplaysFollows
<1> HIDE DEF more, n
<1>3. \A i \in 0..n : Replays(entries)[i] = Replays(more)[i]
  BY <1>1, <1>2, SameReplay
<1>4. Replays(more)[n + 1] = Replay(Replays(more)[n], entry)
  <2>1. n + 1 \in 1..(n + 1) /\ (n + 1) - 1 = n /\ n + 1 \in Nat
    BY <1>1
  <2> QED
    BY <1>1, <1>2, <2>1, FollowsRows
<1>5. ReplayOf(more) = Replay(ReplayOf(entries), entry)
  BY <1>1, <1>3, <1>4 DEF ReplayOf, n
<1> QED
  BY <1>3, <1>5 DEF more, n

LEMMA ReplayNothing == ReplayOf(<<>>) = NoState
<1>1. <<>> \in Seq(HistoryRow) /\ Len(<<>>) = 0
  OBVIOUS
<1>2. Follows(Replays(<<>>), <<>>, 0)
  BY <1>1, ReplaysFollows
<1> QED
  BY <1>1, <1>2, FollowsRows DEF ReplayOf

State(status, advisor, version) ==
  [status |-> status, advisor |-> advisor, version |-> version]

\* What a history row does to the state it is replayed on.
LEMMA EntryReplays ==
  ASSUME NEW status, NEW advisor, NEW version, NEW old, NEW new
  PROVE  /\ \A action \in {"CREATED", "STATUS_CHANGED"} :
              Replay(State(status, advisor, version), Entry(action, old, new)) =
                State(new, advisor, version + 1)
         /\ \A action \in {"ASSIGNED", "TAKEN"} :
              Replay(State(status, advisor, version), Entry(action, old, new)) =
                State(IF status = "NUEVO" THEN "ASIGNADO" ELSE status, new, version + 1)
         /\ Replay(State(status, advisor, version), Entry("RELEASED", old, new)) =
              State(status, NULL, version)
         /\ Replay(State(status, advisor, version), Entry("COMMENT_ADDED", old, new)) =
              State(status, advisor, version + 1)
<1> DEFINE before == State(status, advisor, version)
<1>1. \A action : Entry(action, old, new).action = action /\ Entry(action, old, new).new = new
  BY DEF Entry
<1>2. \A entry : entry.action \in {"CREATED", "STATUS_CHANGED"} =>
        Replay(before, entry) = State(entry.new, advisor, version + 1)
  BY DEF Replay, State
<1>3. \A entry : entry.action \in {"ASSIGNED", "TAKEN"} =>
        Replay(before, entry) =
          State(IF status = "NUEVO" THEN "ASIGNADO" ELSE status, entry.new, version + 1)
  BY DEF Replay, State
<1>4. \A entry : entry.action = "RELEASED" =>
        Replay(before, entry) = State(status, NULL, version)
  BY DEF Replay, State
<1>5. \A entry : entry.action = "COMMENT_ADDED" =>
        Replay(before, entry) = State(status, advisor, version + 1)
  BY DEF Replay, State
<1> HIDE DEF before
<1>6. \A action \in {"CREATED", "STATUS_CHANGED"} :
        Replay(before, Entry(action, old, new)) = State(new, advisor, version + 1)
  BY <1>1, <1>2
<1>7. \A action \in {"ASSIGNED", "TAKEN"} :
        Replay(before, Entry(action, old, new)) =
          State(IF status = "NUEVO" THEN "ASIGNADO" ELSE status, new, version + 1)
  BY <1>1, <1>3
<1>8. /\ Replay(before, Entry("RELEASED", old, new)) = State(status, NULL, version)
      /\ Replay(before, Entry("COMMENT_ADDED", old, new)) =
           State(status, advisor, version + 1)
  BY <1>1, <1>4, <1>5
<1> QED
  BY <1>6, <1>7, <1>8 DEF before

\* Two rows are appended one after the other.
LEMMA ConcatTwo ==
  ASSUME NEW S, NEW entries \in Seq(S), NEW first \in S, NEW second \in S
  PROVE  entries \o <<first, second>> = (entries \o <<first>>) \o <<second>>
<1> DEFINE n == Len(entries)
           both == entries \o <<first, second>>
           one == entries \o <<first>>
           each == one \o <<second>>
<1>1. n \in Nat
  OBVIOUS
<1>2. /\ both \in Seq(S) /\ Len(both) = n + 2
      /\ both[n + 1] = first /\ both[n + 2] = second
      /\ \A i \in 1..n : both[i] = entries[i]
  OBVIOUS
<1>3. /\ one \in Seq(S) /\ Len(one) = n + 1 /\ one[n + 1] = first
      /\ \A i \in 1..n : one[i] = entries[i]
  OBVIOUS
<1>4. /\ each \in Seq(S) /\ Len(each) = n + 2
      /\ each[n + 2] = second
      /\ \A i \in 1..(n + 1) : each[i] = one[i]
  <2> HIDE DEF one
  <2> QED
    BY <1>1, <1>3
<1> HIDE DEF n, both, one, each
<1>5. \A i \in 1..(n + 2) : i \in 1..n \/ i = n + 1 \/ i = n + 2
  BY <1>1
<1>6. \A i \in 1..(n + 2) : both[i] = each[i]
  BY <1>1, <1>2, <1>3, <1>4, <1>5
<1>7. both = each
  BY <1>2, <1>4, <1>6, SeqEqual
<1> QED
  BY <1>7 DEF both, each, one

\* What the two rows of a release do together.
LEMMA ReplayTwo ==
  ASSUME NEW S, NEW entries \in Seq(S), NEW first \in S, NEW second \in S,
         NEW pair, pair = <<first, second>>
  PROVE  ReplayOf(entries \o pair) = Replay(Replay(ReplayOf(entries), first), second)
<1>1. entries \o <<first>> \in Seq(S)
  OBVIOUS
<1>2. entries \o <<first, second>> = (entries \o <<first>>) \o <<second>>
  BY ConcatTwo
<1> QED
  BY <1>1, <1>2, ReplayAppend

(***************************************************************************)
(* What the steps of the service add to a history.                         *)
(***************************************************************************)
\* What each operation writes in the history leads to the row it writes.
LEMMA OperationReplays ==
  ASSUME NEW row \in TicketRow, NEW version, NEW old
  PROVE  /\ \A action \in {"ASSIGNED", "TAKEN"}, advisor \in Advisors :
              Replay(State(row.status, row.advisor, version), Entry(action, old, advisor)) =
                State(AssignedRow(row, advisor).status, AssignedRow(row, advisor).advisor,
                      version + 1)
         /\ \A was :
              Replay(Replay(State(row.status, row.advisor, version), Entry("RELEASED", was, NULL)),
                     Entry("STATUS_CHANGED", old, "NUEVO")) =
                State(ReleasedRow(row).status, ReleasedRow(row).advisor, version + 1)
         /\ \A new \in TicketStatus :
              Replay(State(row.status, row.advisor, version), Entry("STATUS_CHANGED", old, new)) =
                State(MovedRow(row, new).status, MovedRow(row, new).advisor, version + 1)
         /\ Replay(State(row.status, row.advisor, version), Entry("COMMENT_ADDED", old, NULL)) =
              State(Touch(row).status, Touch(row).advisor, version + 1)
  BY EffectFields, EntryReplays

\* The two history rows of a release, whose guard excludes a row never inserted.
LEMMA ReleaseRows ==
  ASSUME TypeOK, RowsLegal, NEW r \in Requests, Active(r), NEW actor \in Staff,
         CanRelease(ticket[req[r].ticket], actor)
  PROVE  /\ Entry("RELEASED", ticket[req[r].ticket].advisor, NULL) \in HistoryRow
         /\ Entry("STATUS_CHANGED", ticket[req[r].ticket].status, "NUEVO") \in HistoryRow
<1> DEFINE row == ticket[req[r].ticket]
<1>1. row \in TicketRow /\ row.status \in TicketStatus
  BY ActiveRequest
     DEF RowsLegal, NoRow, AssignmentState, CanRelease, RequiresAssignedAdvisor,
         Terminal, TicketStatus
<1> QED
  BY <1>1 DEF Entry, HistoryRow, HistoryAction, TicketRow, TicketStatus

\* A write that adds one history row: replayed on the row the write found, it
\* gives the row the write left; without reopen it records what was there.
AddsOne(t) ==
  \E entry \in HistoryRow :
    /\ history'[t] = history[t] \o <<entry>>
    /\ \A version : Replay(State(ticket[t].status, ticket[t].advisor, version), entry) =
                      State(ticket'[t].status, ticket'[t].advisor, version + 1)
    /\ "reopen" \notin Endpoints =>
         RecordsOld(entry, ticket[t]) /\ ticket'[t].version = ticket[t].version + 1

\* The write of a release, which adds two.
AddsTwo(t) ==
  LET released == Entry("RELEASED", ticket[t].advisor, NULL)
      moved    == Entry("STATUS_CHANGED", ticket[t].status, "NUEVO")
  IN
  /\ released \in HistoryRow /\ moved \in HistoryRow
  /\ history'[t] = history[t] \o <<released, moved>>
  /\ ticket'[t].status = "NUEVO" /\ ticket'[t].advisor = NULL
  /\ ticket'[t].version = ticket[t].version + 1

Creates(t) ==
  \E c \in Clients : /\ ticket'[t] = NewRow(c)
                     /\ history'[t] = <<Entry("CREATED", NULL, "NUEVO")>>

\* Every step leaves the history of a ticket in step with its row.
LEMMA HistorySteps ==
  ASSUME TypeOK, RowsLegal, [Next]_vars, NEW t \in Tickets
  PROVE  \/ UNCHANGED <<ticket[t], history[t]>>
         \/ Creates(t) \/ AddsOne(t) \/ AddsTwo(t)
<1> DEFINE Kept == UNCHANGED <<ticket[t], history[t]>>
<1>1. ASSUME NEW r \in Requests, Active(r)
      PROVE  ticket[req[r].ticket] \in TicketRow
  BY <1>1, ActiveRequest
<1>2. ASSUME NEW r \in Requests, Active(r),
             NEW row, NEW rows, NEW entries, Commit(r, row, rows, entries)
      PROVE  \/ Kept
             \/ t = req[r].ticket /\ ticket'[t] = row /\ history'[t] = history[t] \o entries
  BY <1>2, ActiveRequest DEF Commit, TypeOK
<1>3. ASSUME NEW u \in Tickets, NEW c \in Clients, Create(u, c)
      PROVE  Kept \/ Creates(t)
  BY <1>3 DEF Create, Creates, TypeOK
<1>4. ASSUME NEW r \in Requests, NEW advisor \in Advisors, Assign(r, advisor)
      PROVE  Kept \/ AddsOne(t)
  <2> DEFINE row == ticket[req[r].ticket]
             entry == Entry("ASSIGNED", row.advisor, advisor)
  <2>1. Active(r) /\ \E rows : Commit(r, AssignedRow(row, advisor), rows, <<entry>>)
    BY <1>4 DEF Assign
  <2>2. entry \in HistoryRow /\ RecordsOld(entry, row)
    BY <1>1, <2>1 DEF Entry, HistoryRow, HistoryAction, TicketRow, RecordsOld
  <2>3. AssignedRow(row, advisor).version = row.version + 1
    BY <1>1, <2>1, EffectFields
  <2>4. \A version : Replay(State(row.status, row.advisor, version), entry) =
          State(AssignedRow(row, advisor).status, AssignedRow(row, advisor).advisor,
                version + 1)
    BY <1>1, <2>1, OperationReplays
  <2> QED
    BY <1>2, <2>1, <2>2, <2>3, <2>4 DEF AddsOne
<1>5. ASSUME NEW r \in Requests, NEW advisor \in Advisors, Take(r, advisor)
      PROVE  Kept \/ AddsOne(t)
  <2> DEFINE row == ticket[req[r].ticket]
             entry == Entry("TAKEN", NULL, advisor)
  <2>1. /\ Active(r) /\ CanTake(row)
        /\ \E rows : Commit(r, AssignedRow(row, advisor), rows, <<entry>>)
    BY <1>5 DEF Take
  <2>2. entry \in HistoryRow /\ RecordsOld(entry, row)
    BY <2>1 DEF Entry, HistoryRow, HistoryAction, RecordsOld, CanTake
  <2>3. AssignedRow(row, advisor).version = row.version + 1
    BY <1>1, <2>1, EffectFields
  <2>4. \A version : Replay(State(row.status, row.advisor, version), entry) =
          State(AssignedRow(row, advisor).status, AssignedRow(row, advisor).advisor,
                version + 1)
    BY <1>1, <2>1, OperationReplays
  <2> QED
    BY <1>2, <2>1, <2>2, <2>3, <2>4 DEF AddsOne
<1>6. ASSUME NEW r \in Requests, NEW actor \in Staff, Release(r, actor)
      PROVE  Kept \/ AddsTwo(t)
  <2> DEFINE row == ticket[req[r].ticket]
  <2>1. /\ Active(r) /\ CanRelease(row, actor)
        /\ \E rows : Commit(r, ReleasedRow(row), rows,
                            <<Entry("RELEASED", row.advisor, NULL),
                              Entry("STATUS_CHANGED", row.status, "NUEVO")>>)
    BY <1>6 DEF Release
  <2>2. /\ Entry("RELEASED", row.advisor, NULL) \in HistoryRow
        /\ Entry("STATUS_CHANGED", row.status, "NUEVO") \in HistoryRow
    BY <2>1, ReleaseRows
  <2>3. /\ ReleasedRow(row).status = "NUEVO" /\ ReleasedRow(row).advisor = NULL
        /\ ReleasedRow(row).version = row.version + 1
    BY <1>1, <2>1, EffectFields
  <2> QED
    BY <1>2, <2>1, <2>2, <2>3 DEF AddsTwo
<1>7. ASSUME NEW r \in Requests, NEW actor \in Staff, NEW new \in TicketStatus,
             NEW reason \in BOOLEAN, Active(r), Move(r, new, reason, actor)
      PROVE  Kept \/ AddsOne(t)
  <2> DEFINE row == ticket[req[r].ticket]
             entry == Entry("STATUS_CHANGED", row.status, new)
  <2>1. /\ CanTransition(row, new, reason, actor)
        /\ \E rows : Commit(r, MovedRow(row, new), rows, <<entry>>)
    BY <1>7 DEF Move, MayChangeStatus
  <2>2. entry \in HistoryRow /\ RecordsOld(entry, row)
    <3>1. row.status \in TicketStatus
      BY <1>1, <1>7, <2>1 DEF CanTransition, AllowedTransitions, TicketRow, TicketStatus
    <3> QED
      BY <3>1 DEF Entry, HistoryRow, HistoryAction, RecordsOld
  <2>3. MovedRow(row, new).version = row.version + 1
    BY <1>1, <1>7, EffectFields
  <2>4. \A version : Replay(State(row.status, row.advisor, version), entry) =
          State(MovedRow(row, new).status, MovedRow(row, new).advisor, version + 1)
    BY <1>1, <1>7, OperationReplays
  <2> QED
    BY <1>2, <1>7, <2>1, <2>2, <2>3, <2>4 DEF AddsOne
<1>8. ASSUME NEW r \in Requests, NEW actor \in Staff, Reopen(r, actor)
      PROVE  Kept \/ AddsOne(t)
  <2> DEFINE row == ticket[req[r].ticket]
             seen == req[r].row
             entry == Entry("STATUS_CHANGED", seen.status, "EN_PROCESO")
             after == ReopenedRow(seen, row)
  <2>1. /\ "reopen" \in Endpoints /\ Active(r) /\ seen.status = "RESUELTO"
        /\ \E rows : Commit(r, after, rows, <<entry>>)
    BY <1>8 DEF Reopen
  <2>2. entry \in HistoryRow
    BY <2>1 DEF Entry, HistoryRow, HistoryAction, TicketStatus
  <2>3. after.status = "EN_PROCESO" /\ after.advisor = row.advisor
    BY <1>1, <2>1 DEF ReopenedRow, TicketRow
  <2>4. \A version : Replay(State(row.status, row.advisor, version), entry) =
          State(after.status, after.advisor, version + 1)
    BY <2>3, EntryReplays
  <2> QED
    BY <1>2, <2>1, <2>2, <2>4 DEF AddsOne
<1>9. ASSUME NEW r \in Requests, NEW actor \in Actors, AddComment(r, actor)
      PROVE  Kept \/ AddsOne(t)
  <2> DEFINE row == ticket[req[r].ticket]
             entry == Entry("COMMENT_ADDED", NULL, NULL)
  <2>1. Active(r) /\ \E rows : Commit(r, Touch(row), rows, <<entry>>)
    BY <1>9 DEF AddComment
  <2>2. entry \in HistoryRow /\ RecordsOld(entry, row)
    BY DEF Entry, HistoryRow, HistoryAction, RecordsOld
  <2>3. /\ Touch(row).version = row.version + 1
        /\ \A version : Replay(State(row.status, row.advisor, version), entry) =
             State(Touch(row).status, Touch(row).advisor, version + 1)
    BY <1>1, <2>1, EffectFields, OperationReplays
  <2> QED
    BY <1>2, <2>1, <2>2, <2>3 DEF AddsOne
<1>10. ASSUME NEW r \in Requests, Rollback(r) \/ \E u \in Tickets :
               \E expected \in 1..ticket[u].version \cup {NULL} : Begin(r, u, expected)
      PROVE  Kept
  BY <1>10 DEF Rollback, Begin
<1>11. CASE UNCHANGED vars
  BY <1>11 DEF vars
<1> QED
  BY <1>3, <1>4, <1>5, <1>6, <1>7, <1>8, <1>9, <1>10, <1>11, StepKinds

LEMMA ReplayCreated ==
  ReplayOf(<<Entry("CREATED", NULL, "NUEVO")>>) = State("NUEVO", NULL, 1)
<1> DEFINE first == Entry("CREATED", NULL, "NUEVO")
<1>1. first \in HistoryRow
  BY DEF Entry, HistoryRow, HistoryAction, TicketStatus
<1>2. <<first>> = <<>> \o <<first>> /\ <<>> \in Seq(HistoryRow)
  OBVIOUS
<1>3. ReplayOf(<<first>>) = Replay(State("ABSENT", NULL, 0), first)
  <2> HIDE DEF first
  <2> QED
    BY <1>1, <1>2, ReplayAppend, ReplayNothing DEF NoState, State
<1> QED
  BY <1>3, EntryReplays

(***************************************************************************)
(* The history gives the status and the advisor, with any endpoints.       *)
(***************************************************************************)
\* HistoryExplainsTicket for one ticket, with the shape of what is replayed.
Explains(entries, row) ==
  \E version : ReplayOf(entries) = State(row.status, row.advisor, version)

EveryHistoryExplains == \A t \in Tickets : Explains(history[t], ticket[t])

LEMMA ExplainsStep == IInv /\ EveryHistoryExplains /\ [Next]_vars => EveryHistoryExplains'
<1> SUFFICES ASSUME TypeOK, RowsLegal, EveryHistoryExplains, [Next]_vars, NEW t \in Tickets
             PROVE  Explains(history'[t], ticket'[t])
  BY DEF IInv, EveryHistoryExplains
<1>1. history[t] \in Seq(HistoryRow)
  BY DEF TypeOK
<1>2. PICK version :
        ReplayOf(history[t]) = State(ticket[t].status, ticket[t].advisor, version)
  BY DEF EveryHistoryExplains, Explains
<1>3. CASE UNCHANGED <<ticket[t], history[t]>>
  BY <1>2, <1>3 DEF Explains
<1>4. CASE Creates(t)
  BY <1>4, ReplayCreated DEF Creates, Explains, NewRow, NoRow
<1>5. CASE AddsOne(t)
  BY <1>1, <1>2, <1>5, ReplayAppend DEF AddsOne, Explains
<1>6. CASE AddsTwo(t)
  <2> DEFINE released == Entry("RELEASED", ticket[t].advisor, NULL)
             moved    == Entry("STATUS_CHANGED", ticket[t].status, "NUEVO")
  <2>1. ReplayOf(history'[t]) = Replay(Replay(ReplayOf(history[t]), released), moved)
    BY <1>1, <1>6, ReplayTwo DEF AddsTwo
  <2>2. Replay(Replay(ReplayOf(history[t]), released), moved) =
          State("NUEVO", NULL, version + 1)
    BY <1>2, EntryReplays
  <2> QED
    BY <1>6, <2>1, <2>2 DEF AddsTwo, Explains
<1> QED
  BY <1>3, <1>4, <1>5, <1>6, HistorySteps

\* Whoever reads the history of a ticket from its first row finds its status and
\* its advisor, reopened from a stale read or not.
THEOREM HistoryExplains == Spec => []HistoryExplainsTicket
<1>1. Init => EveryHistoryExplains
  BY ReplayNothing DEF Init, EveryHistoryExplains, Explains, NoState, State, NoRow
<1>2. IInv /\ EveryHistoryExplains /\ [Next]_vars => EveryHistoryExplains'
  BY ExplainsStep
<1>3. EveryHistoryExplains => HistoryExplainsTicket
  <2>1. ASSUME NEW t \in Tickets, Explains(history[t], ticket[t])
        PROVE  /\ ReplayOf(history[t]).status = ticket[t].status
               /\ ReplayOf(history[t]).advisor = ticket[t].advisor
    BY <2>1 DEF Explains, State
  <2> QED
    BY <2>1 DEF EveryHistoryExplains, HistoryExplainsTicket
<1> QED
  BY <1>1, <1>2, <1>3, Invariance, PTL DEF Spec

(***************************************************************************)
(* The history without gaps, and the version that counts it.               *)
(***************************************************************************)
Gapless(entries) ==
  \A i \in DOMAIN entries : RecordsOld(entries[i], Replays(entries)[i - 1])

\* HistoryHasNoGap for one ticket: its row is what its history replays to.
Recorded(entries, row) ==
  /\ ReplayOf(entries) = State(row.status, row.advisor, row.version)
  /\ Gapless(entries)

EveryWriteRecorded == \A t \in Tickets : Recorded(history[t], ticket[t])

\* A row that records what the rows before it leave opens no gap.
LEMMA GaplessAppend ==
  ASSUME NEW S, NEW entries \in Seq(S), NEW entry \in S, Gapless(entries),
         RecordsOld(entry, ReplayOf(entries))
  PROVE  Gapless(entries \o <<entry>>)
<1> DEFINE more == entries \o <<entry>>
           n == Len(entries)
<1>1. /\ n \in Nat /\ DOMAIN entries = 1..n
      /\ DOMAIN more = 1..(n + 1)
      /\ more[n + 1] = entry
      /\ \A i \in 1..n : more[i] = entries[i]
  OBVIOUS
<1>2. \A i \in 0..n : Replays(more)[i] = Replays(entries)[i]
  BY ReplayAppend
<1> HIDE DEF more, n
<1>3. ASSUME NEW i \in DOMAIN more PROVE RecordsOld(more[i], Replays(more)[i - 1])
  <2>1. CASE i = n + 1
    <3>1. Replays(more)[i - 1] = ReplayOf(entries)
      BY <1>1, <1>2, <2>1 DEF ReplayOf, n
    <3> QED
      BY <1>1, <2>1, <3>1
  <2>2. CASE i \in 1..n
    <3>1. i - 1 \in 0..n
      BY <1>1, <2>2
    <3> QED
      BY <1>1, <1>2, <2>2, <3>1 DEF Gapless
  <2> QED
    BY <1>1, <1>3, <2>1, <2>2
<1> QED
  BY <1>3 DEF Gapless, more

LEMMA RecordedStep ==
  ASSUME "reopen" \notin Endpoints
  PROVE  IInv /\ EveryWriteRecorded /\ [Next]_vars => EveryWriteRecorded'
<1> SUFFICES ASSUME TypeOK, RowsLegal, EveryWriteRecorded, [Next]_vars, NEW t \in Tickets
             PROVE  Recorded(history'[t], ticket'[t])
  BY DEF IInv, EveryWriteRecorded
<1> DEFINE row == ticket[t]
           entries == history[t]
<1>1. entries \in Seq(HistoryRow) /\ row \in TicketRow
  BY DEF TypeOK
<1>2. ReplayOf(entries) = State(row.status, row.advisor, row.version) /\ Gapless(entries)
  BY DEF EveryWriteRecorded, Recorded
<1>3. ReplayOf(entries).status = row.status /\ ReplayOf(entries).advisor = row.advisor
  BY <1>2 DEF State
<1>4. CASE UNCHANGED <<ticket[t], history[t]>>
  BY <1>2, <1>4 DEF Recorded
<1>5. CASE Creates(t)
  <2> DEFINE first == Entry("CREATED", NULL, "NUEVO")
  <2>1. PICK c \in Clients : ticket'[t] = NewRow(c) /\ history'[t] = <<first>>
    BY <1>5 DEF Creates
  <2>2. Gapless(<<first>>)
    <3>1. DOMAIN <<first>> = {1} /\ <<first>>[1] = first
      OBVIOUS
    <3>2. first.action = "CREATED"
      BY DEF Entry
    <3> HIDE DEF first
    <3> QED
      BY <3>1, <3>2 DEF Gapless, RecordsOld
  <2>3. NewRow(c).status = "NUEVO" /\ NewRow(c).advisor = NULL /\ NewRow(c).version = 1
    BY DEF NewRow, NoRow
  <2> QED
    BY <2>1, <2>2, <2>3, ReplayCreated DEF Recorded
<1>6. CASE AddsOne(t)
  <2>1. PICK entry \in HistoryRow :
          /\ history'[t] = entries \o <<entry>>
          /\ Replay(ReplayOf(entries), entry) =
               State(ticket'[t].status, ticket'[t].advisor, row.version + 1)
          /\ RecordsOld(entry, row) /\ ticket'[t].version = row.version + 1
    BY <1>2, <1>6 DEF AddsOne
  <2>2. RecordsOld(entry, ReplayOf(entries))
    BY <1>3, <2>1 DEF RecordsOld
  <2>3. Gapless(history'[t])
    BY <1>1, <1>2, <2>1, <2>2, GaplessAppend
  <2>4. ReplayOf(history'[t]) = Replay(ReplayOf(entries), entry)
    BY <1>1, <2>1, ReplayAppend
  <2> QED
    BY <2>1, <2>3, <2>4 DEF Recorded
<1>7. CASE AddsTwo(t)
  <2> DEFINE released == Entry("RELEASED", row.advisor, NULL)
             moved == Entry("STATUS_CHANGED", row.status, "NUEVO")
             one == entries \o <<released>>
  <2>1. /\ released \in HistoryRow /\ moved \in HistoryRow
        /\ history'[t] = entries \o <<released, moved>>
        /\ ticket'[t].status = "NUEVO" /\ ticket'[t].advisor = NULL
        /\ ticket'[t].version = row.version + 1
    BY <1>7 DEF AddsTwo
  <2>2. one \in Seq(HistoryRow)
    BY <1>1, <2>1
  <2>3. history'[t] = one \o <<moved>>
    BY <1>1, <2>1, ConcatTwo
  <2>4. /\ ReplayOf(one) = State(row.status, NULL, row.version)
        /\ ReplayOf(history'[t]) = State("NUEVO", NULL, row.version + 1)
    <3>1. ReplayOf(one) = Replay(ReplayOf(entries), released)
      BY <1>1, <2>1, ReplayAppend
    <3>2. ReplayOf(history'[t]) = Replay(ReplayOf(one), moved)
      <4> HIDE DEF one, moved
      <4> QED
        BY <2>1, <2>2, <2>3, ReplayAppend
    <3> QED
      BY <1>2, <3>1, <3>2, EntryReplays
  <2>5. RecordsOld(released, ReplayOf(entries)) /\ RecordsOld(moved, ReplayOf(one))
    BY <1>3, <2>4 DEF RecordsOld, Entry, State
  <2>6. Gapless(one)
    BY <1>1, <1>2, <2>1, <2>5, GaplessAppend
  <2>7. Gapless(history'[t])
    <3> HIDE DEF one, moved
    <3> QED
      BY <2>1, <2>2, <2>3, <2>5, <2>6, GaplessAppend
  <2> QED
    BY <2>1, <2>4, <2>7 DEF Recorded
<1> QED
  BY <1>4, <1>5, <1>6, <1>7, HistorySteps

\* When nothing calls reopen, every write of every ticket has its history row, each
\* row records the value the one before it left, and no two writes share a version.
THEOREM HistoryWithoutGap ==
  ASSUME "reopen" \notin Endpoints
  PROVE  Spec => []HistoryHasNoGap
<1>1. Init => EveryWriteRecorded
  BY ReplayNothing
     DEF Init, EveryWriteRecorded, Recorded, Gapless, NoState, State, NoRow
<1>2. IInv /\ EveryWriteRecorded /\ [Next]_vars => EveryWriteRecorded'
  BY RecordedStep
<1>3. EveryWriteRecorded => HistoryHasNoGap
  <2>1. ASSUME NEW t \in Tickets, Recorded(history[t], ticket[t])
        PROVE  /\ ReplayOf(history[t]).version = ticket[t].version
               /\ Gapless(history[t])
    BY <2>1 DEF Recorded, State
  <2> QED
    BY <2>1 DEF EveryWriteRecorded, HistoryHasNoGap, VersionCountsWrites, Gapless
<1> QED
  BY <1>1, <1>2, <1>3, Invariance, PTL DEF Spec

=============================================================================
