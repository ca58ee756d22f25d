---------------------------- MODULE TicketRules ----------------------------
(***************************************************************************)
(* The rules of a ticket that do not depend on who runs concurrently: the  *)
(* statuses, the transition table, the CHECK constraint of the table, who  *)
(* may do what, and the row each operation leaves behind.                  *)
(* Source: app/modules/tickets/services/ticket_service.py and              *)
(* app/modules/tickets/models/ticket.py.                                   *)
(***************************************************************************)
EXTENDS Integers, Sequences

CONSTANTS
  Clients,      \* users with role CLIENTE
  Advisors,     \* active users with role ASESOR
  Supervisors,  \* users with role SUPERVISOR
  NULL          \* SQL NULL: no advisor, no expected_version

ASSUME RolesAssumption ==
  /\ NULL \notin Clients \cup Advisors \cup Supervisors
  /\ Clients \cap Advisors = {}
  /\ Clients \cap Supervisors = {}
  /\ Advisors \cap Supervisors = {}

Staff == Advisors \cup Supervisors
Actors == Clients \cup Staff

TicketStatus == {"NUEVO", "ASIGNADO", "EN_PROCESO", "PENDIENTE_CLIENTE",
                 "RESUELTO", "CERRADO", "CANCELADO"}
Terminal == {"CERRADO", "CANCELADO"}
RequiresAssignedAdvisor == {"ASIGNADO", "EN_PROCESO", "PENDIENTE_CLIENTE", "RESUELTO"}

AllowedTransitions(status) ==
  CASE status = "NUEVO"             -> {"ASIGNADO", "CANCELADO"}
    [] status = "ASIGNADO"          -> {"EN_PROCESO", "CANCELADO"}
    [] status = "EN_PROCESO"        -> {"PENDIENTE_CLIENTE", "RESUELTO", "CANCELADO"}
    [] status = "PENDIENTE_CLIENTE" -> {"EN_PROCESO"}
    [] status = "RESUELTO"          -> {"CERRADO", "EN_PROCESO", "CANCELADO"}
    [] OTHER                        -> {}

(***************************************************************************)
(* A row of tickets. Of a timestamp only whether it is set is kept. A row  *)
(* that was never inserted has status ABSENT and version 0.                *)
(***************************************************************************)
TicketRow ==
  [status: TicketStatus \cup {"ABSENT"}, advisor: Advisors \cup {NULL},
   client: Clients \cup {NULL}, version: Nat,
   resolved: BOOLEAN, closed: BOOLEAN, cancelled: BOOLEAN]

NoRow == [status |-> "ABSENT", advisor |-> NULL, client |-> NULL, version |-> 0,
          resolved |-> FALSE, closed |-> FALSE, cancelled |-> FALSE]

NewRow(client) ==
  [NoRow EXCEPT !.status = "NUEVO", !.client = client, !.version = 1]

\* The CHECK constraint ck_tickets_assignment_state.
AssignmentState(row) ==
  \/ row.status = "NUEVO" /\ row.advisor = NULL
  \/ row.status \in RequiresAssignedAdvisor /\ row.advisor # NULL
  \/ row.status \in Terminal

Touch(row) == [row EXCEPT !.version = @ + 1]

Stamp(row, new) ==
  [row EXCEPT !.resolved  = IF new = "RESUELTO" THEN TRUE ELSE @,
              !.closed    = IF new = "CERRADO" THEN TRUE ELSE @,
              !.cancelled = IF new = "CANCELADO" THEN TRUE ELSE @]

(***************************************************************************)
(* Guards: what the handlers require of the row they hold.                 *)
(***************************************************************************)
\* Mutant: CERRADO is not treated as terminal.
IsOpenUnlessCancelled(row) == row.status # "CANCELADO"

IsOpen(row) == row.status \notin Terminal

CanManage(row, actor) == actor \in Advisors => row.advisor = actor

CanView(row, actor) ==
  /\ actor \in Clients  => row.client = actor
  /\ actor \in Advisors => row.advisor = actor

CanTransition(row, new, reason, actor) ==
  /\ IsOpen(row)
  /\ new = "CANCELADO" => reason /\ actor \in Supervisors
  /\ new \in RequiresAssignedAdvisor => row.advisor # NULL
  /\ row.status = "RESUELTO" /\ new = "EN_PROCESO" => reason
  /\ new \in AllowedTransitions(row.status)

CanAssign(row, advisor) == IsOpen(row) /\ row.advisor # advisor
CanTake(row)            == IsOpen(row) /\ row.advisor = NULL
CanRelease(row, actor)  == IsOpen(row) /\ CanManage(row, actor) /\ row.advisor # NULL

(***************************************************************************)
(* Effects: the row each operation writes.                                 *)
(***************************************************************************)
AssignedRow(row, advisor) ==
  Touch([row EXCEPT !.advisor = advisor,
                    !.status  = IF @ = "NUEVO" THEN "ASIGNADO" ELSE @])

ReleasedRow(row) ==
  Touch([row EXCEPT !.advisor = NULL, !.status = "NUEVO", !.resolved = FALSE,
                    !.closed = FALSE, !.cancelled = FALSE])

MovedRow(row, new) == Touch(Stamp([row EXCEPT !.status = new], new))

=============================================================================
