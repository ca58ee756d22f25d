------------------------------ MODULE SlaClock ------------------------------
(***************************************************************************)
(* The SLA record of one ticket: what the ticket operations, pause, resume *)
(* and the evaluation read of it and write to it, against a clock.         *)
(*                                                                         *)
(* No operation locks the SLA row. A request reads it with a plain SELECT, *)
(* which returns the row of the snapshot taken at authentication, computes *)
(* the new values in memory and writes at COMMIT the columns it changed.   *)
(* Status changes and comments hold the lock on the ticket row meanwhile;  *)
(* pause, resume and evaluate do not.                                      *)
(*                                                                         *)
(* Source: app/modules/tickets/services/sla_service.py. Who may call what  *)
(* is left to TicketRules: a supervisor meets every guard on the actor.    *)
(***************************************************************************)
EXTENDS Integers, FiniteSets

CONSTANTS
  Requests,        \* requests that may be in flight at the same time
  Operations,      \* what the requests do, a subset of AllOperations
  FirstResponse,   \* policy: seconds allowed for the first response
  Resolution,      \* policy: seconds allowed for the resolution
  Warning,         \* policy: how long before a due date the warning is sent
  MaxTime,         \* bound on the clock
  MaxReopens,      \* bound on the reopenings of the ticket
  NULL

AllOperations == {"assign", "release", "status", "reopen", "comment", "pause",
                  "resume", "evaluate"}

ASSUME SlaAssumption ==
  /\ Operations \subseteq AllOperations
  /\ {FirstResponse, Resolution, Warning} \subseteq Nat \ {0}
  /\ {MaxTime, MaxReopens} \subseteq Nat
  /\ NULL \notin Int \cup BOOLEAN \cup Requests

Rules == INSTANCE TicketRules
  WITH Clients <- {}, Advisors <- {}, Supervisors <- {}, NULL <- NULL

VARIABLES
  now,      \* the clock
  ticket,   \* tickets: status, and whether an advisor is assigned
  sla,      \* ticket_sla: the committed row
  notices,  \* notifications: the dedupe keys of the SLA rows inserted
  req       \* the requests in flight, with what their snapshot holds

vars == <<now, ticket, sla, notices, req>>

SlaStatus == {"ACTIVE", "PAUSED", "BREACHED", "COMPLETED", "CANCELLED"}
Stages == {"first_response", "resolution"}

TicketState == [status: Rules!TicketStatus, assigned: BOOLEAN]

\* Of a timestamp that is only compared with NULL, only whether it is set is kept.
SlaRow ==
  [status: SlaStatus, responseDue: Nat, resolutionDue: Nat,
   responded: BOOLEAN, respondedWithin: BOOLEAN \cup {NULL}, responseBreached: BOOLEAN,
   resolved: BOOLEAN, completedWithin: BOOLEAN \cup {NULL}, resolutionBreached: BOOLEAN,
   responseWarned: BOOLEAN, resolutionWarned: BOOLEAN, breached: BOOLEAN,
   pausedAt: Nat \cup {NULL}, totalPaused: Nat, reopens: Nat]

\* The dedupe key of a notification: sla_warning or sla_breached, stage, reopen count.
Notice == {"sla_warning", "sla_breached"} \X Stages \X Nat

Idle == [active |-> FALSE]
InFlight == [active: {TRUE}, ticket: TicketState, sla: SlaRow, notices: SUBSET Notice]

\* start_for_ticket, in the transaction that creates the ticket at time 0.
Started ==
  [status |-> "ACTIVE", responseDue |-> FirstResponse, resolutionDue |-> Resolution,
   responded |-> FALSE, respondedWithin |-> NULL, responseBreached |-> FALSE,
   resolved |-> FALSE, completedWithin |-> NULL, resolutionBreached |-> FALSE,
   responseWarned |-> FALSE, resolutionWarned |-> FALSE, breached |-> FALSE,
   pausedAt |-> NULL, totalPaused |-> 0, reopens |-> 0]

Init ==
  /\ now = 0
  /\ ticket = [status |-> "NUEVO", assigned |-> FALSE]
  /\ sla = Started
  /\ notices = {}
  /\ req = [r \in Requests |-> Idle]

(***************************************************************************)
(* What the service computes. A work is the row in memory, the columns     *)
(* written whether their value differs or not, and the dedupe keys of the  *)
(* notifications created so far. Written in any case are a column given    *)
(* the current time and a due date given an aware timestamp: the database  *)
(* returned a naive one, and the two never compare equal.                  *)
(***************************************************************************)
Work(row) == [row |-> row, stamped |-> {}, sent |-> {}]

Send(work, kind, stage) == [work EXCEPT !.sent = @ \cup {<<kind, stage, work.row.reopens>>}]

MarkBreached(row) == [row EXCEPT !.status = "BREACHED", !.breached = TRUE]

BreachResponse(work) ==
  Send([work EXCEPT !.row = [MarkBreached(work.row) EXCEPT !.responseBreached = TRUE]],
       "sla_breached", "first_response")

BreachResolution(work) ==
  Send([work EXCEPT !.row = [MarkBreached(work.row) EXCEPT !.resolutionBreached = TRUE]],
       "sla_breached", "resolution")

\* record_first_response of a comment by staff; a later one changes nothing.
Responded(row) ==
  IF row.responded THEN Work(row)
  ELSE LET within == now <= row.responseDue
           noted  == [row EXCEPT !.responded = TRUE, !.respondedWithin = within]
       IN IF within THEN Work(noted) ELSE BreachResponse(Work(noted))

\* _finalize_missing_first_response
Finalized(row) ==
  IF row.responded THEN Work(row)
  ELSE LET noted == Work([row EXCEPT !.respondedWithin = FALSE])
       IN IF row.responseBreached THEN noted ELSE BreachResponse(noted)

\* on_status_change, one definition per status that touches the row.
Resolved(row) ==
  LET done == Finalized(row)
      late == now > row.resolutionDue
      kept == [done EXCEPT !.row = [done.row EXCEPT !.resolved = TRUE,
                                                    !.completedWithin = ~late],
                           !.stamped = {"resolved"}]
      noted == IF late /\ ~row.resolutionBreached THEN BreachResolution(kept) ELSE kept
  IN [noted EXCEPT !.row.status = "COMPLETED"]

Closed(row) ==
  LET done == Finalized(row)
      kept == IF row.resolved THEN done
              ELSE [done EXCEPT !.row = [done.row EXCEPT
                      !.resolved = TRUE, !.completedWithin = now <= row.resolutionDue]]
  IN [kept EXCEPT !.row.status = "COMPLETED"]

Cancelled(row) == Work([row EXCEPT !.pausedAt = NULL, !.status = "CANCELLED"])

Reopened(row) ==
  Work([row EXCEPT !.reopens = @ + 1, !.resolved = FALSE, !.completedWithin = NULL,
                   !.resolutionBreached = FALSE, !.status = "ACTIVE"])

OnStatusChange(row, old, new) ==
  CASE new = "RESUELTO"  -> Resolved(row)
    [] new = "CERRADO"   -> Closed(row)
    [] new = "CANCELADO" -> Cancelled(row)
    [] old = "RESUELTO" /\ new = "EN_PROCESO" -> Reopened(row)
    [] OTHER -> Work(row)

Paused(row) ==
  [Work([row EXCEPT !.pausedAt = now, !.status = "PAUSED"]) EXCEPT !.stamped = {"pausedAt"}]

\* The work of a resumption: both due dates are written even if no time is added.
Extended(row) == [Work(row) EXCEPT !.stamped = {"responseDue", "resolutionDue"}]

\* Mutant: a record that was answered keeps its first due date.
ResumedIfUnanswered(row) ==
  LET extension == now - row.pausedAt IN
  Extended([row EXCEPT !.responseDue = IF row.responded THEN @ ELSE @ + extension,
                       !.resolutionDue = @ + extension,
                       !.totalPaused = @ + extension, !.pausedAt = NULL, !.status = "ACTIVE"])

\* Mutant: the warning is armed again for the new due date.
ResumedRearmed(row) ==
  LET extension == now - row.pausedAt IN
  Extended([row EXCEPT !.responseDue = @ + extension, !.resolutionDue = @ + extension,
                       !.totalPaused = @ + extension, !.pausedAt = NULL, !.status = "ACTIVE",
                       !.resolutionWarned = FALSE])

Resumed(row) ==
  LET extension == now - row.pausedAt IN
  Extended([row EXCEPT !.responseDue = @ + extension, !.resolutionDue = @ + extension,
                       !.totalPaused = @ + extension, !.pausedAt = NULL, !.status = "ACTIVE"])

(***************************************************************************)
(* evaluate, on one row: a warning and then a breach per stage. A PAUSED   *)
(* row is skipped, and list_evaluable leaves finished ones out.            *)
(***************************************************************************)
WarningDue(due) == now < due /\ now >= due - Warning

\* Mutant: first_response_warning_sent_at is not set.
WarnResponseAgain(work) ==
  IF ~work.row.responded /\ WarningDue(work.row.responseDue) /\ ~work.row.responseWarned
  THEN Send(work, "sla_warning", "first_response")
  ELSE work

WarnResponse(work) ==
  IF ~work.row.responded /\ WarningDue(work.row.responseDue) /\ ~work.row.responseWarned
  THEN Send([work EXCEPT !.row.responseWarned = TRUE], "sla_warning", "first_response")
  ELSE work

WarnResolution(work) ==
  IF ~work.row.resolved /\ WarningDue(work.row.resolutionDue) /\ ~work.row.resolutionWarned
  THEN Send([work EXCEPT !.row.resolutionWarned = TRUE], "sla_warning", "resolution")
  ELSE work

ExpireResponse(work) ==
  IF ~work.row.responded /\ now >= work.row.responseDue /\ ~work.row.responseBreached
  THEN BreachResponse(work) ELSE work

ExpireResolution(work) ==
  IF ~work.row.resolved /\ now >= work.row.resolutionDue /\ ~work.row.resolutionBreached
  THEN BreachResolution(work) ELSE work

Evaluable(t, row) ==
  t.status \notin Rules!Terminal /\ row.status \notin {"COMPLETED", "CANCELLED"}

\* Mutant: a paused row is evaluated like the others.
EvaluatedThoughPaused(row) ==
  ExpireResolution(ExpireResponse(WarnResolution(WarnResponse(Work(row)))))

Evaluated(row) ==
  IF row.status = "PAUSED" THEN Work(row)
  ELSE ExpireResolution(ExpireResponse(WarnResolution(WarnResponse(Work(row)))))

(***************************************************************************)
(* Requests.                                                               *)
(***************************************************************************)
Tick ==
  /\ now < MaxTime
  /\ now' = now + 1
  /\ UNCHANGED <<ticket, sla, notices, req>>

Begin(r) ==
  /\ ~req[r].active
  /\ req' = [req EXCEPT ![r] = [active |-> TRUE, ticket |-> ticket, sla |-> sla,
                                notices |-> notices]]
  /\ UNCHANGED <<now, ticket, sla, notices>>

Rollback(r) ==
  /\ req[r].active
  /\ req' = [req EXCEPT ![r] = Idle]
  /\ UNCHANGED <<now, ticket, sla, notices>>

\* The UPDATE names the columns whose value differs from the one that was read, and
\* the stamped ones; any other column keeps what is committed by then.
WriteChanged(current, seen, work) ==
  [column \in DOMAIN current |->
     IF column \in work.stamped \/ work.row[column] # seen[column]
     THEN work.row[column] ELSE current[column]]

\* COMMIT. NotificationService.create skips a dedupe key its SELECT finds; one
\* inserted since the snapshot breaks uq_notifications_dedupe_key.
Commit(r, newTicket, work) ==
  /\ work.sent \cap notices \subseteq req[r].notices
  /\ ticket' = newTicket
  /\ sla' = WriteChanged(sla, req[r].sla, work)
  /\ notices' = notices \cup work.sent
  /\ req' = [req EXCEPT ![r] = Idle]
  /\ UNCHANGED now

\* assign, take, release: they move the ticket and leave the SLA row alone.
Assign(r) ==
  /\ "assign" \in Operations /\ req[r].active
  /\ ticket.status \notin Rules!Terminal
  /\ Commit(r, [status |-> IF ticket.status = "NUEVO" THEN "ASIGNADO" ELSE ticket.status,
                assigned |-> TRUE], Work(req[r].sla))

Release(r) ==
  /\ "release" \in Operations /\ req[r].active
  /\ ticket.status \notin Rules!Terminal /\ ticket.assigned
  /\ Commit(r, [status |-> "NUEVO", assigned |-> FALSE], Work(req[r].sla))

\* change_status, on the row the lock returned.
ChangeStatus(r, new) ==
  /\ "status" \in Operations /\ req[r].active
  /\ new \in Rules!AllowedTransitions(ticket.status)
  /\ new \in Rules!RequiresAssignedAdvisor => ticket.assigned
  /\ LET work == OnStatusChange(req[r].sla, ticket.status, new) IN
       /\ work.row.reopens <= MaxReopens
       /\ Commit(r, [ticket EXCEPT !.status = new], work)

\* reopen, on the ticket row of the snapshot; the CHECK constraint wants an advisor.
Reopen(r) ==
  /\ "reopen" \in Operations /\ req[r].active
  /\ req[r].ticket.status = "RESUELTO"
  /\ ticket.assigned
  /\ req[r].sla.reopens < MaxReopens
  /\ Commit(r, [ticket EXCEPT !.status = "EN_PROCESO"], Reopened(req[r].sla))

Comment(r) ==
  /\ "comment" \in Operations /\ req[r].active
  /\ ticket.status \notin Rules!Terminal
  /\ Commit(r, ticket, Responded(req[r].sla))

Pause(r) ==
  /\ "pause" \in Operations /\ req[r].active
  /\ req[r].ticket.status \notin Rules!Terminal
  /\ req[r].sla.status = "ACTIVE"
  /\ Commit(r, ticket, Paused(req[r].sla))

Resume(r) ==
  /\ "resume" \in Operations /\ req[r].active
  /\ req[r].sla.status = "PAUSED" /\ req[r].sla.pausedAt # NULL
  /\ Commit(r, ticket, Resumed(req[r].sla))

Evaluate(r) ==
  /\ "evaluate" \in Operations /\ req[r].active
  /\ Evaluable(req[r].ticket, req[r].sla)
  /\ Commit(r, ticket, Evaluated(req[r].sla))

Next ==
  \/ Tick
  \/ \E r \in Requests :
       \/ Begin(r) \/ Rollback(r)
       \/ Assign(r) \/ Release(r)
       \/ \E new \in Rules!TicketStatus : ChangeStatus(r, new)
       \/ Reopen(r) \/ Comment(r) \/ Pause(r) \/ Resume(r) \/ Evaluate(r)

Spec == Init /\ [][Next]_vars

=============================================================================
