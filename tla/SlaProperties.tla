--------------------------- MODULE SlaProperties ---------------------------
(***************************************************************************)
(* What the SLA of a ticket must get right, stated over SlaClock.          *)
(***************************************************************************)
EXTENDS SlaClock

\* Every variable keeps its type.
TypeOK ==
  /\ now \in 0..MaxTime
  /\ ticket \in TicketState
  /\ sla \in SlaRow
  /\ notices \subseteq Notice
  /\ \A r \in Requests : req[r] = Idle \/ req[r] \in InFlight

(***************************************************************************)
(* What survives requests that overwrite each other's columns.             *)
(***************************************************************************)
\* Evaluating twice is evaluating once: what a committed evaluation leaves makes
\* the next one at the same instant change nothing and notify nobody.
EvaluationSettles ==
  LET once  == Evaluated(sla)
      again == Evaluated(once.row)
  IN again.row = once.row /\ again.sent = {}

(***************************************************************************)
(* What holds as long as no two requests have been in flight together. A   *)
(* history variable says whether any were; the longer clock and the        *)
(* reopenings are left to the behaviours in which none were.               *)
(***************************************************************************)
CONSTANTS
  OverlapTime,     \* bound on the clock once requests have overlapped
  OverlapReopens   \* bound on the reopenings once they have

VARIABLE overlapped

HistoryInit == Init /\ overlapped = FALSE

HistoryNext ==
  /\ Next
  /\ overlapped' = (overlapped \/ \E r, s \in Requests :
                                     r # s /\ req'[r].active /\ req'[s].active)
  /\ overlapped' => now' <= OverlapTime /\ sla'.reopens <= OverlapReopens

HistorySpec == HistoryInit /\ [][HistoryNext]_<<vars, overlapped>>

\* The seconds of pause a record credits to the time for a first response.
Credit(row) == row.responseDue - FirstResponse

\* No second of pause is credited to one stage only or, whatever pauses and
\* resumptions overlapped, credited twice: no more is added than has passed, and
\* none of a pause that has not been resumed. As long as nothing overlapped the
\* credit is the time that total_paused_seconds records; then it may be less, since a
\* resumption that adds no time writes the due dates of its snapshot back, not the total.
PausesCreditedOnce ==
  /\ Credit(sla) = sla.resolutionDue - Resolution
  /\ Credit(sla) <= now /\ sla.totalPaused <= now
  /\ sla.pausedAt # NULL => Credit(sla) <= sla.pausedAt
  /\ ~overlapped => Credit(sla) = sla.totalPaused

\* Every notification in the table is one the record's own flags account for, so a
\* later evaluation will not send it again. Only reopenings may not overlap: a second
\* one, on an old snapshot, clears a breach marked since the first.
NoticesHaveFlags ==
  ~overlapped \/ sla.reopens = 0 =>
    \A notice \in notices :
      /\ notice = <<"sla_warning", "first_response", sla.reopens>> => sla.responseWarned
      /\ notice = <<"sla_warning", "resolution", sla.reopens>> => sla.resolutionWarned
      /\ notice = <<"sla_breached", "first_response", sla.reopens>> => sla.responseBreached
      /\ notice = <<"sla_breached", "resolution", sla.reopens>> => sla.resolutionBreached

\* A paused record knows since when: resume, which needs paused_at, is possible.
PausedHasStart == ~overlapped /\ sla.status = "PAUSED" => sla.pausedAt # NULL

\* A breach of the resolution time is marked only once the time has run out.
BreachIsDue == ~overlapped /\ sla.resolutionBreached => now >= sla.resolutionDue

\* A closed or cancelled ticket consumes no time: its record is finished.
TerminalStopsClock ==
  ~overlapped =>
    /\ ticket.status = "CERRADO" => sla.status = "COMPLETED"
    /\ ticket.status = "CANCELADO" => sla.status = "CANCELLED"

\* Pausing freezes consumption: until the ticket is resolved a paused record misses
\* no due date, unless staff answer for the first time during the pause, which is
\* judged by a due date that does not credit the pause yet.
PauseFreezesUnlessAnswered ==
  [][~overlapped /\ sla.status = "PAUSED" /\ sla'.status # "COMPLETED" =>
       /\ sla'.resolutionBreached = sla.resolutionBreached
       /\ sla'.responseBreached # sla.responseBreached => sla'.responded # sla.responded]_vars

============================================================================
