--------------------------- MODULE TicketWorkflow --------------------------
(***************************************************************************)
(* What the ticket service promises its users, with no transactions: every *)
(* operation acts at once on the ticket as it is, moves it along the       *)
(* transition table or changes its advisor, and counts one version. A      *)
(* ticket that is CERRADO or CANCELADO never changes again.                *)
(***************************************************************************)
EXTENDS TicketRules

CONSTANT Tickets

VARIABLE board   \* status, advisor and version of each ticket

Card(row) == [status |-> row.status, advisor |-> row.advisor, version |-> row.version]

Init == board = [t \in Tickets |-> Card(NoRow)]

\* A client files the ticket.
File(t) ==
  /\ board[t].status = "ABSENT"
  /\ board' = [board EXCEPT ![t] = [status |-> "NUEVO", advisor |-> NULL, version |-> 1]]

\* Every other operation is a write of one version on a ticket that is not terminal.
Write(t, status, advisor) ==
  /\ board[t].status \notin Terminal \cup {"ABSENT"}
  /\ board' = [board EXCEPT ![t] = [status |-> status, advisor |-> advisor,
                                    version |-> board[t].version + 1]]

\* A supervisor assigns the ticket, or an advisor takes it.
Hand(t, advisor) ==
  /\ board[t].advisor # advisor
  /\ Write(t, IF board[t].status = "NUEVO" THEN "ASIGNADO" ELSE board[t].status, advisor)

GiveBack(t) ==
  /\ board[t].advisor # NULL
  /\ Write(t, "NUEVO", NULL)

Move(t, new) ==
  /\ new \in AllowedTransitions(board[t].status)
  /\ new \in RequiresAssignedAdvisor => board[t].advisor # NULL
  /\ Write(t, new, board[t].advisor)

Comment(t) == Write(t, board[t].status, board[t].advisor)

Next ==
  \E t \in Tickets :
    \/ File(t)
    \/ \E advisor \in Advisors : Hand(t, advisor)
    \/ GiveBack(t)
    \/ \E new \in TicketStatus : Move(t, new)
    \/ Comment(t)

Spec == Init /\ [][Next]_board

============================================================================
