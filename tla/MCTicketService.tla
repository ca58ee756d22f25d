-------------------------- MODULE MCTicketService --------------------------
EXTENDS TicketProperties, TLC

Symmetry == Permutations(Advisors) \cup Permutations(Requests)

AllButReopen == AllEndpoints \ {"reopen"}
============================================================================
