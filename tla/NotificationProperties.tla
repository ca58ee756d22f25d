----------------------- MODULE NotificationProperties -----------------------
(***************************************************************************)
(* What notifications promise.                                             *)
(***************************************************************************)
EXTENDS Notifications

\* Every variable keeps its type.
TypeOK ==
  /\ done \subseteq Keys /\ audits \subseteq Keys
  /\ rows \in [Keys -> Notification \cup {NULL}]
  /\ preferences \in Preference \cup {NULL}
  /\ mails \in [Keys -> 0 .. MaxMails] /\ lost \in [Keys -> Nat]
  /\ req \in [Requests -> {Idle} \cup Active]

\* A row is there only if what it announces happened.
StoredOnlyIfDone == \A k \in Keys : rows[k] # NULL => k \in done

\* What may not be muted has its row once it happened, however often it was tried and
\* whatever the user mutes meanwhile.
CriticalIsStored == \A k \in Critical : k \in done => rows[k] # NULL

\* And its audit row, muted or not.
AuditFollows == \A k \in Audited : k \in done <=> k \in audits

\* Of the e-mails about a critical event, at most one is not about a failed attempt.
CriticalMailedOnce == \A k \in Critical : mails[k] <= lost[k] + 1

\* No e-mail leaves about something whose row is committed, unless the request had
\* the notices muted and overlapped the one that stored the row.
NoMailOverRow ==
  [][\A k \in Keys : mails'[k] > mails[k] /\ rows[k] # NULL =>
       \E r \in Requests : /\ req'[r] # req[r]
                           /\ ~Seen(r).in_app /\ req[r].rows[k] = NULL]_vars

=============================================================================
