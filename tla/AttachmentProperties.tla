------------------------ MODULE AttachmentProperties ------------------------
(***************************************************************************)
(* What the attachments of a ticket must get right.                        *)
(***************************************************************************)
EXTENDS Attachments

\* Every variable keeps its type.
TypeOK ==
  /\ ticket \in Ticket
  /\ rows \in [Keys -> Attachment]
  /\ files \subseteq Keys /\ parts \subseteq Keys
  /\ deletions \in [Keys -> Nat]
  /\ undone \subseteq Keys /\ leaked \subseteq Keys
  /\ req \in [Requests -> InFlight \cup {Idle}]

\* An attachment that can be listed can be downloaded: whatever fails or
\* crashes, an ACTIVE row has its complete file, unless the upload failed after
\* its COMMIT and cleaned up behind it.
ActiveRowHasFile == \A k \in Active(rows) \ undone : k \in files

\* No file is forgotten: each belongs to an ACTIVE row or to a request still at
\* work, unless that request crashed or could not unlink it.
FilesAreAccountedFor ==
  \A k \in (files \cup parts) \ leaked : rows[k].status = "ACTIVE" \/ k \in HeldKeys

\* The limit on the number of files is passed by no more than the other requests
\* in flight, however uploads and deletions overlap: the count comes from the
\* snapshot.
CountSlack == Cardinality(Active(rows)) <= MaxFiles + Cardinality(Requests) - 1

\* The quota of bytes is passed no further than to one quota per request in
\* flight: each adds at most what its snapshot left free.
TotalSlack == TotalSize(rows) <= Cardinality(Requests) * MaxTotal

\* Both quotas of a ticket, neither of which is checked against the present rows.
QuotaSlack == CountSlack /\ TotalSlack

\* Deletions of one attachment that overlap each write their row of the history,
\* but no more than the requests in flight: later ones find it DELETED.
RepeatedDeletions == \A k \in Keys : deletions[k] <= Cardinality(Requests)

\* Nothing is attached to or removed from a closed or cancelled ticket: a close
\* that commits meanwhile comes before or after the attachment, never in between
\* (README: cargas y eliminaciones se bloquean).
TerminalKeepsAttachments == [][rows' # rows => Rules!IsOpen(ticket)]_vars

=============================================================================
