----------------------------- MODULE Attachments -----------------------------
(***************************************************************************)
(* The attachments of one ticket: a row in the database and a file outside *)
(* of it, written and removed by separate steps of requests that may fail  *)
(* or crash in between.                                                    *)
(*                                                                         *)
(* An upload stores the file first and inserts the row under the lock of   *)
(* the ticket, which it reads again there; the quotas are plain SELECTs,   *)
(* so they count the rows of the snapshot taken at authentication. A       *)
(* deletion reads the attachment before the lock, marks the row and        *)
(* unlinks the file after its COMMIT.                                      *)
(*                                                                         *)
(* Source: app/modules/adjuntos. Validations of names and types only       *)
(* decide whether a request is refused (Refuse, Abandon).                  *)
(***************************************************************************)
EXTENDS Integers, FiniteSets, FiniteSetsExt

CONSTANTS
  Clients, Advisors, Supervisors,  \* the users, by role
  NULL,
  Statuses,      \* the ticket statuses told apart, a subset of TicketStatus
  Requests,      \* requests that may be in flight at the same time
  Keys,          \* storage keys, one per attachment (uuid4)
  Sizes,         \* the file sizes clients send
  MaxFileSize,   \* attachment_max_file_size_bytes
  MaxFiles,      \* attachment_max_files_per_ticket
  MaxTotal,      \* attachment_max_total_size_per_ticket_bytes
  MaxDeletions   \* bound on the deletions recorded of one attachment

Rules == INSTANCE TicketRules

ASSUME AttachmentAssumption ==
  /\ Statuses \subseteq Rules!TicketStatus
  /\ IsFiniteSet(Requests) /\ Requests # {}
  /\ IsFiniteSet(Keys) /\ NULL \notin Keys
  /\ Sizes \subseteq Nat
  /\ {MaxFileSize, MaxTotal, MaxDeletions} \subseteq Nat
  /\ MaxFiles \in Nat \ {0}

VARIABLES
  ticket,     \* the committed row of the ticket
  rows,       \* the committed rows of attachments
  files,      \* keys with a complete file in the storage
  parts,      \* keys whose file is still under its temporary name
  deletions,  \* ATTACHMENT_DELETED rows of the history, per attachment
  undone,     \* uploads that failed after their COMMIT and removed the file
  leaked,     \* files whose request crashed or could not unlink them
  req         \* the requests in flight

vars == <<ticket, rows, files, parts, deletions, undone, leaked, req>>

Ticket == [status: Statuses, client: Clients, advisor: Advisors \cup {NULL}]
Attachment == [status: {"ABSENT", "ACTIVE", "DELETED"}, size: Nat]
NoAttachment == [status |-> "ABSENT", size |-> 0]

Active(table) == {k \in Keys : table[k].status = "ACTIVE"}
TotalSize(table) == MapThenSumSet(LAMBDA k : table[k].size, Active(table))

Idle == [phase |-> "idle"]
Phases == {"begun", "storing", "stored", "committed", "unlinking"}
InFlight == [phase: Phases, op: {"upload", "delete"}, actor: Rules!Actors,
             ticket: Ticket, rows: [Keys -> Attachment],
             key: Keys \cup {NULL}, size: Nat]

Init ==
  /\ ticket \in {row \in Ticket : Rules!AssignmentState(row)}
  /\ rows = [k \in Keys |-> NoAttachment]
  /\ files = {} /\ parts = {}
  /\ deletions = [k \in Keys |-> 0]
  /\ undone = {} /\ leaked = {}
  /\ req = [r \in Requests |-> Idle]

At(r, op, phase) == req[r].phase = phase /\ req[r].op = op
End(r) == req' = [req EXCEPT ![r] = Idle]
\* COMMIT expires what the request has read; it goes on with the key alone.
Commit(r, phase, key) ==
  req' = [req EXCEPT ![r] = [@ EXCEPT !.phase = phase, !.key = key, !.size = 0,
                                      !.rows = [k \in Keys |-> NoAttachment]]]

HeldKeys == {req[r].key : r \in {r \in Requests : req[r].phase # "idle"}}

\* The first SELECT of _authenticate fixes what plain SELECTs see from now on.
Begin(r, op, actor) ==
  /\ req[r].phase = "idle"
  /\ req' = [req EXCEPT ![r] = [phase |-> "begun", op |-> op, actor |-> actor,
                                ticket |-> ticket, rows |-> rows, key |-> NULL, size |-> 0]]
  /\ UNCHANGED <<ticket, rows, files, parts, deletions, undone, leaked>>

\* A refusal before anything was stored or locked.
Refuse(r) ==
  /\ req[r].phase = "begun"
  /\ End(r)
  /\ UNCHANGED <<ticket, rows, files, parts, deletions, undone, leaked>>

(***************************************************************************)
(* upload                                                                  *)
(***************************************************************************)
Accepts(row, actor) == Rules!CanView(row, actor) /\ Rules!IsOpen(row)

FreeKeys == {k \in Keys : rows[k].status = "ABSENT"} \ (files \cup parts \cup HeldKeys)

\* The checks on the ticket of the snapshot, and the temporary file.
StartStore(r, key) ==
  /\ At(r, "upload", "begun")
  /\ Accepts(req[r].ticket, req[r].actor)
  /\ key \in FreeKeys
  /\ parts' = parts \cup {key}
  /\ req' = [req EXCEPT ![r].phase = "storing", ![r].key = key]
  /\ UNCHANGED <<ticket, rows, files, deletions, undone, leaked>>

\* Mutant: the file keeps its temporary name.
NamedNever(key) == files

Named(key) == files \cup {key}

\* The whole stream was read and fits: replace gives the file its name.
FinishStore(r, size) ==
  /\ At(r, "upload", "storing")
  /\ size <= MaxFileSize
  /\ parts' = parts \ {req[r].key}
  /\ files' = Named(req[r].key)
  /\ req' = [req EXCEPT ![r].phase = "stored", ![r].size = size]
  /\ UNCHANGED <<ticket, rows, deletions, undone, leaked>>

\* Too large, or an error while writing: the temporary file is removed.
FailStore(r) ==
  /\ At(r, "upload", "storing")
  /\ parts' = parts \ {req[r].key}
  /\ End(r)
  /\ UNCHANGED <<ticket, rows, files, deletions, undone, leaked>>

WithinCount(table) == Cardinality(Active(table)) < MaxFiles

\* Mutant: the quota of the ticket forgets the file being added.
WithinTotalBefore(table, size) == TotalSize(table) <= MaxTotal

WithinTotal(table, size) == TotalSize(table) + size <= MaxTotal

\* Mutant: the checks under the lock look at the ticket read before it.
TicketRead(r) == req[r].ticket

TicketLocked(r) == ticket

\* From the lock on the ticket to the COMMIT of the row and its history.
Insert(r) ==
  /\ At(r, "upload", "stored")
  /\ req[r].size > 0
  /\ Accepts(TicketLocked(r), req[r].actor)
  /\ WithinCount(req[r].rows)
  /\ WithinTotal(req[r].rows, req[r].size)
  /\ rows' = [rows EXCEPT ![req[r].key] = [status |-> "ACTIVE", size |-> req[r].size]]
  /\ Commit(r, "committed", req[r].key)
  /\ UNCHANGED <<ticket, files, parts, deletions, undone, leaked>>

\* storage.delete, best effort: an error is swallowed and the file stays.
Unlink(key) ==
  \/ files' = files \ {key} /\ leaked' = leaked
  \/ files' = files /\ leaked' = leaked \cup {key}

\* Mutant: a failed upload forgets its file.
KeepFile(key) == files' = files /\ leaked' = leaked

CleanUp(key) == Unlink(key)

\* Any exception between the storage and the COMMIT.
Abandon(r) ==
  /\ At(r, "upload", "stored")
  /\ CleanUp(req[r].key)
  /\ End(r)
  /\ UNCHANGED <<ticket, rows, parts, deletions, undone>>

Answer(r) ==
  /\ At(r, "upload", "committed")
  /\ End(r)
  /\ UNCHANGED <<ticket, rows, files, parts, deletions, undone, leaked>>

\* The refresh fails, or the answer of the COMMIT is lost: the same except
\* clause rolls back nothing and removes the file of a committed row.
FailAfterCommit(r) ==
  /\ At(r, "upload", "committed")
  /\ CleanUp(req[r].key)
  /\ undone' = undone \cup {req[r].key}
  /\ End(r)
  /\ UNCHANGED <<ticket, rows, parts, deletions>>

(***************************************************************************)
(* delete                                                                  *)
(***************************************************************************)
Deletable(row) == row.status = "ACTIVE"

DeletedRow(row) == [row EXCEPT !.status = "DELETED"]

\* From the lock on the ticket to the COMMIT. The attachment is the object the
\* request read before the lock.
MarkDeleted(r, key) ==
  /\ At(r, "delete", "begun")
  /\ req[r].rows[key].status # "ABSENT"
  /\ Accepts(TicketLocked(r), req[r].actor)
  /\ Deletable(req[r].rows[key])
  /\ deletions[key] < MaxDeletions
  /\ rows' = [rows EXCEPT ![key] = DeletedRow(@)]
  /\ deletions' = [deletions EXCEPT ![key] = @ + 1]
  /\ Commit(r, "unlinking", key)
  /\ UNCHANGED <<ticket, files, parts, undone, leaked>>

\* After the COMMIT. An error of refresh leaves the file like one of unlink.
RemoveFile(r) ==
  /\ At(r, "delete", "unlinking")
  /\ Unlink(req[r].key)
  /\ End(r)
  /\ UNCHANGED <<ticket, rows, parts, deletions, undone>>

(***************************************************************************)
(* The rest of the world.                                                  *)
(***************************************************************************)
\* The process dies. Nothing sweeps the storage later.
Crash(r) ==
  /\ req[r].phase # "idle"
  /\ leaked' = leaked \cup ({req[r].key} \cap (files \cup parts))
  /\ End(r)
  /\ UNCHANGED <<ticket, rows, files, parts, deletions, undone>>

\* The ticket service commits a change of the ticket, under its lock.
TicketChanges ==
  /\ \E row \in Ticket :
       /\ row # ticket /\ row.client = ticket.client
       /\ Rules!AssignmentState(row)
       /\ ticket' = row
  /\ UNCHANGED <<rows, files, parts, deletions, undone, leaked, req>>

Next ==
  \/ \E r \in Requests :
       \/ \E op \in {"upload", "delete"}, actor \in Rules!Actors : Begin(r, op, actor)
       \/ Refuse(r)
       \/ \E key \in Keys : StartStore(r, key) \/ MarkDeleted(r, key)
       \/ \E size \in Sizes : FinishStore(r, size)
       \/ FailStore(r) \/ Insert(r) \/ Abandon(r) \/ Answer(r) \/ FailAfterCommit(r)
       \/ RemoveFile(r) \/ Crash(r)
  \/ TicketChanges

Spec == Init /\ [][Next]_vars

==============================================================================
