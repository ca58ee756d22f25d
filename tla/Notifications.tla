--------------------------- MODULE Notifications ---------------------------
(***************************************************************************)
(* The notifications of one user: the operations that announce something,  *)
(* the row and the e-mail each announcement makes, and the preferences     *)
(* that mute them.                                                         *)
(*                                                                         *)
(* create runs inside the transaction of the operation it announces. It    *)
(* looks for the dedupe key in the snapshot, inserts the row, whose key is *)
(* unique, so that a second insert waits for the first and then fails the  *)
(* whole operation, and hands the e-mail over before the COMMIT.           *)
(*                                                                         *)
(* Source: app/modules/notificaciones and                                  *)
(* app/modules/usuarios/services/user_profile_service.py.                  *)
(***************************************************************************)
EXTENDS Integers

CONSTANTS
  Keys,       \* dedupe keys: what may be announced
  Critical,   \* those about the password or the configuration, never muted
  Audited,    \* those that also write an audit row, SLA breaches included
  Requests,
  MaxMails,   \* bound on the e-mails about each key
  NULL

Notification == [read: BOOLEAN]
Preference == [in_app: BOOLEAN, email: BOOLEAN]
Fields == {"in_app", "email"}

ASSUME NotificationAssumption ==
  /\ Critical \subseteq Audited /\ Audited \subseteq Keys
  /\ MaxMails \in Nat
  /\ NULL \notin Keys /\ NULL \notin Fields
  /\ NULL \notin Notification /\ NULL \notin Preference

VARIABLES
  done,         \* the keys whose operation is committed
  rows,         \* the notification of each key, or NULL
  audits,       \* the keys of the audit rows
  preferences,  \* the row of user_preferences, or NULL
  mails,        \* how many e-mails about each key have left
  lost,         \* history: how many of them were sent by requests that failed
  req

tables == <<done, rows, audits, preferences>>
vars == <<tables, mails, lost, req>>

Defaults == [in_app |-> TRUE, email |-> TRUE]

Idle == [phase |-> "idle"]
\* key is what the request announced, stored whether it inserted the row, audited
\* whether it inserted the audit row, mailed whether it sent the e-mail; change is the
\* field of the preferences it flips, which it inserts if fresh.
Active == [phase: {"active"}, rows: [Keys -> Notification \cup {NULL}],
           audits: SUBSET Keys, preferences: Preference \cup {NULL},
           key: Keys \cup {NULL}, stored: BOOLEAN, audited: BOOLEAN, mailed: BOOLEAN,
           change: Fields \cup {NULL}, fresh: BOOLEAN]

Init ==
  /\ done = {} /\ audits = {}
  /\ rows = [k \in Keys |-> NULL]
  /\ preferences = NULL
  /\ mails = [k \in Keys |-> 0] /\ lost = [k \in Keys |-> 0]
  /\ req = [r \in Requests |-> Idle]

IsActive(r) == req[r].phase = "active"
End(r) == req' = [req EXCEPT ![r] = Idle]

\* _authenticate fixes the snapshot.
Begin(r) ==
  /\ ~IsActive(r)
  /\ req' = [req EXCEPT ![r] =
               [phase |-> "active", rows |-> rows, audits |-> audits,
                preferences |-> preferences, key |-> NULL, stored |-> FALSE,
                audited |-> FALSE, mailed |-> FALSE, change |-> NULL, fresh |-> FALSE]]
  /\ UNCHANGED <<tables, mails, lost>>

\* An error or a crash: nothing is stored, but the e-mail is gone.
Fail(r) ==
  /\ IsActive(r)
  /\ lost' = IF req[r].mailed THEN [lost EXCEPT ![req[r].key] = @ + 1] ELSE lost
  /\ End(r)
  /\ UNCHANGED <<tables, mails>>

(***************************************************************************)
(* NotificationService.create.                                             *)
(***************************************************************************)
Seen(r) == IF req[r].preferences = NULL THEN Defaults ELSE req[r].preferences

\* Mutant: whatever is muted is muted.
InAppAsPreferred(r, k) == Seen(r).in_app

AllowsInApp(r, k) == k \in Critical \/ Seen(r).in_app

AllowsExternalDelivery(r, k) == k \in Critical \/ Seen(r).email

\* Nobody inserts a key that a request in flight has inserted.
Waits(r, k, column) == \E other \in Requests \ {r} : IsActive(other) /\ req[other].key = k
                                                     /\ req[other][column]

Audits(r, k) == k \in Audited /\ k \notin req[r].audits

\* Mutant: the look-up alone keeps the keys apart.
LookupOnly(r, k) == IsActive(r)

\* Both unique keys let the inserts of k through.
CanInsert(r, k) ==
  /\ AllowsInApp(r, k) => rows[k] = NULL /\ ~Waits(r, k, "stored")
  /\ Audits(r, k) => k \notin audits /\ ~Waits(r, k, "audited")

\* Mutant: an announcement that nobody read is made again.
NotFoundUnread(r, k) == req[r].rows[k] # NULL => ~req[r].rows[k].read

NotFound(r, k) == req[r].rows[k] = NULL

FindExisting(r, k) ==
  /\ IsActive(r) /\ req[r].key = NULL
  /\ ~NotFound(r, k)
  /\ req' = [req EXCEPT ![r].key = k]
  /\ UNCHANGED <<tables, mails, lost>>

\* The provider may fail, which changes nothing else.
Create(r, k, delivered) ==
  /\ IsActive(r) /\ req[r].key = NULL
  /\ NotFound(r, k)
  /\ CanInsert(r, k)
  /\ LET mailed == delivered /\ AllowsExternalDelivery(r, k) IN
       /\ mailed => mails[k] < MaxMails
       /\ mails' = IF mailed THEN [mails EXCEPT ![k] = @ + 1] ELSE mails
       /\ req' = [req EXCEPT ![r].key = k, ![r].stored = AllowsInApp(r, k),
                             ![r].audited = Audits(r, k), ![r].mailed = mailed]
  /\ UNCHANGED <<tables, lost>>

(***************************************************************************)
(* Preferences: a row is made the first time they are looked at; a change  *)
(* announces itself.                                                       *)
(***************************************************************************)
ChangePreference(r, field) ==
  /\ IsActive(r) /\ req[r].key = NULL /\ req[r].change = NULL
  /\ req' = [req EXCEPT ![r].change = field, ![r].fresh = (req[r].preferences = NULL),
                        ![r].preferences = [Seen(r) EXCEPT ![field] = ~@]]
  /\ UNCHANGED <<tables, mails, lost>>

\* The row of a user who had none is inserted, else only the changed column is written.
ChangedPreferences(r) ==
  IF req[r].change = NULL THEN preferences
  ELSE IF req[r].fresh THEN req[r].preferences
  ELSE [preferences EXCEPT ![req[r].change] = req[r].preferences[req[r].change]]

EnsurePreferences(r) ==
  /\ IsActive(r) /\ req[r].key = NULL
  /\ req[r].preferences = NULL /\ preferences = NULL
  /\ preferences' = Defaults
  /\ End(r)
  /\ UNCHANGED <<done, rows, audits, mails, lost>>

Finished(r) == done \cup {req[r].key}

\* The operation, its row and its audit row; what the request read of itself first.
Commit(r) ==
  /\ IsActive(r) /\ req[r].key # NULL
  /\ req[r].change # NULL => req[r].key \in Critical
  /\ req[r].fresh => preferences = NULL
  /\ done' = Finished(r)
  /\ rows' = IF req[r].stored THEN [rows EXCEPT ![req[r].key] = [read |-> FALSE]] ELSE rows
  /\ audits' = IF req[r].audited THEN audits \cup {req[r].key} ELSE audits
  /\ preferences' = ChangedPreferences(r)
  /\ End(r)
  /\ UNCHANGED <<mails, lost>>

(***************************************************************************)
(* The user reads them: one, if it was unread when looked up, or all.      *)
(***************************************************************************)
MarkRead(r, k) ==
  /\ IsActive(r) /\ req[r].key = NULL /\ req[r].change = NULL
  /\ req[r].rows[k] # NULL
  /\ rows' = IF req[r].rows[k].read THEN rows ELSE [rows EXCEPT ![k].read = TRUE]
  /\ End(r)
  /\ UNCHANGED <<done, audits, preferences, mails, lost>>

MarkAllRead(r) ==
  /\ IsActive(r) /\ req[r].key = NULL /\ req[r].change = NULL
  /\ rows' = [k \in Keys |-> IF rows[k] = NULL THEN NULL ELSE [read |-> TRUE]]
  /\ End(r)
  /\ UNCHANGED <<done, audits, preferences, mails, lost>>

Next ==
  \E r \in Requests :
    \/ Begin(r) \/ Fail(r) \/ Commit(r) \/ EnsurePreferences(r) \/ MarkAllRead(r)
    \/ \E k \in Keys :
         \/ FindExisting(r, k) \/ MarkRead(r, k)
         \/ \E delivered \in BOOLEAN : Create(r, k, delivered)
    \/ \E field \in Fields : ChangePreference(r, field)

Spec == Init /\ [][Next]_vars

=============================================================================
