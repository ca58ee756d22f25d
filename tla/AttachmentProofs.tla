-------------------------- MODULE AttachmentProofs --------------------------
(***************************************************************************)
(* Theorems about Attachments, for any users, requests, keys and quotas.   *)
(***************************************************************************)
EXTENDS AttachmentProperties, FiniteSetTheorems, WellFoundedInduction, TLAPS

(***************************************************************************)
(* What each step does to the requests: only one changes, to a state that  *)
(* is known.                                                               *)
(***************************************************************************)
Others(r) == \A q \in Requests : q # r => req'[q] = req[q]

LEMMA Flight ==
  ASSUME TypeOK, NEW r \in Requests, req[r].phase # "idle"
  PROVE  req[r] \in InFlight
BY DEF TypeOK, Idle

LEMMA Typed ==
  ASSUME TypeOK, NEW r \in Requests, Others(r), req'[r] \in InFlight \cup {Idle},
         DOMAIN req' = Requests, req' = [q \in Requests |-> req'[q]]
  PROVE  req' \in [Requests -> InFlight \cup {Idle}]
BY DEF TypeOK, Others

LEMMA EndGoes ==
  ASSUME TypeOK, NEW r \in Requests, End(r)
  PROVE  Others(r) /\ req'[r] = Idle /\ req' \in [Requests -> InFlight \cup {Idle}]
BY DEF TypeOK, End, Others

LEMMA BeginGoes ==
  ASSUME TypeOK, NEW r \in Requests, NEW op \in {"upload", "delete"},
         NEW actor \in Rules!Actors, Begin(r, op, actor)
  PROVE  /\ Others(r) /\ req' \in [Requests -> InFlight \cup {Idle}]
         /\ req'[r] = [phase |-> "begun", op |-> op, actor |-> actor,
                       ticket |-> ticket, rows |-> rows, key |-> NULL, size |-> 0]
BY DEF TypeOK, Begin, Others, InFlight, Phases

LEMMA StoreGoes ==
  ASSUME TypeOK, NEW r \in Requests, NEW key \in Keys, StartStore(r, key)
  PROVE  /\ Others(r) /\ req' \in [Requests -> InFlight \cup {Idle}]
         /\ req'[r].phase = "storing" /\ req'[r].key = key
         /\ req'[r].op = "upload" /\ req'[r].rows = req[r].rows
<1>1. req[r] \in InFlight BY Flight DEF StartStore, At
<1>2. [req[r] EXCEPT !.phase = "storing", !.key = key] \in InFlight
  BY <1>1 DEF InFlight, Phases
<1>3. req' = [req EXCEPT ![r] = [req[r] EXCEPT !.phase = "storing", !.key = key]]
  BY DEF StartStore, TypeOK
<1>4. Others(r) /\ req' \in [Requests -> InFlight \cup {Idle}] BY <1>2, <1>3 DEF TypeOK, Others
<1>5. req'[r] = [req[r] EXCEPT !.phase = "storing", !.key = key] BY <1>3 DEF TypeOK
<1>6. req[r].op = "upload" BY DEF StartStore, At
<1> QED BY <1>1, <1>4, <1>5, <1>6 DEF InFlight

LEMMA StoredGoes ==
  ASSUME TypeOK, NEW r \in Requests, NEW size \in Sizes, FinishStore(r, size)
  PROVE  /\ Others(r) /\ req' \in [Requests -> InFlight \cup {Idle}]
         /\ req'[r].phase = "stored" /\ req'[r].key = req[r].key
         /\ req'[r].op = "upload" /\ req'[r].rows = req[r].rows
<1>1. req[r] \in InFlight BY Flight DEF FinishStore, At
<1>2. [req[r] EXCEPT !.phase = "stored", !.size = size] \in InFlight
  BY <1>1, AttachmentAssumption DEF InFlight, Phases
<1>3. req' = [req EXCEPT ![r] = [req[r] EXCEPT !.phase = "stored", !.size = size]]
  BY DEF FinishStore, TypeOK
<1>4. Others(r) /\ req' \in [Requests -> InFlight \cup {Idle}] BY <1>2, <1>3 DEF TypeOK, Others
<1>5. req'[r] = [req[r] EXCEPT !.phase = "stored", !.size = size] BY <1>3 DEF TypeOK
<1>6. req[r].op = "upload" BY DEF FinishStore, At
<1> QED BY <1>1, <1>4, <1>5, <1>6 DEF InFlight

LEMMA CommitGoes ==
  ASSUME TypeOK, NEW r \in Requests, NEW phase \in {"committed", "unlinking"},
         NEW key \in Keys, req[r] \in InFlight, Commit(r, phase, key)
  PROVE  /\ Others(r) /\ req' \in [Requests -> InFlight \cup {Idle}]
         /\ req'[r].phase = phase /\ req'[r].key = key /\ req'[r].op = req[r].op
         /\ req'[r].rows = [k \in Keys |-> NoAttachment]
<1> DEFINE state == [req[r] EXCEPT !.phase = phase, !.key = key, !.size = 0,
                                   !.rows = [k \in Keys |-> NoAttachment]]
<1>1. [k \in Keys |-> NoAttachment] \in [Keys -> Attachment]
  BY DEF NoAttachment, Attachment
<1>2. state \in InFlight BY <1>1 DEF InFlight, Phases
<1>3. req' = [req EXCEPT ![r] = state] BY DEF Commit, TypeOK
<1> HIDE DEF state
<1>4. Others(r) /\ req' \in [Requests -> InFlight \cup {Idle}] /\ req'[r] = state
  BY <1>2, <1>3 DEF TypeOK, Others
<1>5. /\ state.phase = phase /\ state.key = key /\ state.op = req[r].op
      /\ state.rows = [k \in Keys |-> NoAttachment]
  BY DEF state, InFlight
<1> QED BY <1>4, <1>5

(***************************************************************************)
(* Types.                                                                  *)
(***************************************************************************)
\* Only the key of a request that has begun to store or commit is a key.
KeyIsSet == \A r \in Requests : req[r].phase \notin {"idle", "begun"} => req[r].key \in Keys

LEMMA TypeStep ==
  ASSUME TypeOK, KeyIsSet, [Next]_vars
  PROVE  TypeOK' /\ KeyIsSet'
<1>1. CASE UNCHANGED vars BY <1>1 DEF vars, TypeOK, KeyIsSet
<1>2. ASSUME NEW r \in Requests, End(r), UNCHANGED <<ticket, rows, deletions>>,
             files' \subseteq files, parts' \subseteq parts,
             undone' \subseteq Keys, leaked' \subseteq Keys
      PROVE  TypeOK' /\ KeyIsSet'
  <2>1. TypeOK' BY <1>2, EndGoes DEF TypeOK
  <2>2. KeyIsSet' BY <1>2, EndGoes DEF KeyIsSet, Others, Idle
  <2> QED BY <2>1, <2>2
<1>3. ASSUME NEW r \in Requests, NEW op \in {"upload", "delete"},
             NEW actor \in Rules!Actors, Begin(r, op, actor)
      PROVE  TypeOK' /\ KeyIsSet'
  BY <1>3, BeginGoes DEF TypeOK, KeyIsSet, Begin, Others
<1>4. ASSUME NEW r \in Requests,
             Refuse(r) \/ FailStore(r) \/ Abandon(r) \/ Answer(r) \/ FailAfterCommit(r)
             \/ RemoveFile(r) \/ Crash(r)
      PROVE  TypeOK' /\ KeyIsSet'
  <2>1. End(r) /\ UNCHANGED <<ticket, rows, deletions>>
    BY <1>4 DEF Refuse, FailStore, Abandon, Answer, FailAfterCommit, RemoveFile, Crash
  <2>2. ~ Refuse(r) /\ ~ Crash(r) => req[r].key \in Keys
    BY <1>4 DEF KeyIsSet, At, FailStore, Abandon, Answer, FailAfterCommit, RemoveFile
  <2>3. files' \subseteq files /\ parts' \subseteq parts
    BY <1>4 DEF Refuse, FailStore, Abandon, Answer, FailAfterCommit, RemoveFile, Crash,
         CleanUp, Unlink
  <2>4. undone' \subseteq Keys /\ leaked' \subseteq Keys
    BY <1>4, <2>2 DEF TypeOK, Refuse, FailStore, Abandon, Answer, FailAfterCommit,
         RemoveFile, Crash, CleanUp, Unlink
  <2> QED BY <1>2, <2>1, <2>3, <2>4
<1>5. ASSUME NEW r \in Requests, NEW key \in Keys, StartStore(r, key)
      PROVE  TypeOK' /\ KeyIsSet'
  <2>1. TypeOK' BY <1>5, StoreGoes DEF TypeOK, StartStore
  <2>2. KeyIsSet' BY <1>5, StoreGoes DEF KeyIsSet, Others
  <2> QED BY <2>1, <2>2
<1>6. ASSUME NEW r \in Requests, NEW size \in Sizes, FinishStore(r, size)
      PROVE  TypeOK' /\ KeyIsSet'
  <2>1. req[r].key \in Keys BY <1>6 DEF KeyIsSet, FinishStore, At
  <2>2. TypeOK' BY <1>6, <2>1, StoredGoes DEF TypeOK, FinishStore, Named
  <2>3. KeyIsSet' BY <1>6, <2>1, StoredGoes DEF KeyIsSet, Others
  <2> QED BY <2>2, <2>3
<1>7. ASSUME NEW r \in Requests, Insert(r) PROVE TypeOK' /\ KeyIsSet'
  <2>1. req[r].key \in Keys /\ req[r] \in InFlight
    BY <1>7, Flight DEF KeyIsSet, Insert, At
  <2>2. Commit(r, "committed", req[r].key) BY <1>7 DEF Insert
  <2>4. [status |-> "ACTIVE", size |-> req[r].size] \in Attachment
    BY <2>1 DEF InFlight, Attachment
  <2>5. rows' \in [Keys -> Attachment] BY <1>7, <2>1, <2>4 DEF Insert, TypeOK
  <2>6. TypeOK' BY <1>7, <2>1, <2>2, <2>5, CommitGoes DEF TypeOK, Insert
  <2>7. KeyIsSet' BY <2>1, <2>2, CommitGoes DEF KeyIsSet, Others
  <2> QED BY <2>6, <2>7
<1>8. ASSUME NEW r \in Requests, NEW key \in Keys, MarkDeleted(r, key)
      PROVE  TypeOK' /\ KeyIsSet'
  <2>1. req[r] \in InFlight BY <1>8, Flight DEF MarkDeleted, At
  <2>2. Commit(r, "unlinking", key) BY <1>8 DEF MarkDeleted
  <2>3. DeletedRow(rows[key]) \in Attachment BY DEF DeletedRow, TypeOK, Attachment
  <2>4. deletions' \in [Keys -> Nat] BY <1>8 DEF MarkDeleted, TypeOK
  <2>5. rows' \in [Keys -> Attachment] BY <1>8, <2>3 DEF MarkDeleted, TypeOK
  <2>6. TypeOK' BY <1>8, <2>1, <2>2, <2>4, <2>5, CommitGoes DEF TypeOK, MarkDeleted
  <2>7. KeyIsSet' BY <2>1, <2>2, CommitGoes DEF KeyIsSet, Others
  <2> QED BY <2>6, <2>7
<1>9. CASE TicketChanges BY <1>9 DEF TicketChanges, TypeOK, KeyIsSet
<1> QED BY <1>1, <1>3, <1>4, <1>5, <1>6, <1>7, <1>8, <1>9 DEF Next

LEMMA TypeInit == Init => TypeOK /\ KeyIsSet
BY DEF Init, TypeOK, KeyIsSet, Idle, NoAttachment, Attachment

\* Every variable keeps its type.
THEOREM TypeCorrect == Spec => []TypeOK
BY TypeInit, TypeStep, PTL DEF Spec

(***************************************************************************)
(* Files. A file that is being written has no row yet; a stored one neither*)
(* until Insert; what is unlinked after a COMMIT is DELETED; two uploads   *)
(* never share a key. A snapshot may be old, but never ahead of the table. *)
(***************************************************************************)
AtStore(r)   == req[r].phase \in {"storing", "stored"}
Working(r)   == req[r].phase \in {"storing", "stored", "unlinking"}
PartsApart   == \A k \in parts : k \notin files /\ rows[k].status = "ABSENT"
StoringFile  == \A r \in Requests : req[r].phase = "storing" => req[r].key \in parts
StoredFile   == \A r \in Requests : req[r].phase = "stored" =>
                  req[r].key \in files /\ rows[req[r].key].status = "ABSENT"
CommittedRow == \A r \in Requests : req[r].phase = "committed" =>
                  rows[req[r].key].status # "ABSENT"
UnlinkedRow  == \A r \in Requests : req[r].phase = "unlinking" =>
                  rows[req[r].key].status = "DELETED"
OwnKeys      == \A r, q \in Requests :
                  AtStore(r) /\ AtStore(q) /\ r # q => req[r].key # req[q].key
SnapshotPast == \A r \in Requests : req[r].phase # "idle" =>
                  \A k \in Keys : req[r].rows[k].status # "ABSENT" => rows[k].status # "ABSENT"
Accounted    == \A k \in (files \cup parts) \ leaked :
                  rows[k].status = "ACTIVE" \/ \E r \in Requests : Working(r) /\ req[r].key = k

FileInv ==
  /\ PartsApart /\ StoringFile /\ StoredFile /\ CommittedRow /\ UnlinkedRow
  /\ OwnKeys /\ SnapshotPast /\ ActiveRowHasFile /\ Accounted

LEMMA FileInit == Init => FileInv
BY DEF Init, FileInv, PartsApart, StoringFile, StoredFile, CommittedRow, UnlinkedRow, OwnKeys,
   AtStore, SnapshotPast, ActiveRowHasFile, Accounted, Active, Idle, NoAttachment

\* A request ends whose file, if it still held one, is gone or recorded as leaked.
LEMMA FileEnd ==
  ASSUME TypeOK, KeyIsSet, FileInv, NEW r \in Requests, End(r), rows' = rows,
         files' \subseteq files, parts' \subseteq parts,
         \A k \in files \ files' : req[r].phase \notin {"idle", "begun"} /\ req[r].key = k
                                   /\ (rows[k].status = "ACTIVE" => k \in undone'),
         \A k \in parts \ parts' : AtStore(r) /\ req[r].key = k,
         undone \subseteq undone', leaked \subseteq leaked',
         Working(r) => req[r].key \in leaked' \/ req[r].key \notin files' \cup parts'
  PROVE  FileInv'
<1>1. Others(r) /\ req'[r].phase = "idle" BY EndGoes DEF Idle
<1>2. \A q \in Requests : req'[q].phase # "idle" => q # r /\ req'[q] = req[q]
  BY <1>1 DEF Others
<1>3. PartsApart' BY DEF FileInv, PartsApart
<1>4. StoringFile' BY <1>2 DEF FileInv, StoringFile, OwnKeys, AtStore
<1>5. StoredFile'
  <2> SUFFICES ASSUME NEW q \in Requests, req'[q].phase = "stored"
               PROVE  req'[q].key \in files' /\ rows'[req'[q].key].status = "ABSENT"
    BY DEF StoredFile
  <2>1. q # r /\ req'[q] = req[q] BY <1>2
  <2>2. req[q].key \in files /\ rows[req[q].key].status = "ABSENT"
    BY <2>1 DEF FileInv, StoredFile
  <2>3. req[q].key \notin files' =>
          /\ req[r].phase \notin {"idle", "begun"} /\ req[r].key = req[q].key
    BY <2>2
  <2>4. ASSUME req[q].key \notin files' PROVE FALSE
    <3>1. CASE AtStore(r) BY <2>1, <2>3, <2>4, <3>1 DEF FileInv, OwnKeys, AtStore
    <3>2. CASE req[r].phase = "committed" BY <2>2, <2>3, <2>4, <3>2 DEF FileInv, CommittedRow
    <3>3. CASE req[r].phase = "unlinking" BY <2>2, <2>3, <2>4, <3>3 DEF FileInv, UnlinkedRow
    <3> QED BY <2>3, <2>4, <3>1, <3>2, <3>3, Flight DEF AtStore, InFlight, Phases
  <2> QED BY <2>1, <2>2, <2>4
<1>6. CommittedRow' /\ UnlinkedRow' BY <1>2 DEF FileInv, CommittedRow, UnlinkedRow
<1>7. OwnKeys' BY <1>2 DEF FileInv, OwnKeys, AtStore
<1>8. SnapshotPast' BY <1>2 DEF FileInv, SnapshotPast
<1>9. ActiveRowHasFile' BY DEF FileInv, ActiveRowHasFile, Active
<1>10. Accounted'
  <2> SUFFICES ASSUME NEW k \in (files' \cup parts') \ leaked', rows[k].status # "ACTIVE"
               PROVE  \E q \in Requests : Working(q)' /\ req'[q].key = k
    BY DEF Accounted
  <2>1. PICK q \in Requests : Working(q) /\ req[q].key = k BY DEF FileInv, Accounted
  <2>2. q # r BY <2>1
  <2> QED BY <1>1, <2>1, <2>2 DEF Working, Others
<1> QED BY <1>3, <1>4, <1>5, <1>6, <1>7, <1>8, <1>9, <1>10 DEF FileInv

LEMMA FileStep ==
  ASSUME TypeOK, KeyIsSet, FileInv, [Next]_vars
  PROVE  FileInv'
<1> USE DEF FileInv
<1>1. CASE UNCHANGED vars
  BY <1>1 DEF vars, PartsApart, StoringFile, StoredFile, CommittedRow, UnlinkedRow,
     OwnKeys, AtStore, SnapshotPast, ActiveRowHasFile, Active, Accounted, Working
<1>2. ASSUME NEW r \in Requests, NEW op \in {"upload", "delete"},
             NEW actor \in Rules!Actors, Begin(r, op, actor)
      PROVE  FileInv'
  <2>1. /\ Others(r) /\ UNCHANGED <<rows, files, parts, undone, leaked>>
        /\ req[r].phase = "idle" /\ req'[r].phase = "begun" /\ req'[r].rows = rows
    BY <1>2, BeginGoes DEF Begin
  <2>2. PartsApart' /\ StoringFile' /\ StoredFile' /\ CommittedRow' /\ UnlinkedRow'
    BY <2>1 DEF Others, PartsApart, StoringFile, StoredFile, CommittedRow, UnlinkedRow
  <2>3. OwnKeys' BY <2>1 DEF Others, OwnKeys, AtStore
  <2>4. SnapshotPast' BY <2>1 DEF Others, SnapshotPast
  <2>5. ActiveRowHasFile' BY <2>1 DEF ActiveRowHasFile, Active
  <2>6. Accounted' BY <2>1 DEF Others, Accounted, Working
  <2> QED BY <2>2, <2>3, <2>4, <2>5, <2>6
<1>3. ASSUME NEW r \in Requests, Refuse(r) \/ Answer(r) \/ Crash(r) PROVE FileInv'
  <2>1. End(r) /\ UNCHANGED <<rows, files, parts, undone>>
    BY <1>3 DEF Refuse, Answer, Crash
  <2>2. leaked \subseteq leaked' BY <1>3 DEF Refuse, Answer, Crash
  <2>3. Working(r) => req[r].key \in leaked' \/ req[r].key \notin files' \cup parts'
    BY <1>3, <2>1 DEF Refuse, Answer, Crash, At, Working
  <2> QED BY <2>1, <2>2, <2>3, FileEnd
<1>4. ASSUME NEW r \in Requests, FailStore(r) PROVE FileInv'
  <2>1. /\ End(r) /\ UNCHANGED <<rows, files, undone, leaked>>
        /\ parts' = parts \ {req[r].key} /\ req[r].phase = "storing"
    BY <1>4 DEF FailStore, At
  <2>2. req[r].key \notin files BY <2>1 DEF StoringFile, PartsApart
  <2> QED BY <2>1, <2>2, FileEnd DEF AtStore
<1>5. ASSUME NEW r \in Requests, Unlink(req[r].key), End(r), UNCHANGED <<rows, parts>>,
             req[r].phase \notin {"idle", "begun", "storing"}, undone \subseteq undone',
             rows[req[r].key].status = "ACTIVE" => req[r].key \in undone'
      PROVE  FileInv'
  <2>1. files' \subseteq files /\ leaked \subseteq leaked' /\ \A k \in files \ files' : k = req[r].key
    BY <1>5 DEF Unlink
  <2>2. req[r].key \in leaked' \/ req[r].key \notin files' BY <1>5 DEF Unlink
  <2>3. Working(r) => req[r].key \notin parts
    BY <1>5 DEF Working, PartsApart, StoredFile, UnlinkedRow
  <2> QED BY <1>5, <2>1, <2>2, <2>3, FileEnd
<1>6. ASSUME NEW r \in Requests, Abandon(r) \/ FailAfterCommit(r) \/ RemoveFile(r)
      PROVE  FileInv'
  <2>1. Unlink(req[r].key) /\ End(r) /\ UNCHANGED <<rows, parts>> /\ undone \subseteq undone'
    BY <1>6 DEF Abandon, FailAfterCommit, RemoveFile, CleanUp
  <2>2. req[r].phase \in {"stored", "committed", "unlinking"}
    BY <1>6 DEF Abandon, FailAfterCommit, RemoveFile, At
  <2>3. rows[req[r].key].status = "ACTIVE" => req[r].key \in undone'
    BY <1>6 DEF Abandon, FailAfterCommit, RemoveFile, At, StoredFile, UnlinkedRow
  <2> QED BY <1>5, <2>1, <2>2, <2>3
<1>7. ASSUME NEW r \in Requests, NEW key \in Keys, StartStore(r, key) PROVE FileInv'
  <2>1. /\ Others(r) /\ req'[r].phase = "storing" /\ req'[r].key = key
        /\ req'[r].rows = req[r].rows /\ req[r].phase = "begun"
        /\ UNCHANGED <<rows, files, undone, leaked>> /\ parts' = parts \cup {key}
    BY <1>7, StoreGoes DEF StartStore, At
  <2>2. /\ rows[key].status = "ABSENT" /\ key \notin files \cup parts
        /\ \A q \in Requests : req[q].phase # "idle" => req[q].key # key
    BY <1>7 DEF StartStore, FreeKeys, HeldKeys
  <2>3. PartsApart' BY <2>1, <2>2 DEF PartsApart
  <2>4. StoringFile' /\ StoredFile' BY <2>1 DEF StoringFile, StoredFile, Others
  <2>5. CommittedRow' /\ UnlinkedRow' BY <2>1 DEF CommittedRow, UnlinkedRow, Others
  <2>6. OwnKeys' BY <2>1, <2>2 DEF OwnKeys, AtStore, Others
  <2>7. SnapshotPast' BY <2>1 DEF SnapshotPast, Others
  <2>8. ActiveRowHasFile' BY <2>1 DEF ActiveRowHasFile, Active
  <2>9. Accounted' BY <2>1 DEF Accounted, Working, Others
  <2> QED BY <2>3, <2>4, <2>5, <2>6, <2>7, <2>8, <2>9
<1>8. ASSUME NEW r \in Requests, NEW size \in Sizes, FinishStore(r, size) PROVE FileInv'
  <2> DEFINE key == req[r].key
  <2>1. /\ Others(r) /\ req'[r].phase = "stored" /\ req'[r].key = key
        /\ req'[r].rows = req[r].rows /\ req[r].phase = "storing"
        /\ UNCHANGED <<rows, undone, leaked>>
        /\ parts' = parts \ {key} /\ files' = files \cup {key}
    BY <1>8, StoredGoes DEF FinishStore, At, Named
  <2>2. key \in parts /\ key \notin files /\ rows[key].status = "ABSENT"
    BY <2>1 DEF StoringFile, PartsApart
  <2>3. PartsApart' BY <2>1 DEF PartsApart
  <2>4. StoringFile' BY <2>1 DEF StoringFile, OwnKeys, AtStore, Others
  <2>5. StoredFile' BY <2>1, <2>2 DEF StoredFile, Others
  <2>6. CommittedRow' /\ UnlinkedRow' BY <2>1 DEF CommittedRow, UnlinkedRow, Others
  <2>7. OwnKeys' BY <2>1 DEF OwnKeys, AtStore, Others
  <2>8. SnapshotPast' BY <2>1 DEF SnapshotPast, Others
  <2>9. ActiveRowHasFile' BY <2>1 DEF ActiveRowHasFile, Active
  <2>10. Accounted' BY <2>1 DEF Accounted, Working, Others
  <2> QED BY <2>3, <2>4, <2>5, <2>6, <2>7, <2>8, <2>9, <2>10
<1>9. ASSUME NEW r \in Requests, Insert(r) PROVE FileInv'
  <2> DEFINE key == req[r].key
  <2>1. req[r].phase = "stored" /\ key \in Keys /\ req[r] \in InFlight
    BY <1>9, Flight DEF Insert, At, KeyIsSet
  <2>2. /\ Others(r) /\ req'[r].phase = "committed" /\ req'[r].key = key
        /\ req'[r].rows = [k \in Keys |-> NoAttachment]
    BY <1>9, <2>1, CommitGoes DEF Insert
  <2>3. /\ rows'[key].status = "ACTIVE" /\ \A k \in Keys : k # key => rows'[k] = rows[k]
        /\ UNCHANGED <<files, parts, undone, leaked>>
    BY <1>9, <2>1 DEF Insert, TypeOK
  <2>4. key \in files /\ rows[key].status = "ABSENT" /\ key \notin parts
    BY <2>1 DEF StoredFile, PartsApart
  <2> HIDE DEF key
  <2>5. PartsApart' BY <2>3, <2>4 DEF PartsApart, TypeOK
  <2>6. StoringFile' BY <2>2, <2>3 DEF StoringFile, Others
  <2>7. \A q \in Requests : q # r /\ AtStore(q) => req[q].key # key
    BY <2>1 DEF OwnKeys, AtStore, key
  <2>8. StoredFile'
    BY <2>2, <2>3, <2>7 DEF StoredFile, Others, AtStore, TypeOK
  <2>9. CommittedRow'
    BY <2>2, <2>3 DEF CommittedRow, Others, KeyIsSet
  <2>10. UnlinkedRow'
    BY <2>2, <2>3, <2>4 DEF UnlinkedRow, Others, KeyIsSet
  <2>11. OwnKeys' BY <2>2 DEF OwnKeys, AtStore, Others
  <2>12. SnapshotPast' BY <2>2, <2>3 DEF SnapshotPast, Others, NoAttachment
  <2>13. ActiveRowHasFile' BY <2>3, <2>4 DEF ActiveRowHasFile, Active
  <2>14. \A k \in (files' \cup parts') \ leaked' : k \in Keys BY <2>3 DEF TypeOK
  <2>15. Accounted'
    BY <2>1, <2>2, <2>3, <2>14 DEF Accounted, Working, Others, key
  <2> QED BY <2>5, <2>6, <2>8, <2>9, <2>10, <2>11, <2>12, <2>13, <2>15
<1>10. ASSUME NEW r \in Requests, NEW key \in Keys, MarkDeleted(r, key) PROVE FileInv'
  <2>1. req[r].phase = "begun" /\ req[r] \in InFlight
    BY <1>10, Flight DEF MarkDeleted, At
  <2>2. /\ Others(r) /\ req'[r].phase = "unlinking" /\ req'[r].key = key
        /\ req'[r].rows = [k \in Keys |-> NoAttachment]
    BY <1>10, <2>1, CommitGoes DEF MarkDeleted
  <2>3. /\ rows'[key].status = "DELETED" /\ \A k \in Keys : k # key => rows'[k] = rows[k]
        /\ UNCHANGED <<files, parts, undone, leaked>>
    BY <1>10 DEF MarkDeleted, DeletedRow, TypeOK, Attachment
  <2>4. rows[key].status # "ABSENT" BY <1>10, <2>1 DEF MarkDeleted, SnapshotPast
  <2>5. PartsApart' BY <2>3, <2>4 DEF PartsApart, TypeOK
  <2>6. StoringFile' BY <2>2, <2>3 DEF StoringFile, Others
  <2>7. StoredFile' BY <2>2, <2>3, <2>4 DEF StoredFile, Others, KeyIsSet
  <2>8. CommittedRow' BY <2>2, <2>3 DEF CommittedRow, Others, KeyIsSet
  <2>9. UnlinkedRow' BY <2>2, <2>3 DEF UnlinkedRow, Others, KeyIsSet
  <2>10. OwnKeys' BY <2>2 DEF OwnKeys, AtStore, Others
  <2>11. SnapshotPast' BY <2>2, <2>3 DEF SnapshotPast, Others, NoAttachment
  <2>12. ActiveRowHasFile' BY <2>3 DEF ActiveRowHasFile, Active
  <2>13. \A k \in (files' \cup parts') \ leaked' : k \in Keys BY <2>3 DEF TypeOK
  <2>14. Accounted'
    BY <2>1, <2>2, <2>3, <2>13 DEF Accounted, Working, Others
  <2> QED BY <2>5, <2>6, <2>7, <2>8, <2>9, <2>10, <2>11, <2>12, <2>14
<1>11. CASE TicketChanges
  BY <1>11 DEF TicketChanges, PartsApart, StoringFile, StoredFile, CommittedRow, UnlinkedRow,
     OwnKeys, AtStore, SnapshotPast, ActiveRowHasFile, Active, Accounted, Working
<1> QED BY <1>1, <1>2, <1>3, <1>4, <1>6, <1>7, <1>8, <1>9, <1>10, <1>11 DEF Next

LEMMA FilesSafe == Spec => [](TypeOK /\ KeyIsSet /\ FileInv)
BY TypeInit, FileInit, TypeStep, FileStep, PTL DEF Spec

\* An ACTIVE row has its complete file, unless the upload failed after its COMMIT.
THEOREM RowsHaveFiles == Spec => []ActiveRowHasFile
BY FilesSafe, PTL DEF FileInv

\* No file is forgotten that a crash or a failed unlink did not leave behind.
THEOREM FilesAccounted == Spec => []FilesAreAccountedFor
<1>1. FileInv => FilesAreAccountedFor
  BY DEF FileInv, Accounted, FilesAreAccountedFor, HeldKeys, Working
<1> QED BY <1>1, FilesSafe, PTL

\* Nothing is attached to or removed from a ticket that is closed or cancelled.
THEOREM TerminalKeeps == Spec => TerminalKeepsAttachments
<1>1. [Next]_vars => [rows' # rows => Rules!IsOpen(ticket)]_vars
  BY DEF Next, vars, Begin, Refuse, StartStore, MarkDeleted, FinishStore, FailStore, Insert,
     Abandon, Answer, FailAfterCommit, RemoveFile, Crash, TicketChanges, Accepts, TicketLocked
<1> QED BY <1>1, PTL DEF Spec, TerminalKeepsAttachments

(***************************************************************************)
(* Counting. A request whose snapshot admits it may still add one; with the*)
(* ones already added it stays within the limit and the other requests.    *)
(***************************************************************************)
LEMMA Fewer ==
  ASSUME NEW S, IsFiniteSet(S), NEW T \in SUBSET S
  PROVE  /\ IsFiniteSet(T) /\ Cardinality(T) \in Nat /\ Cardinality(S) \in Nat
         /\ Cardinality(T) <= Cardinality(S)
BY FS_Subset, FS_CardinalityType

LEMMA OneFewer ==
  ASSUME NEW S, IsFiniteSet(S), NEW x \in S, NEW T \in SUBSET (S \ {x})
  PROVE  /\ IsFiniteSet(T) /\ Cardinality(T) \in Nat /\ Cardinality(S) \in Nat
         /\ Cardinality(T) <= Cardinality(S) - 1
<1>1. IsFiniteSet(S \ {x}) /\ Cardinality(S \ {x}) = Cardinality(S) - 1
  BY FS_RemoveElement
<1> QED BY <1>1, Fewer, FS_CardinalityType

Uploading == {r \in Requests : /\ req[r].phase \in {"begun", "storing", "stored"}
                               /\ req[r].op = "upload" /\ WithinCount(req[r].rows)}

CountBounded ==
  Cardinality(Active(rows)) + Cardinality(Uploading) <= MaxFiles + Cardinality(Requests) - 1

LEMMA UploadingFinite ==
  /\ IsFiniteSet(Uploading) /\ Cardinality(Uploading) \in Nat
  /\ Cardinality(Uploading) <= Cardinality(Requests)
  /\ Cardinality(Requests) \in Nat /\ Cardinality(Requests) >= 1
<1>1. Uploading \subseteq Requests BY DEF Uploading
<1>2. IsFiniteSet(Requests) /\ Cardinality(Requests) # 0 /\ Cardinality(Requests) \in Nat
  BY FS_EmptySet, FS_CardinalityType, AttachmentAssumption
<1> QED BY <1>1, <1>2, Fewer

LEMMA ActiveFinite ==
  ASSUME NEW table
  PROVE  IsFiniteSet(Active(table)) /\ Cardinality(Active(table)) \in Nat
<1>1. Active(table) \subseteq Keys BY DEF Active
<1> QED BY <1>1, Fewer, AttachmentAssumption

\* Steps that neither add a row nor a request that may.
LEMMA CountKeeps ==
  ASSUME CountBounded, Active(rows') \subseteq Active(rows), Uploading' \subseteq Uploading
  PROVE  CountBounded'
<1>1. Cardinality(Active(rows')) \in Nat /\ Cardinality(Active(rows)) \in Nat
      /\ Cardinality(Active(rows')) <= Cardinality(Active(rows))
  BY Fewer, ActiveFinite
<1>2. Cardinality(Uploading') \in Nat /\ Cardinality(Uploading') <= Cardinality(Uploading)
  BY Fewer, UploadingFinite
<1> QED BY <1>1, <1>2, UploadingFinite, AttachmentAssumption DEF CountBounded

LEMMA CountStep ==
  ASSUME TypeOK, KeyIsSet, CountBounded, [Next]_vars
  PROVE  CountBounded'
<1>1. ASSUME UNCHANGED <<rows, req>> PROVE CountBounded'
  <2>1. Uploading' = Uploading BY <1>1 DEF Uploading, WithinCount, Active
  <2> QED BY <1>1, <2>1 DEF CountBounded, Active
<1>2. ASSUME NEW r \in Requests, Others(r), Active(rows') \subseteq Active(rows),
             r \notin Uploading'
      PROVE  CountBounded'
  <2>1. Uploading' \subseteq Uploading BY <1>2 DEF Uploading, Others, WithinCount, Active
  <2> QED BY <1>2, <2>1, CountKeeps
<1>3. ASSUME NEW r \in Requests, NEW op \in {"upload", "delete"},
             NEW actor \in Rules!Actors, Begin(r, op, actor)
      PROVE  CountBounded'
  <2>1. Others(r) /\ req'[r].rows = rows /\ rows' = rows
    BY <1>3, BeginGoes DEF Begin
  <2>2. CASE WithinCount(rows)
    <3>1. Uploading' \subseteq Requests BY DEF Uploading
    <3>2. Cardinality(Uploading') \in Nat /\ Cardinality(Uploading') <= Cardinality(Requests)
      BY <3>1, Fewer, AttachmentAssumption
    <3> QED BY <2>1, <2>2, <3>2, ActiveFinite, UploadingFinite, AttachmentAssumption
            DEF CountBounded, WithinCount
  <2>3. CASE ~ WithinCount(rows)
    <3>1. r \notin Uploading' BY <2>1, <2>3 DEF Uploading, WithinCount, Active
    <3> QED BY <1>2, <2>1, <3>1
  <2> QED BY <2>2, <2>3
<1>4. ASSUME NEW r \in Requests,
             Refuse(r) \/ FailStore(r) \/ Abandon(r) \/ Answer(r) \/ FailAfterCommit(r)
             \/ RemoveFile(r) \/ Crash(r)
      PROVE  CountBounded'
  <2>1. End(r) /\ rows' = rows
    BY <1>4 DEF Refuse, FailStore, Abandon, Answer, FailAfterCommit, RemoveFile, Crash
  <2>2. Others(r) /\ req'[r].phase = "idle" BY <2>1, EndGoes DEF Idle
  <2> QED BY <1>2, <2>1, <2>2 DEF Uploading
<1>5. ASSUME NEW r \in Requests, rows' = rows, Others(r), req'[r].rows = req[r].rows,
             req[r].op = "upload", req[r].phase \in {"begun", "storing"}
      PROVE  CountBounded'
  <2>1. Uploading' \subseteq Uploading BY <1>5 DEF Uploading, Others, WithinCount, Active
  <2> QED BY <1>5, <2>1, CountKeeps
<1>6. ASSUME NEW r \in Requests, NEW key \in Keys, StartStore(r, key) PROVE CountBounded'
  BY <1>5, <1>6, StoreGoes DEF StartStore, At
<1>7. ASSUME NEW r \in Requests, NEW size \in Sizes, FinishStore(r, size) PROVE CountBounded'
  BY <1>5, <1>7, StoredGoes DEF FinishStore, At
<1>8. ASSUME NEW r \in Requests, Insert(r) PROVE CountBounded'
  <2> DEFINE key == req[r].key
  <2>1. key \in Keys /\ req[r] \in InFlight
    BY <1>8, Flight DEF Insert, At, KeyIsSet
  <2>2. Others(r) /\ req'[r].phase = "committed" BY <1>8, <2>1, CommitGoes DEF Insert
  <2>3. r \in Uploading BY <1>8 DEF Insert, At, Uploading
  <2>4. Uploading' \subseteq Uploading \ {r}
    BY <2>2 DEF Uploading, Others, WithinCount, Active
  <2>5. Cardinality(Uploading') \in Nat /\ Cardinality(Uploading') <= Cardinality(Uploading) - 1
    BY <2>3, <2>4, OneFewer, UploadingFinite
  <2>6. Active(rows') \subseteq Active(rows) \cup {key}
    BY <1>8, <2>1 DEF Insert, Active, TypeOK
  <2>7. /\ IsFiniteSet(Active(rows) \cup {key})
        /\ Cardinality(Active(rows) \cup {key}) <= Cardinality(Active(rows)) + 1
    <3>1. IsFiniteSet(Active(rows)) /\ Cardinality(Active(rows)) \in Nat BY ActiveFinite
    <3> QED BY <3>1, FS_AddElement
  <2>8. Cardinality(Active(rows')) <= Cardinality(Active(rows)) + 1
    BY <2>6, <2>7, Fewer, ActiveFinite
  <2> QED BY <2>5, <2>8, ActiveFinite, UploadingFinite, AttachmentAssumption DEF CountBounded
<1>9. ASSUME NEW r \in Requests, NEW key \in Keys, MarkDeleted(r, key) PROVE CountBounded'
  <2>1. req[r] \in InFlight BY <1>9, Flight DEF MarkDeleted, At
  <2>2. Others(r) /\ req'[r].phase = "unlinking" BY <1>9, <2>1, CommitGoes DEF MarkDeleted
  <2>3. Active(rows') \subseteq Active(rows)
    BY <1>9 DEF MarkDeleted, DeletedRow, Active, TypeOK, Attachment
  <2> QED BY <1>2, <2>2, <2>3 DEF Uploading
<1> QED BY <1>1, <1>3, <1>4, <1>6, <1>7, <1>8, <1>9 DEF Next, vars, TicketChanges

\* Uploads that overlap pass the limit on the number of files by at most the other
\* requests in flight.
THEOREM CountIsSlack == Spec => []CountSlack
<1>1. Init => CountBounded
  <2>1. Init => Active(rows) = {} /\ Uploading = {}
    BY DEF Init, Active, Uploading, NoAttachment, Idle
  <2> QED BY <2>1, FS_EmptySet, UploadingFinite, AttachmentAssumption DEF CountBounded
<1>2. CountBounded => CountSlack
  BY ActiveFinite, UploadingFinite, AttachmentAssumption DEF CountBounded, CountSlack
<1> QED BY <1>1, <1>2, CountStep, FilesSafe, PTL DEF Spec

\* The deletions that read the attachment ACTIVE and may still record one.
Deleting(k) == {r \in Requests : At(r, "delete", "begun") /\ Deletable(req[r].rows[k])}

DeletionBound(k) ==
  /\ rows[k].status # "DELETED" => deletions[k] = 0
  /\ deletions[k] + Cardinality(Deleting(k)) <= Cardinality(Requests)

DeletionsBounded == \A k \in Keys : DeletionBound(k)

LEMMA DeletingFinite ==
  ASSUME NEW k \in Keys
  PROVE  /\ IsFiniteSet(Deleting(k)) /\ Cardinality(Deleting(k)) \in Nat
         /\ Cardinality(Deleting(k)) <= Cardinality(Requests) /\ Cardinality(Requests) \in Nat
<1>1. Deleting(k) \subseteq Requests BY DEF Deleting
<1> QED BY <1>1, Fewer, AttachmentAssumption

LEMMA DeletionsStep ==
  ASSUME TypeOK, KeyIsSet, FileInv, DeletionsBounded, [Next]_vars
  PROVE  DeletionsBounded'
<1> SUFFICES ASSUME NEW k \in Keys
             PROVE  DeletionBound(k)'
  BY DEF DeletionsBounded
<1> USE DEF DeletionBound
<1>0. deletions[k] \in Nat /\ (rows[k].status # "DELETED" => deletions[k] = 0)
      /\ deletions[k] + Cardinality(Deleting(k)) <= Cardinality(Requests)
  BY DEF TypeOK, DeletionsBounded
<1>1. ASSUME Deleting(k)' \subseteq Deleting(k), deletions'[k] = deletions[k],
             rows'[k].status # "DELETED" => rows[k].status # "DELETED"
      PROVE  DeletionBound(k)'
  BY <1>0, <1>1, Fewer, DeletingFinite
<1>2. ASSUME NEW r \in Requests, Others(r), ~ (At(r, "delete", "begun"))', deletions' = deletions,
             rows'[k].status # "DELETED" => rows[k].status # "DELETED"
      PROVE  DeletionBound(k)'
  <2>1. Deleting(k)' \subseteq Deleting(k) BY <1>2 DEF Deleting, Others, At
  <2> QED BY <1>1, <1>2, <2>1
<1>3. CASE UNCHANGED <<rows, deletions, req>>
  <2>1. Deleting(k)' = Deleting(k) BY <1>3 DEF Deleting, At
  <2> QED BY <1>1, <1>3, <2>1
<1>4. ASSUME NEW r \in Requests, NEW op \in {"upload", "delete"},
             NEW actor \in Rules!Actors, Begin(r, op, actor)
      PROVE  DeletionBound(k)'
  <2>1. Others(r) /\ req'[r].rows = rows /\ UNCHANGED <<rows, deletions>>
    BY <1>4, BeginGoes DEF Begin
  <2>2. CASE Deletable(rows[k])
    <3>1. deletions[k] = 0 BY <1>0, <2>2 DEF Deletable
    <3>2. Deleting(k)' \subseteq Requests BY DEF Deleting
    <3>3. Cardinality(Deleting(k)') \in Nat
          /\ Cardinality(Deleting(k)') <= Cardinality(Requests)
      BY <3>2, Fewer, AttachmentAssumption
    <3> QED BY <1>0, <2>1, <3>1, <3>3, DeletingFinite
  <2>3. CASE ~ Deletable(rows[k])
    <3>1. Deleting(k)' \subseteq Deleting(k)
      BY <2>1, <2>3 DEF Deleting, Others, At, Deletable
    <3> QED BY <1>1, <2>1, <3>1
  <2> QED BY <2>2, <2>3
<1>5. ASSUME NEW r \in Requests,
             Refuse(r) \/ FailStore(r) \/ Abandon(r) \/ Answer(r) \/ FailAfterCommit(r)
             \/ RemoveFile(r) \/ Crash(r)
      PROVE  DeletionBound(k)'
  <2>1. End(r) /\ UNCHANGED <<rows, deletions>>
    BY <1>5 DEF Refuse, FailStore, Abandon, Answer, FailAfterCommit, RemoveFile, Crash
  <2>2. Others(r) /\ req'[r].phase = "idle" BY <2>1, EndGoes DEF Idle
  <2> QED BY <1>2, <2>1, <2>2 DEF At
<1>6. ASSUME NEW r \in Requests, NEW key \in Keys, StartStore(r, key)
      PROVE  DeletionBound(k)'
  BY <1>2, <1>6, StoreGoes DEF StartStore, At
<1>7. ASSUME NEW r \in Requests, NEW size \in Sizes, FinishStore(r, size)
      PROVE  DeletionBound(k)'
  BY <1>2, <1>7, StoredGoes DEF FinishStore, At
<1>8. ASSUME NEW r \in Requests, Insert(r)
      PROVE  DeletionBound(k)'
  <2>1. req[r].phase = "stored" /\ req[r].key \in Keys /\ req[r] \in InFlight
    BY <1>8, Flight DEF Insert, At, KeyIsSet
  <2>2. Others(r) /\ req'[r].phase = "committed" BY <1>8, <2>1, CommitGoes DEF Insert
  <2>3. rows[req[r].key].status = "ABSENT" BY <2>1 DEF FileInv, StoredFile
  <2>4. rows'[k].status # "DELETED" => rows[k].status # "DELETED"
    BY <1>8, <2>1, <2>3 DEF Insert, TypeOK
  <2>5. deletions' = deletions BY <1>8 DEF Insert
  <2> QED BY <1>2, <2>2, <2>4, <2>5 DEF At
<1>9. ASSUME NEW r \in Requests, NEW key \in Keys, MarkDeleted(r, key)
      PROVE  DeletionBound(k)'
  <2>1. req[r] \in InFlight BY <1>9, Flight DEF MarkDeleted, At
  <2>2. Others(r) /\ req'[r].phase = "unlinking" BY <1>9, <2>1, CommitGoes DEF MarkDeleted
  <2>3. /\ rows'[k].status # "DELETED" => rows[k].status # "DELETED" /\ k # key
        /\ deletions'[k] = IF k = key THEN deletions[k] + 1 ELSE deletions[k]
    BY <1>9 DEF MarkDeleted, DeletedRow, TypeOK, Attachment
  <2>4. Deleting(k)' \subseteq Deleting(k) \ {r} BY <2>2 DEF Deleting, Others, At
  <2>5. CASE k # key BY <1>1, <2>3, <2>4, <2>5
  <2>6. CASE k = key
    <3>1. r \in Deleting(k) BY <1>9, <2>6 DEF MarkDeleted, Deleting
    <3>2. Cardinality(Deleting(k)') \in Nat
          /\ Cardinality(Deleting(k)') <= Cardinality(Deleting(k)) - 1
      BY <2>4, <3>1, OneFewer, DeletingFinite
    <3> QED BY <1>0, <2>3, <2>6, <3>2, DeletingFinite
  <2> QED BY <2>5, <2>6
<1> QED BY <1>3, <1>4, <1>5, <1>6, <1>7, <1>8, <1>9 DEF Next, vars, TicketChanges

\* However deletions of one attachment overlap, the history records no more of them
\* than requests are in flight.
THEOREM DeletionsAreBounded == Spec => []RepeatedDeletions
<1>1. Init => DeletionsBounded
  <2>1. Init => \A k \in Keys : deletions[k] = 0 /\ Deleting(k) = {}
    BY DEF Init, Deleting, At, Idle
  <2> QED BY <2>1, FS_EmptySet, UploadingFinite DEF DeletionsBounded, DeletionBound
<1>2. TypeOK /\ DeletionsBounded => RepeatedDeletions
  BY DeletingFinite DEF TypeOK, DeletionsBounded, DeletionBound, RepeatedDeletions
<1> QED BY <1>1, <1>2, DeletionsStep, FilesSafe, PTL DEF Spec

(***************************************************************************)
(* Sums. The total size of a table is the number of cells that its active  *)
(* rows take, one for each byte.                                           *)
(***************************************************************************)
\* A set of subsets of S with each whose smaller ones it has is all of them.
LEMMA SubsetInduction ==
  ASSUME NEW S, IsFiniteSet(S), NEW P \in SUBSET (SUBSET S),
         \A T \in SUBSET S : (\A x \in T : T \ {x} \in P) => T \in P
  PROVE  P = SUBSET S
<1> DEFINE rest == (SUBSET S) \ P
<1> SUFFICES ASSUME rest # {} PROVE FALSE
  OBVIOUS
<1>1. IsWellFoundedOn(StrictSubsetOrdering(S), SUBSET S)
  <2>1. FiniteSubsetsOf(S) = SUBSET S
    BY FS_FiniteSubsetsOfFinite
  <2>2. IsWellFoundedOn(StrictSubsetOrdering(S), FiniteSubsetsOf(S))
    BY FS_StrictSubsetOrderingWellFounded
  <2> QED
    BY <2>1, <2>2, Zenon
<1>2. \E T \in rest : \A U \in rest : ~ (<<U, T>> \in StrictSubsetOrdering(S))
  <2>1. rest \subseteq SUBSET S
    OBVIOUS
  <2> HIDE DEF rest
  <2> QED
    BY <1>1, <2>1, WFMin
<1>3. PICK T \in rest : \A U \in rest : ~ (<<U, T>> \in StrictSubsetOrdering(S))
  BY <1>2
<1>4. ASSUME NEW x \in T PROVE T \ {x} \in P
  <2>1. <<T \ {x}, T>> \in StrictSubsetOrdering(S) /\ T \ {x} \in SUBSET S
    BY <1>3 DEF StrictSubsetOrdering
  <2> QED
    BY <1>3, <2>1
<1> QED
  BY <1>3, <1>4

Cells(S, f) == {cell \in S \X Nat : cell[2] \in 1 .. f[cell[1]]}

LEMMA CellsOfOne ==
  ASSUME NEW x, NEW n \in Nat
  PROVE  IsFiniteSet({x} \X (1 .. n)) /\ Cardinality({x} \X (1 .. n)) = n
<1>1. IsFiniteSet({x}) /\ Cardinality({x}) = 1
  BY FS_Singleton
<1>2. IsFiniteSet(1 .. n) /\ Cardinality(1 .. n) = n
  BY FS_Interval
<1>3. /\ IsFiniteSet({x} \X (1 .. n))
      /\ Cardinality({x} \X (1 .. n)) = Cardinality({x}) * Cardinality(1 .. n)
  BY <1>1, <1>2, FS_Product
<1>4. 1 * n = n
  OBVIOUS
<1> QED
  BY <1>1, <1>2, <1>3, <1>4

LEMMA OneMoreCells ==
  ASSUME NEW f \in [Keys -> Nat], NEW S \in SUBSET Keys, NEW x \in S,
         IsFiniteSet(Cells(S \ {x}, f))
  PROVE  /\ IsFiniteSet(Cells(S, f))
         /\ Cardinality(Cells(S, f)) = Cardinality(Cells(S \ {x}, f)) + f[x]
<1> DEFINE new == {x} \X (1 .. f[x])
<1>1. Cells(S, f) = Cells(S \ {x}, f) \cup new /\ Cells(S \ {x}, f) \cap new = {}
  BY DEF Cells
<1>2. f[x] \in Nat /\ IsFiniteSet(new) /\ Cardinality(new) = f[x]
  BY CellsOfOne
<1> DEFINE old == Cells(S \ {x}, f)
<1>3. IsFiniteSet(old) /\ Cardinality(old) \in Nat
  BY FS_CardinalityType
<1> HIDE DEF new, old
<1>4. /\ IsFiniteSet(old \cup new)
      /\ Cardinality(old \cup new)
           = Cardinality(old) + Cardinality(new) - Cardinality(old \cap new)
  BY <1>2, <1>3, FS_Union
<1>5. Cells(S, f) = old \cup new /\ Cardinality(old \cap new) = 0
  BY <1>1, FS_EmptySet DEF old
<1> QED
  BY <1>2, <1>3, <1>4, <1>5 DEF old

LEMMA CellsFinite ==
  ASSUME NEW f \in [Keys -> Nat], NEW S \in SUBSET Keys
  PROVE  IsFiniteSet(Cells(S, f)) /\ Cardinality(Cells(S, f)) \in Nat
<1> DEFINE P == {T \in SUBSET Keys : IsFiniteSet(Cells(T, f))}
<1>1. ASSUME NEW T \in SUBSET Keys, \A x \in T : T \ {x} \in P PROVE T \in P
  <2>1. CASE T = {}
    <3>1. Cells(T, f) = {}
      BY <2>1 DEF Cells
    <3> QED
      BY <3>1, FS_EmptySet
  <2>2. CASE T # {}
    <3>1. PICK x : x \in T
      BY <2>2
    <3>2. IsFiniteSet(Cells(T \ {x}, f))
      BY <1>1, <3>1
    <3>3. IsFiniteSet(Cells(T, f))
      BY <3>1, <3>2, OneMoreCells
    <3> QED
      BY <3>3
  <2> QED
    BY <2>1, <2>2
<1>2. P \in SUBSET (SUBSET Keys) /\ IsFiniteSet(Keys)
  BY AttachmentAssumption
<1>3. P = SUBSET Keys
  <2> HIDE DEF P
  <2> QED
    BY <1>1, <1>2, SubsetInduction
<1> QED
  BY <1>3, FS_CardinalityType

\* The fold over a set, as the recursive function that its definition chooses.
IsFold(iter, S, f) ==
  iter = [s \in SUBSET S |->
            IF s = {} THEN 0
                      ELSE LET x == CHOOSE x \in s : TRUE IN f[x] + iter[s \ {x}]]

LEMMA FoldExists ==
  ASSUME NEW f \in [Keys -> Nat], NEW S \in SUBSET Keys
  PROVE  IsFold([s \in SUBSET S |-> Cardinality(Cells(s, f))], S, f)
<1> DEFINE iter == [s \in SUBSET S |-> Cardinality(Cells(s, f))]
<1>1. ASSUME NEW s \in SUBSET S
      PROVE  iter[s] = IF s = {} THEN 0
                       ELSE LET x == CHOOSE x \in s : TRUE IN f[x] + iter[s \ {x}]
  <2>1. CASE s = {}
    <3>1. Cells(s, f) = {}
      BY <2>1 DEF Cells
    <3> QED
      BY <2>1, <3>1, FS_EmptySet
  <2>2. CASE s # {}
    <3> DEFINE x == CHOOSE x \in s : TRUE
    <3>1. x \in s
      BY <2>2
    <3> HIDE DEF x
    <3>2. /\ s \ {x} \in SUBSET S /\ s \in SUBSET Keys /\ s \ {x} \in SUBSET Keys
          /\ f[x] \in Nat
      BY <3>1
    <3>3. /\ Cardinality(Cells(s, f)) = Cardinality(Cells(s \ {x}, f)) + f[x]
          /\ Cardinality(Cells(s \ {x}, f)) \in Nat
      BY <3>1, <3>2, OneMoreCells, CellsFinite
    <3>4. iter[s] = f[x] + iter[s \ {x}]
      BY <3>2, <3>3
    <3> HIDE DEF iter
    <3> QED
      BY <2>2, <3>4 DEF x
  <2> QED
    BY <2>1, <2>2
<1> QED
  BY <1>1, Zenon DEF IsFold

LEMMA FoldIsCells ==
  ASSUME NEW f \in [Keys -> Nat], NEW S \in SUBSET Keys, NEW iter, IsFold(iter, S, f)
  PROVE  iter[S] = Cardinality(Cells(S, f))
<1> DEFINE P == {T \in SUBSET S : iter[T] = Cardinality(Cells(T, f))}
<1>1. ASSUME NEW T \in SUBSET S, \A x \in T : T \ {x} \in P PROVE T \in P
  <2>1. iter[T] = IF T = {} THEN 0
                  ELSE LET x == CHOOSE x \in T : TRUE IN f[x] + iter[T \ {x}]
    BY DEF IsFold
  <2>2. CASE T = {}
    <3>1. Cells(T, f) = {}
      BY <2>2 DEF Cells
    <3> QED
      BY <2>1, <2>2, <3>1, FS_EmptySet
  <2>3. CASE T # {}
    <3> DEFINE x == CHOOSE x \in T : TRUE
    <3>1. x \in T
      BY <2>3
    <3>2. iter[T] = f[x] + iter[T \ {x}]
      BY <2>1, <2>3
    <3> HIDE DEF x
    <3>3. /\ T \in SUBSET Keys /\ T \ {x} \in SUBSET Keys /\ f[x] \in Nat
          /\ iter[T \ {x}] = Cardinality(Cells(T \ {x}, f))
      BY <1>1, <3>1
    <3>4. /\ Cardinality(Cells(T, f)) = Cardinality(Cells(T \ {x}, f)) + f[x]
          /\ Cardinality(Cells(T \ {x}, f)) \in Nat
      BY <3>1, <3>3, OneMoreCells, CellsFinite
    <3> QED
      BY <3>2, <3>3, <3>4
  <2> QED
    BY <2>2, <2>3
<1>2. P \in SUBSET (SUBSET S) /\ IsFiniteSet(S)
  BY FS_Subset, AttachmentAssumption
<1>3. P = SUBSET S
  <2> HIDE DEF P
  <2> QED
    BY <1>1, <1>2, SubsetInduction
<1> QED
  BY <1>3

SizeOf(table) == [k \in Keys |-> table[k].size]
Bytes(table) == Cells(Active(table), SizeOf(table))

LEMMA TotalIsBytes ==
  ASSUME NEW table \in [Keys -> Attachment]
  PROVE  TotalSize(table) = Cardinality(Bytes(table))
<1> DEFINE S == Active(table)
           f == SizeOf(table)
<1>1. f \in [Keys -> Nat] /\ S \in SUBSET Keys
  BY DEF SizeOf, Active, Attachment
<1>2. \A iter : IsFold(iter, S, f) =>
        iter[S] = Cardinality(Bytes(table))
  BY <1>1, FoldIsCells DEF Bytes
<1>3. \E iter : IsFold(iter, S, f)
  BY <1>1, FoldExists
<1> DEFINE chosen == CHOOSE iter : IsFold(iter, S, f)
<1>4. IsFold(chosen, S, f)
  BY <1>3
<1>5. TotalSize(table) = chosen[S]
  BY DEF TotalSize, MapThenSumSet, MapThenFoldSet, IsFold, SizeOf, Active
<1> QED
  BY <1>2, <1>4, <1>5

(***************************************************************************)
(* The bytes. A request whose snapshot left room may still add as much; the*)
(* bytes there are and the room of all requests stay within one quota for  *)
(* each request.                                                           *)
(***************************************************************************)
UploadPending(r) == /\ req[r].phase \in {"begun", "storing", "stored"}
                    /\ req[r].op = "upload"

Quota == 1 .. MaxTotal

Room == {part \in Requests \X Quota :
           /\ UploadPending(part[1])
           /\ part[2] + Cardinality(Bytes(req[part[1]].rows)) <= MaxTotal}

BytesBounded ==
  Cardinality(Bytes(rows)) + Cardinality(Room) <= Cardinality(Requests) * MaxTotal

LEMMA BytesFinite ==
  ASSUME NEW table \in [Keys -> Attachment]
  PROVE  IsFiniteSet(Bytes(table)) /\ Cardinality(Bytes(table)) \in Nat
<1>1. SizeOf(table) \in [Keys -> Nat] /\ Active(table) \in SUBSET Keys
  BY DEF SizeOf, Active, Attachment
<1> QED
  BY <1>1, CellsFinite DEF Bytes

LEMMA QuotasFinite ==
  /\ MaxTotal \in Nat /\ IsFiniteSet(Requests \X Quota)
  /\ Cardinality(Requests \X Quota) = Cardinality(Requests) * MaxTotal
  /\ Cardinality(Requests \X Quota) \in Nat
<1>1. MaxTotal \in Nat /\ IsFiniteSet(Requests)
  BY AttachmentAssumption
<1>2. IsFiniteSet(Quota) /\ Cardinality(Quota) = MaxTotal
  BY <1>1, FS_Interval DEF Quota
<1>3. /\ IsFiniteSet(Requests \X Quota)
      /\ Cardinality(Requests \X Quota) = Cardinality(Requests) * Cardinality(Quota)
  BY <1>1, <1>2, FS_Product
<1> QED
  BY <1>1, <1>2, <1>3, FS_CardinalityType

LEMMA RoomFinite ==
  IsFiniteSet(Room) /\ Cardinality(Room) \in Nat
<1>1. Room \subseteq Requests \X Quota
  BY DEF Room
<1> QED
  BY <1>1, Fewer, QuotasFinite

\* Sets that share nothing add up within any set that has both.
LEMMA Apart ==
  ASSUME NEW S, IsFiniteSet(S), NEW T \in SUBSET S, NEW U \in SUBSET S, T \cap U = {}
  PROVE  /\ Cardinality(T) \in Nat /\ Cardinality(U) \in Nat /\ Cardinality(S) \in Nat
         /\ Cardinality(T) + Cardinality(U) <= Cardinality(S)
<1>1. /\ IsFiniteSet(T) /\ IsFiniteSet(U)
      /\ Cardinality(T) \in Nat /\ Cardinality(U) \in Nat /\ Cardinality(S) \in Nat
  BY Fewer
<1>2. Cardinality(T \cup U) = Cardinality(T) + Cardinality(U) - Cardinality(T \cap U)
  BY <1>1, FS_Union
<1>3. Cardinality(T \cap U) = 0
  BY FS_EmptySet
<1>4. Cardinality(T \cup U) <= Cardinality(S)
  BY Fewer
<1> QED
  BY <1>1, <1>2, <1>3, <1>4

\* Steps that add neither bytes nor room.
LEMMA BytesKeep ==
  ASSUME TypeOK, BytesBounded, Bytes(rows') \subseteq Bytes(rows), Room' \subseteq Room
  PROVE  BytesBounded'
<1>1. /\ IsFiniteSet(Bytes(rows)) /\ Cardinality(Bytes(rows)) \in Nat
      /\ IsFiniteSet(Room) /\ Cardinality(Room) \in Nat
  BY BytesFinite, RoomFinite DEF TypeOK
<1>2. /\ Cardinality(Bytes(rows')) \in Nat
      /\ Cardinality(Bytes(rows')) <= Cardinality(Bytes(rows))
  BY <1>1, Fewer
<1>3. Cardinality(Room') \in Nat /\ Cardinality(Room') <= Cardinality(Room)
  BY <1>1, Fewer
<1>4. Cardinality(Requests) * MaxTotal \in Nat
  BY QuotasFinite
<1> QED
  BY <1>1, <1>2, <1>3, <1>4 DEF BytesBounded

\* A request begins with the room that the rows leave now.
LEMMA BytesBegin ==
  ASSUME TypeOK, BytesBounded, NEW r \in Requests, Others(r), req[r].phase = "idle",
         req'[r].rows = rows, rows' = rows
  PROVE  BytesBounded'
<1> DEFINE used == Cardinality(Bytes(rows))
           others == {part \in Room' : part[1] # r}
           own == {part \in Room' : part[1] = r}
           all == Cardinality(Requests \X Quota)
<1>0. /\ used \in Nat /\ MaxTotal \in Nat /\ all \in Nat
      /\ IsFiniteSet(Room) /\ Cardinality(Room) \in Nat
      /\ all = Cardinality(Requests) * MaxTotal
      /\ used + Cardinality(Room) <= all
  BY BytesFinite, QuotasFinite, RoomFinite DEF TypeOK, BytesBounded
<1>1. others \subseteq Room
  BY DEF Room, Others, UploadPending
<1>2. Room' = others \cup own
  OBVIOUS
<1>3. own \subseteq {r} \X Quota /\ others \subseteq (Requests \ {r}) \X Quota
  BY DEF Room
<1>5. CASE used <= MaxTotal
  <2> DEFINE line == {r} \X Quota
             free == {r} \X (1 .. (MaxTotal - used))
  <2>1. own \subseteq free /\ free \subseteq line
    <3>1. ASSUME NEW part \in own PROVE part \in free
      <4>1. /\ part \in Requests \X Quota /\ part[1] = r
            /\ part[2] + Cardinality(Bytes(req'[part[1]].rows)) <= MaxTotal
        BY DEF Room
      <4>2. part[2] + used <= MaxTotal
        BY <4>1
      <4>3. part = <<r, part[2]>> /\ part[2] \in 1 .. (MaxTotal - used)
        <5> HIDE DEF own, used
        <5> QED
          BY <1>0, <1>5, <4>1, <4>2 DEF Quota
      <4> QED
        BY <4>3
    <3>2. free \subseteq line
      <4> HIDE DEF used
      <4> QED
        BY <1>0, <1>5 DEF Quota
    <3> QED
      BY <3>1, <3>2
  <2>2. IsFiniteSet(line) /\ Cardinality(line) = MaxTotal
    BY <1>0, CellsOfOne DEF Quota
  <2>3. IsFiniteSet(free) /\ Cardinality(free) = MaxTotal - used
    <3> HIDE DEF used
    <3>1. MaxTotal - used \in Nat
      BY <1>0, <1>5
    <3> QED
      BY <3>1, CellsOfOne
  <2>4. /\ Cardinality(others) \in Nat /\ IsFiniteSet(others)
        /\ Cardinality(others) + Cardinality(line) <= all
    <3>1. others \in SUBSET (Requests \X Quota) /\ line \in SUBSET (Requests \X Quota)
      BY <1>3
    <3>2. others \cap line = {}
      OBVIOUS
    <3> HIDE DEF others, line
    <3> QED
      BY <3>1, <3>2, QuotasFinite, Apart, Fewer
  <2>5. IsFiniteSet(own) /\ Cardinality(own) \in Nat /\ Cardinality(own) <= MaxTotal - used
    BY <2>1, <2>3, Fewer
  <2>6. Cardinality(Room') <= Cardinality(others) + Cardinality(own)
        /\ Cardinality(Room') \in Nat
    <3> HIDE DEF others, own
    <3>1. /\ IsFiniteSet(others \cup own)
          /\ Cardinality(others \cup own)
               = Cardinality(others) + Cardinality(own) - Cardinality(others \cap own)
      BY <2>4, <2>5, FS_Union
    <3>2. Cardinality(others \cap own) \in Nat
      BY <2>4, Fewer
    <3>3. Cardinality(others \cup own) \in Nat
      BY <3>1, FS_CardinalityType
    <3> QED
      BY <1>2, <2>4, <2>5, <3>1, <3>2, <3>3
  <2> HIDE DEF used, others, own, line, free, all
  <2>7. used + Cardinality(Room') <= all
    BY <1>0, <2>2, <2>4, <2>5, <2>6
  <2> QED
    BY <1>0, <2>7 DEF BytesBounded, used
<1>6. CASE used > MaxTotal
  <2>1. own = {}
    BY <1>0, <1>6 DEF Room, Quota
  <2>2. Room' \subseteq Room
    BY <1>1, <1>2, <2>1
  <2> QED
    BY <2>2, BytesKeep
<1> QED
  BY <1>0, <1>5, <1>6

\* A row that is inserted takes no more than the room of its request.
LEMMA BytesInsert ==
  ASSUME TypeOK, BytesBounded, NEW r \in Requests, NEW key \in Keys,
         key = req[r].key, req[r] \in InFlight, Others(r),
         ~ UploadPending(r)', Insert(r)
  PROVE  BytesBounded'
<1> DEFINE used == Cardinality(Bytes(rows))
           seen == Cardinality(Bytes(req[r].rows))
           size == req[r].size
           new == {key} \X (1 .. size)
           given == {r} \X (1 .. size)
           all == Cardinality(Requests) * MaxTotal
<1>1. /\ req[r].rows \in [Keys -> Attachment] /\ rows \in [Keys -> Attachment]
      /\ size \in Nat /\ MaxTotal \in Nat
  BY QuotasFinite DEF TypeOK, InFlight
<1>2. /\ IsFiniteSet(Bytes(rows)) /\ used \in Nat /\ seen \in Nat
      /\ IsFiniteSet(Room) /\ Cardinality(Room) \in Nat
      /\ all \in Nat /\ used + Cardinality(Room) <= all
  BY <1>1, BytesFinite, RoomFinite, QuotasFinite DEF BytesBounded
<1>3. seen + size <= MaxTotal
  BY <1>1, TotalIsBytes DEF Insert, WithinTotal
<1>4. given \subseteq Room
  <2>1. UploadPending(r)
    BY DEF Insert, At, UploadPending
  <2>2. ASSUME NEW part \in given PROVE part \in Room
    <3>1. part = <<r, part[2]>> /\ part[2] \in 1 .. size
      OBVIOUS
    <3>2. part[2] \in Quota /\ part[2] + seen <= MaxTotal
      <4> HIDE DEF seen, size
      <4> QED
        BY <1>1, <1>2, <1>3, <3>1 DEF Quota
    <3> QED
      BY <2>1, <3>1, <3>2 DEF Room
  <2> QED
    BY <2>2
<1>5. Room' \subseteq Room /\ Room' \cap given = {}
  <2>1. \A part \in Room' : part[1] # r
    BY DEF Room, UploadPending
  <2>2. \A q \in Requests : q # r => req'[q] = req[q]
    BY DEF Others
  <2> QED
    BY <2>1, <2>2 DEF Room, UploadPending
<1>6. Bytes(rows') \subseteq Bytes(rows) \cup new
  <2>1. rows'[key] = [status |-> "ACTIVE", size |-> size]
        /\ \A k \in Keys : k # key => rows'[k] = rows[k]
    BY <1>1 DEF Insert
  <2> HIDE DEF size
  <2> QED
    BY <2>1 DEF Bytes, Cells, Active, SizeOf
<1>7. IsFiniteSet(new) /\ Cardinality(new) = size /\ Cardinality(given) = size
  BY <1>1, CellsOfOne
<1>8. /\ Cardinality(Room') \in Nat
      /\ Cardinality(Room') + size <= Cardinality(Room)
  BY <1>2, <1>4, <1>5, <1>7, Apart
<1>9. Cardinality(Bytes(rows')) \in Nat /\ Cardinality(Bytes(rows')) <= used + size
  <2> DEFINE both == Bytes(rows) \cup new
  <2>1. /\ IsFiniteSet(both)
        /\ Cardinality(both) = used + size - Cardinality(Bytes(rows) \cap new)
    BY <1>2, <1>7, FS_Union
  <2>2. Cardinality(Bytes(rows) \cap new) \in Nat
    BY <1>2, Fewer
  <2>3. /\ Cardinality(Bytes(rows')) \in Nat /\ Cardinality(both) \in Nat
        /\ Cardinality(Bytes(rows')) <= Cardinality(both)
    <3> HIDE DEF both
    <3> QED
      BY <1>6, <2>1, Fewer DEF both
  <2> HIDE DEF both, used, size, new
  <2> QED
    BY <1>1, <1>2, <2>1, <2>2, <2>3
<1> HIDE DEF used, size, all
<1>10. Cardinality(Bytes(rows')) + Cardinality(Room') <= all
  BY <1>1, <1>2, <1>8, <1>9
<1> QED
  BY <1>10 DEF all, BytesBounded

LEMMA BytesStep ==
  ASSUME TypeOK, KeyIsSet, BytesBounded, [Next]_vars
  PROVE  BytesBounded'
<1>1. CASE UNCHANGED <<rows, req>>
  <2>1. Room' = Room
    BY <1>1 DEF Room, UploadPending
  <2> QED
    BY <1>1, <2>1 DEF BytesBounded
<1>2. ASSUME NEW r \in Requests, Others(r), Bytes(rows') \subseteq Bytes(rows),
             UploadPending(r)' => UploadPending(r) /\ req'[r].rows = req[r].rows
      PROVE  BytesBounded'
  <2>1. \A q \in Requests :
          UploadPending(q)' => UploadPending(q) /\ req'[q].rows = req[q].rows
    BY <1>2 DEF Others, UploadPending
  <2>2. Room' \subseteq Room
    BY <2>1 DEF Room
  <2> QED
    BY <1>2, <2>2, BytesKeep
<1>3. ASSUME NEW r \in Requests, NEW op \in {"upload", "delete"},
             NEW actor \in Rules!Actors, Begin(r, op, actor)
      PROVE  BytesBounded'
  <2>1. Others(r) /\ req'[r].rows = rows /\ rows' = rows /\ req[r].phase = "idle"
    BY <1>3, BeginGoes DEF Begin
  <2> QED
    BY <2>1, BytesBegin
<1>4. ASSUME NEW r \in Requests,
             Refuse(r) \/ FailStore(r) \/ Abandon(r) \/ Answer(r) \/ FailAfterCommit(r)
             \/ RemoveFile(r) \/ Crash(r)
      PROVE  BytesBounded'
  <2>1. End(r) /\ rows' = rows
    BY <1>4 DEF Refuse, FailStore, Abandon, Answer, FailAfterCommit, RemoveFile, Crash
  <2>2. Others(r) /\ req'[r].phase = "idle"
    BY <2>1, EndGoes DEF Idle
  <2> QED
    BY <1>2, <2>1, <2>2 DEF UploadPending
<1>5. ASSUME NEW r \in Requests, NEW key \in Keys, StartStore(r, key) PROVE BytesBounded'
  BY <1>2, <1>5, StoreGoes DEF StartStore, At, UploadPending
<1>6. ASSUME NEW r \in Requests, NEW size \in Sizes, FinishStore(r, size)
      PROVE  BytesBounded'
  BY <1>2, <1>6, StoredGoes DEF FinishStore, At, UploadPending
<1>7. ASSUME NEW r \in Requests, Insert(r) PROVE BytesBounded'
  <2>1. req[r].key \in Keys /\ req[r] \in InFlight
    BY <1>7, Flight DEF Insert, At, KeyIsSet
  <2>2. Others(r) /\ req'[r].phase = "committed"
    BY <1>7, <2>1, CommitGoes DEF Insert
  <2> QED
    BY <1>7, <2>1, <2>2, BytesInsert DEF UploadPending
<1>8. ASSUME NEW r \in Requests, NEW key \in Keys, MarkDeleted(r, key) PROVE BytesBounded'
  <2>1. req[r] \in InFlight
    BY <1>8, Flight DEF MarkDeleted, At
  <2>2. Others(r) /\ req'[r].phase = "unlinking"
    BY <1>8, <2>1, CommitGoes DEF MarkDeleted
  <2>3. Active(rows') \subseteq Active(rows)
        /\ \A k \in Keys : rows'[k].size = rows[k].size
    BY <1>8 DEF MarkDeleted, DeletedRow, Active, TypeOK, Attachment
  <2>4. Bytes(rows') \subseteq Bytes(rows)
    BY <2>3 DEF Bytes, Cells, SizeOf, Active
  <2> QED
    BY <1>2, <2>2, <2>4 DEF UploadPending
<1> QED
  BY <1>1, <1>3, <1>4, <1>5, <1>6, <1>7, <1>8 DEF Next, vars, TicketChanges

\* However uploads and deletions overlap, the active attachments take no more than one
\* quota of bytes for each request that can be in flight.
THEOREM TotalIsSlack == Spec => []TotalSlack
<1>1. Init => BytesBounded
  <2> SUFFICES ASSUME Init PROVE BytesBounded
    OBVIOUS
  <2>1. Bytes(rows) = {} /\ Room = {}
    BY DEF Init, Bytes, Cells, Active, NoAttachment, Room, UploadPending, Idle
  <2> QED
    BY <2>1, FS_EmptySet, QuotasFinite DEF BytesBounded
<1>2. TypeOK /\ BytesBounded => TotalSlack
  <2> SUFFICES ASSUME TypeOK, BytesBounded PROVE TotalSlack
    OBVIOUS
  <2>1. TotalSize(rows) = Cardinality(Bytes(rows)) /\ Cardinality(Bytes(rows)) \in Nat
    BY TotalIsBytes, BytesFinite DEF TypeOK
  <2> QED
    BY <2>1, RoomFinite, QuotasFinite DEF BytesBounded, TotalSlack
<1> QED
  BY <1>1, <1>2, BytesStep, FilesSafe, PTL DEF Spec

\* Neither quota is passed further than the requests in flight account for.
THEOREM QuotasAreSlack == Spec => []QuotaSlack
BY CountIsSlack, TotalIsSlack, PTL DEF QuotaSlack

=============================================================================
