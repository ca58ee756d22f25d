------------------------- MODULE NotificationProofs -------------------------
(***************************************************************************)
(* Theorems about Notifications, for any keys, requests and number of      *)
(* e-mails.                                                                *)
(***************************************************************************)
EXTENDS NotificationProperties, FiniteSetTheorems, TLAPS

Others(r) == \A q \in Requests : q # r => req'[q] = req[q]

LEMMA Flight ==
  ASSUME TypeOK, NEW r \in Requests, IsActive(r)
  PROVE  req[r] \in Active
BY DEF TypeOK, IsActive, Idle

LEMMA EndGoes ==
  ASSUME TypeOK, NEW r \in Requests, End(r)
  PROVE  /\ Others(r) /\ req' \in [Requests -> {Idle} \cup Active]
         /\ req'[r] = Idle /\ ~ IsActive(r)'
BY DEF TypeOK, End, Others, Idle, IsActive

LEMMA BeginGoes ==
  ASSUME TypeOK, NEW r \in Requests, Begin(r)
  PROVE  /\ Others(r) /\ req' \in [Requests -> {Idle} \cup Active]
         /\ IsActive(r)' /\ req'[r].rows = rows /\ req'[r].audits = audits
         /\ req'[r].preferences = preferences /\ req'[r].key = NULL /\ req'[r].stored = FALSE
         /\ req'[r].audited = FALSE /\ req'[r].mailed = FALSE
         /\ req'[r].change = NULL /\ req'[r].fresh = FALSE
BY DEF TypeOK, Begin, Others, Active, IsActive

LEMMA FindGoes ==
  ASSUME TypeOK, NEW r \in Requests, NEW k \in Keys, FindExisting(r, k)
  PROVE  /\ Others(r) /\ req' \in [Requests -> {Idle} \cup Active]
         /\ IsActive(r)' /\ req'[r].rows = req[r].rows /\ req'[r].audits = req[r].audits
         /\ req'[r].preferences = req[r].preferences /\ req'[r].key = k
         /\ req'[r].stored = req[r].stored /\ req'[r].audited = req[r].audited
         /\ req'[r].mailed = req[r].mailed /\ req'[r].change = req[r].change
         /\ req'[r].fresh = req[r].fresh
<1> DEFINE state == [req[r] EXCEPT !.key = k]
<1>1. req[r] \in Active BY Flight DEF FindExisting
<1>2. state \in Active BY <1>1 DEF Active
<1>3. req' = [req EXCEPT ![r] = state] BY <1>1 DEF FindExisting, TypeOK
<1>4. /\ state.phase = "active" /\ state.rows = req[r].rows /\ state.audits = req[r].audits
      /\ state.preferences = req[r].preferences /\ state.key = k
      /\ state.stored = req[r].stored /\ state.audited = req[r].audited
      /\ state.mailed = req[r].mailed /\ state.change = req[r].change
      /\ state.fresh = req[r].fresh
  BY <1>1 DEF Active
<1> HIDE DEF state
<1> QED BY <1>2, <1>3, <1>4 DEF TypeOK, Others, IsActive

LEMMA SeenType ==
  ASSUME TypeOK, NEW r \in Requests, IsActive(r), NEW k \in Keys
  PROVE  /\ Seen(r) \in Preference /\ AllowsInApp(r, k) \in BOOLEAN
         /\ AllowsExternalDelivery(r, k) \in BOOLEAN /\ Audits(r, k) \in BOOLEAN
<1>1. Seen(r) \in Preference BY Flight DEF Seen, Active, Preference, Defaults
<1> QED BY <1>1 DEF AllowsInApp, AllowsExternalDelivery, Audits, Preference

LEMMA CreateGoes ==
  ASSUME TypeOK, NEW r \in Requests, NEW k \in Keys, NEW delivered \in BOOLEAN,
         Create(r, k, delivered)
  PROVE  /\ Others(r) /\ req' \in [Requests -> {Idle} \cup Active]
         /\ IsActive(r)' /\ req'[r].rows = req[r].rows /\ req'[r].audits = req[r].audits
         /\ req'[r].preferences = req[r].preferences /\ req'[r].key = k
         /\ req'[r].stored = AllowsInApp(r, k) /\ req'[r].audited = Audits(r, k)
         /\ req'[r].mailed = (delivered /\ AllowsExternalDelivery(r, k))
         /\ req'[r].change = req[r].change /\ req'[r].fresh = req[r].fresh
<1> DEFINE stored  == AllowsInApp(r, k)
           audited == Audits(r, k)
           mailed  == delivered /\ AllowsExternalDelivery(r, k)
           state   == [req[r] EXCEPT !.key = k, !.stored = stored, !.audited = audited,
                                     !.mailed = mailed]
<1>1. req[r] \in Active BY Flight DEF Create
<1>2. stored \in BOOLEAN /\ audited \in BOOLEAN /\ mailed \in BOOLEAN
  BY SeenType DEF Create
<1>3. req' = [req EXCEPT ![r] = state] BY <1>1 DEF Create, TypeOK
<1> HIDE DEF stored, audited, mailed
<1>4. state \in Active BY <1>1, <1>2 DEF Active
<1>5. /\ state.phase = "active" /\ state.rows = req[r].rows /\ state.audits = req[r].audits
      /\ state.preferences = req[r].preferences /\ state.key = k
      /\ state.stored = stored /\ state.audited = audited
      /\ state.mailed = mailed /\ state.change = req[r].change
      /\ state.fresh = req[r].fresh
  BY <1>1 DEF Active
<1> HIDE DEF state
<1>6. Others(r) /\ req' \in [Requests -> {Idle} \cup Active] /\ req'[r] = state
  BY <1>3, <1>4 DEF TypeOK, Others
<1> QED BY <1>5, <1>6 DEF IsActive, stored, audited, mailed

LEMMA ChangeGoes ==
  ASSUME TypeOK, NEW r \in Requests, NEW field \in Fields, ChangePreference(r, field)
  PROVE  /\ Others(r) /\ req' \in [Requests -> {Idle} \cup Active]
         /\ IsActive(r)' /\ req'[r].rows = req[r].rows /\ req'[r].audits = req[r].audits
         /\ req'[r].key = req[r].key /\ req'[r].stored = req[r].stored
         /\ req'[r].audited = req[r].audited /\ req'[r].mailed = req[r].mailed
         /\ req'[r].change = field /\ req'[r].fresh = (req[r].preferences = NULL)
         /\ req'[r].preferences \in Preference
<1>1. req[r] \in Active BY Flight DEF ChangePreference
<1>2. Seen(r) \in Preference BY <1>1 DEF Seen, Active, Preference, Defaults
<1> DEFINE changed == [Seen(r) EXCEPT ![field] = ~@]
<1>3. changed \in Preference BY <1>2 DEF Preference, Fields
<1> DEFINE state == [req[r] EXCEPT !.change = field, !.fresh = (req[r].preferences = NULL),
                                   !.preferences = changed]
<1>4. req' = [req EXCEPT ![r] = state] BY <1>1 DEF ChangePreference, TypeOK
<1> HIDE DEF changed
<1>5. state \in Active BY <1>1, <1>3 DEF Active
<1>6. /\ state.phase = "active" /\ state.rows = req[r].rows /\ state.audits = req[r].audits
      /\ state.key = req[r].key /\ state.stored = req[r].stored
      /\ state.audited = req[r].audited /\ state.mailed = req[r].mailed
      /\ state.change = field /\ state.fresh = (req[r].preferences = NULL)
      /\ state.preferences = changed
  BY <1>1 DEF Active
<1> HIDE DEF state
<1> QED BY <1>3, <1>4, <1>5, <1>6 DEF TypeOK, Others, IsActive

(***************************************************************************)
(* What a request in flight knows. Its snapshot may be old but was true of *)
(* tables that only grow; of the key it announced either the row is there  *)
(* or it has inserted it, alone, and the same holds of the audit row.      *)
(***************************************************************************)
SnapshotPast == \A r \in Requests : IsActive(r) =>
  /\ \A k \in Keys : req[r].rows[k] # NULL => rows[k] # NULL
  /\ req[r].audits \subseteq audits

Announced == \A r \in Requests : IsActive(r) /\ req[r].key # NULL =>
  /\ req[r].key \in Critical => req[r].stored \/ rows[req[r].key] # NULL
  /\ req[r].key \in Audited  => req[r].audited \/ req[r].key \in audits

Inserting == \A r \in Requests : IsActive(r) =>
  /\ req[r].key = NULL => ~ req[r].stored /\ ~ req[r].audited /\ ~ req[r].mailed
  /\ req[r].stored => rows[req[r].key] = NULL
  /\ req[r].mailed /\ req[r].key \in Critical => req[r].stored

OneInserts == \A r, q \in Requests :
  IsActive(r) /\ IsActive(q) /\ req[r].stored /\ req[q].stored /\ r # q =>
    req[r].key # req[q].key

Changing == \A r \in Requests : IsActive(r) =>
  /\ req[r].change # NULL => req[r].preferences \in Preference
  /\ req[r].change # NULL /\ ~ req[r].fresh => preferences # NULL
  /\ req[r].preferences # NULL /\ req[r].change = NULL => preferences # NULL

\* Who is about to announce k by e-mail, were it critical, is the one who inserted k.
Mailing(k) == \E r \in Requests : IsActive(r) /\ req[r].key = k /\ req[r].mailed

MailedOnce == \A k \in Critical :
  \/ mails[k] = lost[k] /\ ~ Mailing(k)
  \/ mails[k] = lost[k] + 1 /\ (rows[k] # NULL \/ Mailing(k))

Inv ==
  /\ TypeOK /\ SnapshotPast /\ Announced /\ Inserting /\ OneInserts /\ Changing
  /\ StoredOnlyIfDone /\ CriticalIsStored /\ AuditFollows /\ MailedOnce

LEMMA InvInit == Init => Inv
<1> SUFFICES ASSUME Init PROVE Inv OBVIOUS
<1>1. TypeOK BY NotificationAssumption DEF Init, TypeOK
<1> QED BY <1>1 DEF Init, Inv, SnapshotPast, Announced, Inserting, OneInserts, Changing,
           StoredOnlyIfDone, CriticalIsStored, AuditFollows, MailedOnce, Mailing,
           IsActive, Idle

\* Everything a request in flight relies on, of one request.
Knows(r) ==
  /\ \A k \in Keys : req[r].rows[k] # NULL => rows[k] # NULL
  /\ req[r].audits \subseteq audits
  /\ req[r].key # NULL =>
       /\ req[r].key \in Critical => req[r].stored \/ rows[req[r].key] # NULL
       /\ req[r].key \in Audited  => req[r].audited \/ req[r].key \in audits
  /\ req[r].key = NULL => ~ req[r].stored /\ ~ req[r].audited /\ ~ req[r].mailed
  /\ req[r].stored => rows[req[r].key] = NULL
  /\ req[r].mailed /\ req[r].key \in Critical => req[r].stored
  /\ req[r].change # NULL => req[r].preferences \in Preference
  /\ req[r].change # NULL /\ ~ req[r].fresh => preferences # NULL
  /\ req[r].preferences # NULL /\ req[r].change = NULL => preferences # NULL

LEMMA AllKnow ==
  ASSUME \A r \in Requests : IsActive(r) => Knows(r)
  PROVE  SnapshotPast /\ Announced /\ Inserting /\ Changing
BY DEF Knows, SnapshotPast, Announced, Inserting, Changing

LEMMA EachKnows ==
  ASSUME SnapshotPast, Announced, Inserting, Changing, NEW r \in Requests, IsActive(r)
  PROVE  Knows(r)
BY DEF Knows, SnapshotPast, Announced, Inserting, Changing

\* Steps that change no table and nobody's announcement.
LEMMA QuietStep ==
  ASSUME Inv, NEW r \in Requests, Others(r), TypeOK', UNCHANGED tables,
         IsActive(r)' => Knows(r)',
         IsActive(r)' => \/ /\ IsActive(r)
                            /\ req'[r].stored = req[r].stored
                            /\ req'[r].stored => req'[r].key = req[r].key
                         \/ ~ req'[r].stored,
         MailedOnce'
  PROVE  Inv'
<1>1. \A q \in Requests : IsActive(q)' => Knows(q)'
  <2> SUFFICES ASSUME NEW q \in Requests, IsActive(q)', q # r PROVE Knows(q)' OBVIOUS
  <2>1. req'[q] = req[q] /\ IsActive(q) BY DEF Others, IsActive
  <2> QED BY <2>1, EachKnows DEF Inv, Knows, tables
<1>2. SnapshotPast' /\ Announced' /\ Inserting' /\ Changing'
  BY <1>1 DEF Knows, SnapshotPast, Announced, Inserting, Changing
<1>3. OneInserts' BY DEF Inv, OneInserts, Others, IsActive
<1>4. StoredOnlyIfDone' /\ CriticalIsStored' /\ AuditFollows'
  BY DEF Inv, StoredOnlyIfDone, CriticalIsStored, AuditFollows, tables
<1> QED BY <1>2, <1>3, <1>4 DEF Inv

LEMMA FailStep ==
  ASSUME Inv, NEW r \in Requests, Fail(r)
  PROVE  Inv'
<1>1. TypeOK /\ End(r) /\ UNCHANGED <<tables, mails>> /\ IsActive(r) /\ req[r] \in Active
  BY Flight DEF Inv, Fail
<1>2. Others(r) /\ ~ IsActive(r)' BY <1>1, EndGoes
<1>3. Knows(r) BY <1>1, EachKnows DEF Inv
<1>4. req[r].mailed => req[r].key \in Keys BY <1>1, <1>3 DEF Knows, Active
<1>5. lost' \in [Keys -> Nat] BY <1>1, <1>4 DEF Fail, TypeOK
<1>6. TypeOK' BY <1>1, <1>5, EndGoes DEF TypeOK, tables
<1>7. MailedOnce'
  <2> SUFFICES ASSUME NEW k \in Critical
               PROVE  \/ mails'[k] = lost'[k] /\ ~ Mailing(k)'
                      \/ mails'[k] = lost'[k] + 1 /\ (rows'[k] # NULL \/ Mailing(k)')
    BY DEF MailedOnce
  <2>1. k \in Keys /\ lost[k] \in Nat /\ mails[k] \in Nat
    BY <1>1, NotificationAssumption DEF TypeOK
  <2>2. CASE req[r].mailed /\ req[r].key = k
    <3>1. lost'[k] = lost[k] + 1 BY <1>1, <2>1, <2>2 DEF Fail, TypeOK
    <3>2. Mailing(k) /\ req[r].stored /\ rows[k] = NULL BY <1>1, <1>3, <2>2 DEF Mailing, Knows
    <3>3. mails[k] = lost[k] + 1 BY <3>2 DEF Inv, MailedOnce
    <3>4. ~ Mailing(k)'
      BY <1>1, <1>2, <2>2, <3>2 DEF Inv, Mailing, Others, IsActive, OneInserts, Inserting
    <3> QED BY <1>1, <3>1, <3>3, <3>4
  <2>3. CASE ~ (req[r].mailed /\ req[r].key = k)
    <3>1. lost'[k] = lost[k] BY <1>1, <1>4, <2>1, <2>3 DEF Fail, TypeOK
    <3>2. Mailing(k)' <=> Mailing(k) BY <1>2, <2>3 DEF Mailing, Others, IsActive
    <3> QED BY <1>1, <3>1, <3>2 DEF Inv, MailedOnce, tables
  <2> QED BY <2>2, <2>3
<1> QED BY <1>1, <1>2, <1>6, <1>7, QuietStep

\* Who goes on without an announcement leaves the e-mails as they are.
LEMMA MailKeeps ==
  ASSUME Inv, NEW r \in Requests, Others(r), UNCHANGED <<rows, mails, lost>>,
         IsActive(r)' => ~ req'[r].mailed,
         IsActive(r) => ~ req[r].mailed
  PROVE  MailedOnce'
<1>1. \A k \in Critical : Mailing(k)' <=> Mailing(k) BY DEF Mailing, Others, IsActive
<1> QED BY <1>1 DEF Inv, MailedOnce

LEMMA BeginStep ==
  ASSUME Inv, NEW r \in Requests, Begin(r)
  PROVE  Inv'
<1>1. TypeOK /\ UNCHANGED <<tables, mails, lost>> /\ ~ IsActive(r) BY DEF Inv, Begin
<1>2. Others(r) /\ IsActive(r)' BY <1>1, BeginGoes
<1>3. TypeOK' BY <1>1, BeginGoes DEF TypeOK, tables
<1>4. Knows(r)' BY <1>1, BeginGoes DEF Knows, tables
<1>5. MailedOnce' BY <1>1, BeginGoes, MailKeeps DEF tables
<1> QED BY <1>1, <1>2, <1>3, <1>4, <1>5, BeginGoes, QuietStep

LEMMA FindStep ==
  ASSUME Inv, NEW r \in Requests, NEW k \in Keys, FindExisting(r, k)
  PROVE  Inv'
<1>1. TypeOK /\ UNCHANGED <<tables, mails, lost>> /\ IsActive(r) /\ req[r].key = NULL
  BY DEF Inv, FindExisting
<1>2. Knows(r) BY <1>1, EachKnows DEF Inv
<1>3. rows[k] # NULL BY <1>2 DEF FindExisting, NotFound, Knows
<1>4. k \in Audited => k \in audits BY <1>3 DEF Inv, StoredOnlyIfDone, AuditFollows
<1>5. TypeOK' BY <1>1, FindGoes DEF TypeOK, tables
<1>6. Knows(r)'
  BY <1>1, <1>2, <1>3, <1>4, FindGoes DEF Knows, tables
<1>7. MailedOnce' BY <1>1, <1>2, FindGoes, MailKeeps DEF Knows, tables
<1> QED BY <1>1, <1>2, <1>5, <1>6, <1>7, FindGoes, QuietStep DEF Knows

LEMMA ChangeStep ==
  ASSUME Inv, NEW r \in Requests, NEW field \in Fields, ChangePreference(r, field)
  PROVE  Inv'
<1>1. TypeOK /\ UNCHANGED <<tables, mails, lost>> /\ IsActive(r) /\ req[r].key = NULL
      /\ req[r].change = NULL
  BY DEF Inv, ChangePreference
<1>2. Knows(r) BY <1>1, EachKnows DEF Inv
<1>3. TypeOK' BY <1>1, ChangeGoes DEF TypeOK, tables
<1>4. Knows(r)'
  BY <1>1, <1>2, ChangeGoes, NotificationAssumption DEF Knows, tables
<1>5. MailedOnce' BY <1>1, <1>2, ChangeGoes, MailKeeps DEF Knows, tables
<1> QED BY <1>1, <1>2, <1>3, <1>4, <1>5, ChangeGoes, QuietStep DEF Knows

LEMMA CreateStep ==
  ASSUME Inv, NEW r \in Requests, NEW k \in Keys, NEW delivered \in BOOLEAN,
         Create(r, k, delivered)
  PROVE  Inv'
<1> DEFINE mailed == delivered /\ AllowsExternalDelivery(r, k)
<1>1. /\ TypeOK /\ UNCHANGED <<tables, lost>> /\ IsActive(r) /\ req[r].key = NULL
      /\ NotFound(r, k) /\ CanInsert(r, k)
      /\ mailed => mails[k] < MaxMails
      /\ mails' = IF mailed THEN [mails EXCEPT ![k] = @ + 1] ELSE mails
  BY DEF Inv, Create
<1>2. Knows(r) BY <1>1, EachKnows DEF Inv
<1>3. /\ Others(r) /\ IsActive(r)' /\ req'[r].key = k
      /\ req'[r].stored = AllowsInApp(r, k) /\ req'[r].mailed = mailed
  BY <1>1, CreateGoes
<1>4. k # NULL BY NotificationAssumption
<1>5. AllowsInApp(r, k) =>
        rows[k] = NULL /\ \A q \in Requests \ {r} :
                             ~ (IsActive(q) /\ req[q].key = k /\ req[q].stored)
  BY <1>1 DEF CanInsert, Waits
<1>6. TypeOK'
  <2>1. mails' \in [Keys -> 0 .. MaxMails] BY <1>1, NotificationAssumption DEF TypeOK
  <2> QED BY <1>1, <2>1, CreateGoes DEF TypeOK, tables
<1>7. Knows(r)'
  <2>1. k \in Critical => AllowsInApp(r, k) BY DEF AllowsInApp
  <2>2. k \in Audited => Audits(r, k) \/ k \in audits BY <1>2 DEF Audits, Knows
  <2> QED BY <1>1, <1>2, <1>4, <1>5, <2>1, <2>2, CreateGoes DEF Knows, tables
<1>8. \A q \in Requests : IsActive(q)' => Knows(q)'
  <2> SUFFICES ASSUME NEW q \in Requests, IsActive(q)', q # r PROVE Knows(q)' BY <1>7
  <2>1. req'[q] = req[q] /\ IsActive(q) BY <1>3 DEF Others, IsActive
  <2> QED BY <1>1, <2>1, EachKnows DEF Inv, Knows, tables
<1>9. SnapshotPast' /\ Announced' /\ Inserting' /\ Changing'
  BY <1>8 DEF Knows, SnapshotPast, Announced, Inserting, Changing
<1>10. OneInserts' BY <1>3, <1>5 DEF Inv, OneInserts, Others, IsActive
<1>11. MailedOnce'
  <2> SUFFICES ASSUME NEW c \in Critical
               PROVE  \/ mails'[c] = lost'[c] /\ ~ Mailing(c)'
                      \/ mails'[c] = lost'[c] + 1 /\ (rows'[c] # NULL \/ Mailing(c)')
    BY DEF MailedOnce
  <2>1. c \in Keys /\ lost[c] \in Nat /\ mails[c] \in Nat
    BY <1>1, NotificationAssumption DEF TypeOK
  <2>2. CASE c # k
    <3>1. Mailing(c)' <=> Mailing(c)
      <4>1. c # NULL BY <2>1, NotificationAssumption
      <4> QED BY <1>1, <1>3, <2>2, <4>1 DEF Mailing, Others, IsActive
    <3>2. mails'[c] = mails[c] BY <1>1, <2>1, <2>2 DEF TypeOK
    <3> QED BY <1>1, <3>1, <3>2 DEF Inv, MailedOnce, tables
  <2>3. CASE c = k
    <3>1. AllowsInApp(r, k) BY <2>3 DEF AllowsInApp
    <3>2. rows[k] = NULL BY <1>5, <3>1
    <3>3. ~ Mailing(k)
      <4> SUFFICES ASSUME NEW q \in Requests, IsActive(q), req[q].key = k, req[q].mailed
                   PROVE  FALSE
        BY DEF Mailing
      <4>1. q # r BY <1>1, <1>4
      <4>2. req[q].stored BY <2>3, EachKnows DEF Inv, Knows
      <4> QED BY <1>5, <3>1, <4>1, <4>2
    <3>4. mails[k] = lost[k] BY <2>3, <3>2, <3>3 DEF Inv, MailedOnce
    <3>5. Mailing(k)' <=> mailed BY <1>3, <3>3 DEF Mailing, Others, IsActive
    <3>6. mails'[k] = IF mailed THEN mails[k] + 1 ELSE mails[k] BY <1>1 DEF TypeOK
    <3> QED BY <1>1, <2>3, <3>4, <3>5, <3>6
  <2> QED BY <2>2, <2>3
<1>12. StoredOnlyIfDone' /\ CriticalIsStored' /\ AuditFollows'
  BY <1>1 DEF Inv, StoredOnlyIfDone, CriticalIsStored, AuditFollows, tables
<1> QED BY <1>6, <1>9, <1>10, <1>11, <1>12 DEF Inv

\* Steps that end a request and write a table: what the others know stays true.
LEMMA EndStep ==
  ASSUME Inv, NEW r \in Requests, IsActive(r), End(r), TypeOK', UNCHANGED <<mails, lost>>,
         \A k \in Keys : rows[k] # NULL => rows'[k] # NULL,
         \A k \in Keys : rows[k] = NULL /\ rows'[k] # NULL => req[r].stored /\ req[r].key = k,
         audits \subseteq audits', preferences # NULL => preferences' # NULL,
         \A k \in Critical : Mailing(k) /\ ~ Mailing(k)' => rows'[k] # NULL,
         StoredOnlyIfDone', CriticalIsStored', AuditFollows'
  PROVE  Inv'
<1>1. Others(r) /\ ~ IsActive(r)' BY EndGoes DEF Inv
<1>2. \A q \in Requests : IsActive(q)' => Knows(q)'
  <2> SUFFICES ASSUME NEW q \in Requests, IsActive(q)' PROVE Knows(q)' OBVIOUS
  <2>1. q # r /\ req'[q] = req[q] /\ IsActive(q) BY <1>1 DEF Others, IsActive
  <2>2. Knows(q) /\ req[q].key \in Keys \cup {NULL}
    BY <2>1, EachKnows, Flight DEF Inv, Active
  <2>3. req[q].stored => req[q].key \in Keys /\ rows[req[q].key] = NULL
    BY <2>2 DEF Knows
  <2>4. req[q].stored => rows'[req[q].key] = NULL
    BY <2>1, <2>3 DEF Inv, OneInserts
  <2> QED BY <2>1, <2>2, <2>4, NotificationAssumption DEF Knows
<1>3. SnapshotPast' /\ Announced' /\ Inserting' /\ Changing'
  BY <1>2 DEF Knows, SnapshotPast, Announced, Inserting, Changing
<1>4. OneInserts' BY <1>1 DEF Inv, OneInserts, Others, IsActive
<1>5. MailedOnce'
  <2>1. \A k \in Critical : Mailing(k)' => Mailing(k) BY <1>1 DEF Mailing, Others, IsActive
  <2>2. \A k \in Critical : k \in Keys BY NotificationAssumption
  <2> QED BY <2>1, <2>2 DEF Inv, MailedOnce
<1> QED BY <1>3, <1>4, <1>5 DEF Inv

LEMMA CommitStep ==
  ASSUME Inv, NEW r \in Requests, Commit(r)
  PROVE  Inv'
<1> DEFINE key == req[r].key
<1>1. /\ TypeOK /\ End(r) /\ IsActive(r) /\ UNCHANGED <<mails, lost>> /\ key # NULL
      /\ req[r] \in Active
  BY Flight DEF Inv, Commit
<1>2. Knows(r) /\ key \in Keys BY <1>1, EachKnows DEF Inv, Active
<1>3. /\ done' = done \cup {key}
      /\ rows' = IF req[r].stored THEN [rows EXCEPT ![key] = [read |-> FALSE]] ELSE rows
      /\ audits' = IF req[r].audited THEN audits \cup {key} ELSE audits
  BY DEF Commit, Finished
<1>4. [read |-> FALSE] \in Notification BY DEF Notification
<1>5. rows' \in [Keys -> Notification \cup {NULL}] BY <1>1, <1>3, <1>4 DEF TypeOK
<1>6. preferences' \in Preference \cup {NULL}
  <2>1. CASE req[r].change = NULL BY <1>1, <2>1 DEF Commit, ChangedPreferences, TypeOK
  <2>2. CASE req[r].change # NULL /\ req[r].fresh
    BY <1>2, <2>2 DEF Commit, ChangedPreferences, Knows
  <2>3. CASE req[r].change # NULL /\ ~ req[r].fresh
    <3>1. req[r].preferences \in Preference /\ preferences \in Preference
      BY <1>1, <1>2, <2>3 DEF Knows, TypeOK
    <3>2. req[r].change \in Fields BY <1>1, <2>3 DEF Active
    <3>3. preferences' = [preferences EXCEPT ![req[r].change] = req[r].preferences[req[r].change]]
      BY <2>3 DEF Commit, ChangedPreferences
    <3>4. CASE req[r].change = "in_app" BY <3>1, <3>3, <3>4 DEF Preference
    <3>5. CASE req[r].change = "email" BY <3>1, <3>3, <3>5 DEF Preference
    <3> QED BY <3>2, <3>4, <3>5 DEF Fields
  <2> QED BY <2>1, <2>2, <2>3
<1>7. preferences # NULL => preferences' # NULL
  <2>1. CASE req[r].change = NULL BY <2>1 DEF Commit, ChangedPreferences
  <2>2. CASE req[r].change # NULL /\ req[r].fresh BY <2>2 DEF Commit
  <2>3. CASE req[r].change # NULL /\ ~ req[r].fresh
    <3>1. req[r].preferences \in Preference /\ preferences \in Preference
      BY <1>1, <1>2, <2>3 DEF Knows, TypeOK
    <3>2. req[r].change \in Fields BY <1>1, <2>3 DEF Active
    <3>3. preferences' = [preferences EXCEPT ![req[r].change] = req[r].preferences[req[r].change]]
      BY <2>3 DEF Commit, ChangedPreferences
    <3>4. preferences' \in Preference
      <4>1. CASE req[r].change = "in_app" BY <3>1, <3>3, <4>1 DEF Preference
      <4>2. CASE req[r].change = "email" BY <3>1, <3>3, <4>2 DEF Preference
      <4> QED BY <3>2, <4>1, <4>2 DEF Fields
    <3> QED BY <3>4, NotificationAssumption
  <2> QED BY <2>1, <2>2, <2>3
<1>8. TypeOK'
  <2>1. done' \subseteq Keys /\ audits' \subseteq Keys BY <1>1, <1>2, <1>3 DEF TypeOK
  <2> QED BY <1>1, <1>5, <1>6, <2>1, EndGoes DEF TypeOK
<1>9. [read |-> FALSE] # NULL BY <1>4, NotificationAssumption
<1>10. /\ \A k \in Keys : rows[k] # NULL => rows'[k] # NULL
       /\ \A k \in Keys : rows[k] = NULL /\ rows'[k] # NULL => req[r].stored /\ key = k
       /\ req[r].stored => rows'[key] # NULL
  BY <1>1, <1>2, <1>3, <1>9 DEF TypeOK
<1>11. \A k \in Critical : Mailing(k) /\ ~ Mailing(k)' => rows'[k] # NULL
  <2> SUFFICES ASSUME NEW k \in Critical, NEW q \in Requests,
                      IsActive(q), req[q].key = k, req[q].mailed, ~ Mailing(k)'
               PROVE  rows'[k] # NULL
    BY DEF Mailing
  <2>1. q = r BY <1>1, EndGoes DEF Mailing, Others, IsActive
  <2> QED BY <1>2, <1>10, <2>1 DEF Knows
<1>12. StoredOnlyIfDone' BY <1>3, <1>10 DEF Inv, StoredOnlyIfDone
<1>13. CriticalIsStored'
  <2> SUFFICES ASSUME NEW k \in Critical, k \in done' PROVE rows'[k] # NULL
    BY DEF CriticalIsStored
  <2>1. k \in Keys BY NotificationAssumption
  <2>2. CASE k \in done BY <1>10, <2>1, <2>2 DEF Inv, CriticalIsStored
  <2>3. CASE k = key BY <1>1, <1>2, <1>10, <2>1, <2>3 DEF Knows
  <2> QED BY <1>3, <2>2, <2>3
<1>14. AuditFollows' BY <1>1, <1>2, <1>3 DEF Inv, AuditFollows, Knows
<1> QED BY <1>1, <1>3, <1>7, <1>8, <1>10, <1>11, <1>12, <1>13, <1>14, EndStep

\* Looking at preferences, and reading notices.
LEMMA UserStep ==
  ASSUME Inv, NEW r \in Requests,
         \/ EnsurePreferences(r)
         \/ MarkAllRead(r)
         \/ \E k \in Keys : MarkRead(r, k)
  PROVE  Inv'
<1>1. /\ TypeOK /\ End(r) /\ IsActive(r) /\ UNCHANGED <<done, audits, mails, lost>>
      /\ req[r].key = NULL
  BY DEF Inv, EnsurePreferences, MarkAllRead, MarkRead
<1>2. Knows(r) BY <1>1, EachKnows DEF Inv
<1>3. [read |-> TRUE] \in Notification /\ [read |-> TRUE] # NULL
  <2>1. [read |-> TRUE] \in Notification BY DEF Notification
  <2> QED BY <2>1, NotificationAssumption
<1>4. /\ rows' \in [Keys -> Notification \cup {NULL}]
      /\ \A k \in Keys : rows'[k] = NULL <=> rows[k] = NULL
  <2>1. CASE EnsurePreferences(r) BY <1>1, <2>1 DEF EnsurePreferences, TypeOK
  <2>2. CASE MarkAllRead(r) BY <1>1, <1>3, <2>2 DEF MarkAllRead, TypeOK
  <2>3. ASSUME NEW k \in Keys, MarkRead(r, k)
        PROVE  /\ rows' \in [Keys -> Notification \cup {NULL}]
               /\ \A c \in Keys : rows'[c] = NULL <=> rows[c] = NULL
    <3>1. rows[k] # NULL /\ rows[k] \in Notification BY <1>1, <1>2, <2>3 DEF MarkRead, Knows, TypeOK
    <3> DEFINE new == [rows[k] EXCEPT !.read = TRUE]
    <3>2. new \in Notification BY <3>1 DEF Notification
    <3>3. rows' = rows \/ rows' = [rows EXCEPT ![k] = new]
      BY <1>1, <2>3 DEF MarkRead, TypeOK
    <3> HIDE DEF new
    <3>4. new # NULL BY <3>2, NotificationAssumption
    <3> QED BY <1>1, <3>1, <3>2, <3>3, <3>4 DEF TypeOK
  <2> QED BY <2>1, <2>2, <2>3
<1>5. preferences' \in Preference \cup {NULL} /\ (preferences # NULL => preferences' # NULL)
  <2>1. Defaults \in Preference BY DEF Defaults, Preference
  <2> QED BY <1>1, <2>1 DEF EnsurePreferences, MarkAllRead, MarkRead, TypeOK
<1>6. TypeOK' BY <1>1, <1>4, <1>5, EndGoes DEF TypeOK
<1>7. \A k \in Critical : Mailing(k) => Mailing(k)'
  <2>1. NULL \notin Critical /\ Others(r) BY <1>1, NotificationAssumption, EndGoes
  <2> QED BY <1>1, <2>1 DEF Mailing, Others, IsActive
<1>8. StoredOnlyIfDone' /\ CriticalIsStored' /\ AuditFollows'
  BY <1>1, <1>4, NotificationAssumption DEF Inv, StoredOnlyIfDone, CriticalIsStored, AuditFollows
<1> QED BY <1>1, <1>4, <1>5, <1>6, <1>7, <1>8, EndStep

LEMMA InvStep ==
  ASSUME Inv, [Next]_vars
  PROVE  Inv'
<1>1. CASE UNCHANGED vars
  BY <1>1 DEF vars, tables, Inv, TypeOK, SnapshotPast, Announced, Inserting, OneInserts, Changing,
     StoredOnlyIfDone, CriticalIsStored, AuditFollows, MailedOnce, Mailing, IsActive
<1>2. CASE Next
  <2> SUFFICES ASSUME NEW r \in Requests,
                      \/ Begin(r) \/ Fail(r) \/ Commit(r) \/ EnsurePreferences(r) \/ MarkAllRead(r)
                      \/ \E k \in Keys :
                           \/ FindExisting(r, k) \/ MarkRead(r, k)
                           \/ \E delivered \in BOOLEAN : Create(r, k, delivered)
                      \/ \E field \in Fields : ChangePreference(r, field)
               PROVE  Inv'
    BY <1>2 DEF Next
  <2> QED BY BeginStep, FailStep, CommitStep, UserStep, FindStep, CreateStep, ChangeStep
<1> QED BY <1>1, <1>2

LEMMA Safe == Spec => []Inv
BY InvInit, InvStep, PTL DEF Spec

\* Every variable keeps its type.
THEOREM TypeCorrect == Spec => []TypeOK
BY Safe, PTL DEF Inv

\* A row is there only if what it announces happened.
THEOREM StoredIsDone == Spec => []StoredOnlyIfDone
BY Safe, PTL DEF Inv

\* A critical event that happened has its row.
THEOREM CriticalStored == Spec => []CriticalIsStored
BY Safe, PTL DEF Inv

\* An audited event happened exactly if its audit row is there.
THEOREM AuditExact == Spec => []AuditFollows
BY Safe, PTL DEF Inv

\* Of the e-mails about a critical event at most one is not about a failed attempt.
THEOREM MailedAtMostOnce == Spec => []CriticalMailedOnce
<1>1. Inv => CriticalMailedOnce
  BY NotificationAssumption DEF Inv, MailedOnce, CriticalMailedOnce, TypeOK
<1> QED BY <1>1, Safe, PTL

\* An e-mail about what is stored comes only from a request that had the notices muted
\* and did not see the row.
THEOREM MailedBeforeRow == Spec => NoMailOverRow
<1> DEFINE Excused(k) == \E r \in Requests : /\ req'[r] # req[r]
                                             /\ ~ Seen(r).in_app /\ req[r].rows[k] = NULL
           Allowed == \A k \in Keys : mails'[k] > mails[k] /\ rows[k] # NULL => Excused(k)
<1>1. ASSUME Inv, NEW r \in Requests, NEW k \in Keys, NEW delivered \in BOOLEAN,
             Create(r, k, delivered)
      PROVE  Allowed
  <2> SUFFICES ASSUME NEW c \in Keys, mails'[c] > mails[c], rows[c] # NULL PROVE Excused(c)
    OBVIOUS
  <2>1. TypeOK /\ mails[c] \in Nat BY <1>1 DEF Inv, TypeOK
  <2>2. c = k BY <1>1, <2>1 DEF Create, TypeOK
  <2>3. ~ Seen(r).in_app BY <1>1, <2>2 DEF Create, CanInsert, AllowsInApp
  <2>4. req[r].rows[k] = NULL /\ req[r].key = NULL BY <1>1 DEF Create, NotFound
  <2>5. req'[r].key = k /\ k # NULL BY <1>1, <2>1, CreateGoes, NotificationAssumption
  <2> QED BY <2>2, <2>3, <2>4, <2>5
<1>2. ASSUME Inv, UNCHANGED mails PROVE Allowed
  <2>1. \A k \in Keys : mails[k] \in Nat BY <1>2 DEF Inv, TypeOK
  <2> QED BY <1>2, <2>1
<1>3. Inv /\ [Next]_vars => [Allowed]_vars
  BY <1>1, <1>2 DEF Next, vars, Begin, Fail, Commit, EnsurePreferences, MarkAllRead,
     FindExisting, MarkRead, ChangePreference
<1> QED BY <1>3, Safe, PTL DEF Spec, NoMailOverRow

=============================================================================
