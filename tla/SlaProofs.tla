----------------------------- MODULE SlaProofs -----------------------------
(***************************************************************************)
(* Theorems about SlaClock, for any requests, policy and bounds.           *)
(***************************************************************************)
EXTENDS SlaProperties, TLAPS

Column == {"status", "responseDue", "resolutionDue", "responded", "respondedWithin",
           "responseBreached", "resolved", "completedWithin", "resolutionBreached",
           "responseWarned", "resolutionWarned", "breached", "pausedAt", "totalPaused",
           "reopens"}

Stamps == {"resolved", "pausedAt", "responseDue", "resolutionDue"}

WorkType == [row: SlaRow, stamped: SUBSET Stamps, sent: SUBSET Notice]

\* The columns outside S are alike.
Only(S, new, old) == \A column \in Column \ S : new[column] = old[column]

\* The columns that answers, resolutions and evaluations write.
Judged == {"status", "responded", "respondedWithin", "responseBreached", "resolved",
           "completedWithin", "resolutionBreached", "responseWarned", "resolutionWarned",
           "breached"}

\* The notices a row's flags account for.
Flags(row) ==
  {n \in Notice : \/ n = <<"sla_warning", "first_response", row.reopens>> /\ row.responseWarned
                  \/ n = <<"sla_warning", "resolution", row.reopens>> /\ row.resolutionWarned
                  \/ n = <<"sla_breached", "first_response", row.reopens>> /\ row.responseBreached
                  \/ n = <<"sla_breached", "resolution", row.reopens>> /\ row.resolutionBreached}

\* No flag is taken back.
Ahead(new, old) ==
  /\ old.responseWarned => new.responseWarned
  /\ old.resolutionWarned => new.resolutionWarned
  /\ old.responseBreached => new.responseBreached
  /\ old.resolutionBreached => new.resolutionBreached

Accounted(row, ns) ==
  \A notice \in ns :
    /\ notice = <<"sla_warning", "first_response", row.reopens>> => row.responseWarned
    /\ notice = <<"sla_warning", "resolution", row.reopens>> => row.resolutionWarned
    /\ notice = <<"sla_breached", "first_response", row.reopens>> => row.responseBreached
    /\ notice = <<"sla_breached", "resolution", row.reopens>> => row.resolutionBreached

\* What answers, resolutions and evaluations keep of the row they read.
Kept(work, row) ==
  /\ work \in WorkType
  /\ work.row.responseDue = row.responseDue /\ work.row.resolutionDue = row.resolutionDue
  /\ work.row.totalPaused = row.totalPaused /\ work.row.pausedAt = row.pausedAt
  /\ work.row.reopens = row.reopens /\ work.stamped \subseteq {"resolved"}
  /\ Ahead(work.row, row)
  /\ work.sent \subseteq Flags(work.row)

\* The due dates and the total stay, and a date of pause that is written is the
\* present one or none.
Stays(work, row) ==
  /\ work.row.responseDue = row.responseDue /\ work.row.resolutionDue = row.resolutionDue
  /\ work.row.totalPaused = row.totalPaused
  /\ "responseDue" \notin work.stamped /\ "resolutionDue" \notin work.stamped
  /\ \/ work.row.pausedAt = row.pausedAt /\ "pausedAt" \notin work.stamped
     \/ work.row.pausedAt \in {now, NULL}

\* The time since the pause is added to the due dates and to the total.
Extends(work, row) ==
  /\ row.pausedAt # NULL /\ work.row.pausedAt = NULL
  /\ work.row.responseDue = row.responseDue + (now - row.pausedAt)
  /\ work.row.resolutionDue = row.resolutionDue + (now - row.pausedAt)
  /\ work.row.totalPaused = row.totalPaused + (now - row.pausedAt)
  /\ "responseDue" \in work.stamped /\ "resolutionDue" \in work.stamped

\* What every operation keeps.
Moved(work, row) ==
  /\ work \in WorkType
  /\ Stays(work, row) \/ Extends(work, row)
  /\ work.sent \subseteq Flags(work.row)
  /\ \/ work.row.reopens = row.reopens /\ Ahead(work.row, row)
     \/ work.row.reopens = row.reopens + 1 /\ work.sent = {}

LEMMA KeptIsMoved ==
  ASSUME NEW row \in SlaRow, NEW work, Kept(work, row) PROVE Moved(work, row)
BY DEF Kept, Moved, Stays

LEMMA WorkGoes ==
  ASSUME NEW row \in SlaRow
  PROVE  /\ Work(row) \in WorkType /\ Work(row).row = row /\ Work(row).sent = {}
         /\ Work(row).stamped = {} /\ Kept(Work(row), row)
BY DEF Work, WorkType, Kept, Ahead

\* A row in memory gets new values; what was sent stays.
LEMMA RowKept ==
  ASSUME NEW row \in SlaRow, NEW work, Kept(work, row),
         NEW new \in SlaRow,
         Only(Judged, new, work.row), Ahead(new, work.row),
         NEW stamped \in SUBSET {"resolved"},
         NEW sent, sent \subseteq work.sent \cup Flags(new)
  PROVE  Kept([row |-> new, stamped |-> stamped, sent |-> sent], row)
<1> DEFINE w == [row |-> new, stamped |-> stamped, sent |-> sent]
<1>1. /\ new.responseDue = work.row.responseDue /\ new.resolutionDue = work.row.resolutionDue
      /\ new.totalPaused = work.row.totalPaused /\ new.pausedAt = work.row.pausedAt
      /\ new.reopens = work.row.reopens
  BY DEF Only, Judged, Column
<1>2. Flags(work.row) \subseteq Flags(new) BY <1>1 DEF Flags, Ahead
<1>3. sent \subseteq Flags(new) BY <1>2 DEF Kept
<1>4. w.row = new /\ w.stamped = stamped /\ w.sent = sent OBVIOUS
<1>5. w \in WorkType BY <1>3 DEF WorkType, Stamps, Flags
<1> HIDE DEF w
<1>6. Ahead(new, row) BY DEF Ahead, Kept
<1>7. Kept(w, row) BY <1>1, <1>3, <1>4, <1>5, <1>6 DEF Kept
<1> QED BY <1>7 DEF w

(***************************************************************************)
(* What each computation does.                                             *)
(***************************************************************************)
LEMMA SendGoes ==
  ASSUME NEW row \in SlaRow, NEW work, Kept(work, row), NEW new \in SlaRow,
         Only(Judged, new, work.row), Ahead(new, work.row), NEW kind, NEW stage,
         <<kind, stage, work.row.reopens>> \in Flags(new)
  PROVE  LET done == Send([work EXCEPT !.row = new], kind, stage)
         IN  Kept(done, row) /\ done.row = new /\ done.stamped = work.stamped
<1> DEFINE n == <<kind, stage, work.row.reopens>>
           stamped == work.stamped
           sent == work.sent \cup {n}
           done == [row |-> new, stamped |-> stamped, sent |-> sent]
<1>1. work \in WorkType BY DEF Kept
<1>2. new.reopens = work.row.reopens BY DEF Only, Judged, Column
<1>3. [work EXCEPT !.row = new] = [row |-> new, stamped |-> work.stamped, sent |-> work.sent]
  BY <1>1 DEF WorkType
<1>4. Send([work EXCEPT !.row = new], kind, stage) = done
  <2> DEFINE w == [row |-> new, stamped |-> work.stamped, sent |-> work.sent]
  <2>1. w.row.reopens = work.row.reopens BY <1>2
  <2>2. [w EXCEPT !.sent = @ \cup {<<kind, stage, work.row.reopens>>}] = done OBVIOUS
  <2>3. Send(w, kind, stage) = done BY <2>1, <2>2, Zenon DEF Send
  <2> HIDE DEF done
  <2> QED BY <1>3, <2>3
<1>5. stamped \in SUBSET {"resolved"} BY DEF Kept
<1>6. sent \subseteq work.sent \cup Flags(new) OBVIOUS
<1>7. done.row = new /\ done.stamped = stamped OBVIOUS
<1> HIDE DEF n, sent
<1>8. Kept(done, row) BY <1>5, <1>6, RowKept
<1> QED BY <1>4, <1>7, <1>8

LEMMA KeptType ==
  ASSUME NEW row, NEW work, Kept(work, row)
  PROVE  work.row \in SlaRow /\ work.row.reopens \in Nat
BY DEF Kept, WorkType, SlaRow

LEMMA BreachResponseGoes ==
  ASSUME NEW row \in SlaRow, NEW work, Kept(work, row)
  PROVE  LET new == BreachResponse(work)
         IN  /\ Kept(new, row) /\ new.row.status = "BREACHED" /\ new.row.responseBreached
             /\ Only({"status", "breached", "responseBreached"}, new.row, work.row)
             /\ new.stamped = work.stamped
<1> DEFINE r == [MarkBreached(work.row) EXCEPT !.responseBreached = TRUE]
<1>1. work.row \in SlaRow /\ work.row.reopens \in Nat BY KeptType
<1>2. /\ r \in SlaRow /\ r.status = "BREACHED" /\ r.responseBreached
      /\ Only({"status", "breached", "responseBreached"}, r, work.row)
  BY <1>1 DEF SlaRow, SlaStatus, MarkBreached, Only, Column
<1>3. BreachResponse(work) = Send([work EXCEPT !.row = r], "sla_breached", "first_response")
  BY DEF BreachResponse
<1> HIDE DEF r
<1>4. Ahead(r, work.row) BY <1>2 DEF Ahead, Only, Column
<1>5. <<"sla_breached", "first_response", work.row.reopens>> \in Flags(r)
  BY <1>1, <1>2 DEF Flags, Notice, Stages, Only, Column
<1>6. Only(Judged, r, work.row) BY <1>2 DEF Only, Judged
<1> QED BY <1>2, <1>3, <1>4, <1>5, <1>6, SendGoes

LEMMA BreachResolutionGoes ==
  ASSUME NEW row \in SlaRow, NEW work, Kept(work, row)
  PROVE  LET new == BreachResolution(work)
         IN  /\ Kept(new, row) /\ new.row.status = "BREACHED" /\ new.row.resolutionBreached
             /\ Only({"status", "breached", "resolutionBreached"}, new.row, work.row)
             /\ new.stamped = work.stamped
<1> DEFINE r == [MarkBreached(work.row) EXCEPT !.resolutionBreached = TRUE]
<1>1. work.row \in SlaRow /\ work.row.reopens \in Nat BY KeptType
<1>2. /\ r \in SlaRow /\ r.status = "BREACHED" /\ r.resolutionBreached
      /\ Only({"status", "breached", "resolutionBreached"}, r, work.row)
  BY <1>1 DEF SlaRow, SlaStatus, MarkBreached, Only, Column
<1>3. BreachResolution(work) = Send([work EXCEPT !.row = r], "sla_breached", "resolution")
  BY DEF BreachResolution
<1> HIDE DEF r
<1>4. Ahead(r, work.row) BY <1>2 DEF Ahead, Only, Column
<1>5. <<"sla_breached", "resolution", work.row.reopens>> \in Flags(r)
  BY <1>1, <1>2 DEF Flags, Notice, Stages, Only, Column
<1>6. Only(Judged, r, work.row) BY <1>2 DEF Only, Judged
<1> QED BY <1>2, <1>3, <1>4, <1>5, <1>6, SendGoes

\* When an evaluation acts, stage by stage.
WarnsResponse(row) == ~row.responded /\ WarningDue(row.responseDue) /\ ~row.responseWarned
WarnsResolution(row) ==
  ~row.resolved /\ WarningDue(row.resolutionDue) /\ ~row.resolutionWarned
ExpiresResponse(row) == ~row.responded /\ now >= row.responseDue /\ ~row.responseBreached
ExpiresResolution(row) ==
  ~row.resolved /\ now >= row.resolutionDue /\ ~row.resolutionBreached

LEMMA WarnResponseGoes ==
  ASSUME NEW row \in SlaRow, NEW work, Kept(work, row)
  PROVE  LET new == WarnResponse(work)
         IN  /\ Kept(new, row) /\ Only({"responseWarned"}, new.row, work.row)
             /\ new.stamped = work.stamped /\ ~WarnsResponse(new.row)
             /\ ~WarnsResponse(work.row) => new = work
<1> DEFINE r == [work.row EXCEPT !.responseWarned = TRUE]
           due == WarnsResponse(work.row)
<1>1. work.row \in SlaRow /\ work.row.reopens \in Nat BY KeptType
<1>2. CASE ~due BY <1>2 DEF WarnResponse, WarnsResponse, Only
<1>3. CASE due
  <2>1. r \in SlaRow /\ r.responseWarned /\ Only({"responseWarned"}, r, work.row)
    BY <1>1 DEF SlaRow, Only, Column
  <2>2. [work EXCEPT !.row.responseWarned = TRUE] = [work EXCEPT !.row = r]
    BY DEF Kept, WorkType
  <2>3. WarnResponse(work) = Send([work EXCEPT !.row = r], "sla_warning", "first_response")
    BY <1>3, <2>2 DEF WarnResponse, WarnsResponse
  <2> HIDE DEF r
  <2>4. Ahead(r, work.row) BY <2>1 DEF Ahead, Only, Column
  <2>5. <<"sla_warning", "first_response", work.row.reopens>> \in Flags(r)
    BY <1>1, <2>1 DEF Flags, Notice, Stages, Only, Column
  <2>6. Only(Judged, r, work.row) BY <2>1 DEF Only, Judged
  <2>7. ~WarnsResponse(r) BY <2>1 DEF WarnsResponse
  <2> QED BY <1>3, <2>1, <2>3, <2>4, <2>5, <2>6, <2>7, SendGoes
<1> QED BY <1>2, <1>3

LEMMA WarnResolutionGoes ==
  ASSUME NEW row \in SlaRow, NEW work, Kept(work, row)
  PROVE  LET new == WarnResolution(work)
         IN  /\ Kept(new, row) /\ Only({"resolutionWarned"}, new.row, work.row)
             /\ new.stamped = work.stamped /\ ~WarnsResolution(new.row)
             /\ ~WarnsResolution(work.row) => new = work
<1> DEFINE r == [work.row EXCEPT !.resolutionWarned = TRUE]
           due == WarnsResolution(work.row)
<1>1. work.row \in SlaRow /\ work.row.reopens \in Nat BY KeptType
<1>2. CASE ~due BY <1>2 DEF WarnResolution, WarnsResolution, Only
<1>3. CASE due
  <2>1. r \in SlaRow /\ r.resolutionWarned /\ Only({"resolutionWarned"}, r, work.row)
    BY <1>1 DEF SlaRow, Only, Column
  <2>2. [work EXCEPT !.row.resolutionWarned = TRUE] = [work EXCEPT !.row = r]
    BY DEF Kept, WorkType
  <2>3. WarnResolution(work) = Send([work EXCEPT !.row = r], "sla_warning", "resolution")
    BY <1>3, <2>2 DEF WarnResolution, WarnsResolution
  <2> HIDE DEF r
  <2>4. Ahead(r, work.row) BY <2>1 DEF Ahead, Only, Column
  <2>5. <<"sla_warning", "resolution", work.row.reopens>> \in Flags(r)
    BY <1>1, <2>1 DEF Flags, Notice, Stages, Only, Column
  <2>6. Only(Judged, r, work.row) BY <2>1 DEF Only, Judged
  <2>7. ~WarnsResolution(r) BY <2>1 DEF WarnsResolution
  <2> QED BY <1>3, <2>1, <2>3, <2>4, <2>5, <2>6, <2>7, SendGoes
<1> QED BY <1>2, <1>3

LEMMA ExpireResponseGoes ==
  ASSUME NEW row \in SlaRow, NEW work, Kept(work, row)
  PROVE  LET new == ExpireResponse(work)
         IN  /\ Kept(new, row) /\ new.stamped = work.stamped
             /\ Only({"status", "breached", "responseBreached"}, new.row, work.row)
             /\ new.row.status \in {work.row.status, "BREACHED"}
             /\ ~ExpiresResponse(new.row)
             /\ ~ExpiresResponse(work.row) => new = work
<1>1. CASE ~ExpiresResponse(work.row)
  <2>1. ExpireResponse(work) = work BY <1>1 DEF ExpireResponse, ExpiresResponse
  <2> QED BY <1>1, <2>1 DEF Only
<1>2. CASE ExpiresResponse(work.row)
  <2>1. ExpireResponse(work) = BreachResponse(work)
    BY <1>2 DEF ExpireResponse, ExpiresResponse
  <2> QED BY <1>2, <2>1, BreachResponseGoes DEF ExpiresResponse
<1> QED BY <1>1, <1>2

LEMMA ExpireResolutionGoes ==
  ASSUME NEW row \in SlaRow, NEW work, Kept(work, row)
  PROVE  LET new == ExpireResolution(work)
         IN  /\ Kept(new, row) /\ new.stamped = work.stamped
             /\ Only({"status", "breached", "resolutionBreached"}, new.row, work.row)
             /\ new.row.status \in {work.row.status, "BREACHED"}
             /\ ~ExpiresResolution(new.row)
             /\ ~ExpiresResolution(work.row) => new = work
             /\ ExpiresResolution(work.row) => new.row.status = "BREACHED"
<1>1. CASE ~ExpiresResolution(work.row)
  <2>1. ExpireResolution(work) = work BY <1>1 DEF ExpireResolution, ExpiresResolution
  <2> QED BY <1>1, <2>1 DEF Only
<1>2. CASE ExpiresResolution(work.row)
  <2>1. ExpireResolution(work) = BreachResolution(work)
    BY <1>2 DEF ExpireResolution, ExpiresResolution
  <2> QED BY <1>2, <2>1, BreachResolutionGoes DEF ExpiresResolution
<1> QED BY <1>1, <1>2

Settled(row) == /\ ~WarnsResponse(row) /\ ~WarnsResolution(row)
                /\ ~ExpiresResponse(row) /\ ~ExpiresResolution(row)

LEMMA EvaluatedGoes ==
  ASSUME NEW row \in SlaRow
  PROVE  LET new == Evaluated(row)
         IN  /\ Kept(new, row) /\ new.stamped = {}
             /\ row.status = "PAUSED" => new.row = row
             /\ row.status # "PAUSED" => Settled(new.row)
             /\ new.row.status \in {row.status, "BREACHED"}
             /\ new.row.resolutionBreached =>
                  \/ row.resolutionBreached
                  \/ new.row.status = "BREACHED" /\ now >= row.resolutionDue
<1>1. CASE row.status = "PAUSED" BY <1>1, WorkGoes DEF Evaluated
<1>2. CASE row.status # "PAUSED"
  <2> DEFINE w0 == Work(row)
             w1 == WarnResponse(w0)
             w2 == WarnResolution(w1)
             w3 == ExpireResponse(w2)
             w4 == ExpireResolution(w3)
  <2>1. Evaluated(row) = w4 BY <1>2 DEF Evaluated
  <2>2. Kept(w0, row) /\ w0.row = row /\ w0.stamped = {} BY WorkGoes
  <2> HIDE DEF w0
  <2>3. /\ Kept(w1, row) /\ Only({"responseWarned"}, w1.row, w0.row)
        /\ w1.stamped = {} /\ ~WarnsResponse(w1.row)
    BY <2>2, WarnResponseGoes
  <2> HIDE DEF w1
  <2>4. /\ Kept(w2, row) /\ Only({"resolutionWarned"}, w2.row, w1.row)
        /\ w2.stamped = {} /\ ~WarnsResolution(w2.row)
    BY <2>3, WarnResolutionGoes
  <2> HIDE DEF w2
  <2>5. /\ Kept(w3, row) /\ w3.stamped = {}
        /\ Only({"status", "breached", "responseBreached"}, w3.row, w2.row)
        /\ w3.row.status \in {w2.row.status, "BREACHED"} /\ ~ExpiresResponse(w3.row)
    BY <2>4, ExpireResponseGoes
  <2> HIDE DEF w3
  <2>6. /\ Kept(w4, row) /\ w4.stamped = {}
        /\ Only({"status", "breached", "resolutionBreached"}, w4.row, w3.row)
        /\ w4.row.status \in {w3.row.status, "BREACHED"} /\ ~ExpiresResolution(w4.row)
        /\ ~ExpiresResolution(w3.row) => w4 = w3
        /\ ExpiresResolution(w3.row) => w4.row.status = "BREACHED"
    BY <2>5, ExpireResolutionGoes
  <2> HIDE DEF w4
  <2>7. Settled(w4.row)
    BY <2>3, <2>4, <2>5, <2>6 DEF Settled, Only, Column, WarnsResponse, WarnsResolution,
       ExpiresResponse, ExpiresResolution
  <2>8. w4.row.status \in {row.status, "BREACHED"}
    BY <2>2, <2>3, <2>4, <2>5, <2>6 DEF Only, Column
  <2>9. w4.row.resolutionBreached =>
          \/ row.resolutionBreached
          \/ w4.row.status = "BREACHED" /\ now >= row.resolutionDue
    <3>3. w3.row.resolutionBreached = row.resolutionBreached
      BY <2>2, <2>3, <2>4, <2>5 DEF Only, Column
    <3>1. CASE ~ExpiresResolution(w3.row)
      <4>1. w4 = w3 BY <2>6, <3>1
      <4> QED BY <4>1, <3>3, Zenon
    <3>2. CASE ExpiresResolution(w3.row)
      BY <2>2, <2>3, <2>4, <2>5, <2>6, <3>2 DEF Only, Column, ExpiresResolution
    <3> QED BY <3>1, <3>2
  <2> QED BY <1>2, <2>1, <2>6, <2>7, <2>8, <2>9
<1> QED BY <1>1, <1>2

LEMMA SettledStays ==
  ASSUME NEW row \in SlaRow, Settled(row) \/ row.status = "PAUSED"
  PROVE  Evaluated(row).row = row /\ Evaluated(row).sent = {}
<1>1. CASE row.status = "PAUSED" BY <1>1, WorkGoes DEF Evaluated
<1>2. CASE Settled(row) /\ row.status # "PAUSED"
  <2>1. Kept(Work(row), row) /\ Work(row).row = row /\ Work(row).sent = {} BY WorkGoes
  <2>2. WarnResponse(Work(row)) = Work(row) BY <1>2, <2>1, WarnResponseGoes DEF Settled
  <2>3. WarnResolution(Work(row)) = Work(row) BY <1>2, <2>1, WarnResolutionGoes DEF Settled
  <2>4. ExpireResponse(Work(row)) = Work(row) BY <1>2, <2>1, ExpireResponseGoes DEF Settled
  <2>5. ExpireResolution(Work(row)) = Work(row)
    BY <1>2, <2>1, ExpireResolutionGoes DEF Settled
  <2> QED BY <1>2, <2>1, <2>2, <2>3, <2>4, <2>5 DEF Evaluated
<1> QED BY <1>1, <1>2

\* Evaluating twice is evaluating once.
LEMMA EvaluateTwice ==
  ASSUME NEW row \in SlaRow
  PROVE  LET once  == Evaluated(row)
             again == Evaluated(once.row)
         IN  again.row = once.row /\ again.sent = {}
BY EvaluatedGoes, SettledStays, KeptType

LEMMA WorkEdited ==
  ASSUME NEW row \in SlaRow, NEW new \in SlaRow, Only(Judged, new, row), Ahead(new, row)
  PROVE  Kept(Work(new), row) /\ Work(new).row = new
<1>1. Kept(Work(row), row) /\ Work(row).row = row /\ Work(row).sent = {} BY WorkGoes
<1> DEFINE stamped == {}
           sent == {}
<1>2. Work(new) = [row |-> new, stamped |-> stamped, sent |-> sent] BY DEF Work
<1>3. stamped \in SUBSET {"resolved"} /\ sent \subseteq Work(row).sent \cup Flags(new)
  OBVIOUS
<1>4. Kept([row |-> new, stamped |-> stamped, sent |-> sent], row)
  <2> HIDE DEF stamped, sent
  <2> QED BY <1>1, <1>3, RowKept
<1> QED BY <1>2, <1>4

\* A comment of staff.
LEMMA RespondedGoes ==
  ASSUME NEW row \in SlaRow
  PROVE  LET new == Responded(row)
         IN  /\ Kept(new, row)
             /\ Only({"status", "responded", "respondedWithin", "responseBreached",
                      "breached"}, new.row, row)
             /\ new.row.status \in {row.status, "BREACHED"}
             /\ new.row.responseBreached # row.responseBreached =>
                  new.row.responded # row.responded
<1>1. CASE row.responded BY <1>1, WorkGoes DEF Responded, Only
<1>2. CASE ~row.responded
  <2> DEFINE within == now <= row.responseDue
             noted == [row EXCEPT !.responded = TRUE, !.respondedWithin = within]
  <2>7. within \in BOOLEAN OBVIOUS
  <2>2. Responded(row) = IF within THEN Work(noted) ELSE BreachResponse(Work(noted))
    BY <1>2 DEF Responded
  <2> HIDE DEF within
  <2>1. /\ noted \in SlaRow /\ noted.responded /\ noted.status = row.status
        /\ Only({"responded", "respondedWithin"}, noted, row)
    BY <2>7 DEF SlaRow, Only, Column
  <2> HIDE DEF noted
  <2>3. Only(Judged, noted, row) /\ Ahead(noted, row)
    BY <2>1 DEF Only, Judged, Ahead, Column
  <2>4. Kept(Work(noted), row) /\ Work(noted).row = noted
    BY <2>1, <2>3, WorkEdited
  <2>5. CASE within
    BY <1>2, <2>1, <2>2, <2>4, <2>5 DEF Only, Column
  <2>6. CASE ~within
    <3> DEFINE new == BreachResponse(Work(noted))
    <3>1. /\ Kept(new, row) /\ new.row.status = "BREACHED"
          /\ Only({"status", "breached", "responseBreached"}, new.row, noted)
      BY <2>4, BreachResponseGoes
    <3> HIDE DEF new
    <3>2. new.row.responded BY <2>1, <3>1 DEF Only, Column
    <3>3. Only({"status", "responded", "respondedWithin", "responseBreached", "breached"},
               new.row, row)
      BY <2>1, <3>1 DEF Only
    <3>4. Responded(row) = new BY <2>2, <2>6 DEF new
    <3> QED BY <1>2, <3>1, <3>2, <3>3, <3>4
  <2> QED BY <2>5, <2>6
<1> QED BY <1>1, <1>2

LEMMA FinalizedGoes ==
  ASSUME NEW row \in SlaRow
  PROVE  LET new == Finalized(row)
         IN  /\ Kept(new, row)
             /\ Only({"status", "breached", "respondedWithin", "responseBreached"},
                     new.row, row)
<1>1. CASE row.responded BY <1>1, WorkGoes DEF Finalized, Only
<1>2. CASE ~row.responded
  <2> DEFINE noted == [row EXCEPT !.respondedWithin = FALSE]
  <2>1. noted \in SlaRow /\ Only({"respondedWithin"}, noted, row)
    BY DEF SlaRow, Only, Column
  <2>2. Finalized(row) = IF row.responseBreached THEN Work(noted)
                         ELSE BreachResponse(Work(noted))
    BY <1>2 DEF Finalized
  <2> HIDE DEF noted
  <2>3. Only(Judged, noted, row) /\ Ahead(noted, row)
    BY <2>1 DEF Only, Judged, Ahead, Column
  <2>4. Kept(Work(noted), row) /\ Work(noted).row = noted
    BY <2>1, <2>3, WorkEdited
  <2>5. LET new == BreachResponse(Work(noted))
        IN  Kept(new, row) /\ Only({"status", "breached", "responseBreached"}, new.row, noted)
    BY <2>4, BreachResponseGoes
  <2> QED BY <2>1, <2>2, <2>4, <2>5 DEF Only
<1> QED BY <1>1, <1>2

\* Editing the row of a work.
LEMMA EditGoes ==
  ASSUME NEW row \in SlaRow, NEW work, Kept(work, row), NEW new \in SlaRow,
         Only(Judged, new, work.row), Ahead(new, work.row),
         NEW stamped \in SUBSET {"resolved"},
         NEW edited, edited = [row |-> new, stamped |-> stamped, sent |-> work.sent]
  PROVE  Kept(edited, row) /\ edited.row = new
BY RowKept

LEMMA EditedWork ==
  ASSUME NEW work \in WorkType, NEW new \in SlaRow,
         NEW stamped \in SUBSET {"resolved"}
  PROVE  [work EXCEPT !.row = new, !.stamped = stamped]
           = [row |-> new, stamped |-> stamped, sent |-> work.sent]
<1> DEFINE edited == [work EXCEPT !.row = new, !.stamped = stamped]
<1>1. edited \in WorkType BY DEF WorkType, Stamps
<1>2. edited.row = new /\ edited.stamped = stamped /\ edited.sent = work.sent BY DEF WorkType
<1> HIDE DEF edited
<1>3. edited = [row |-> edited.row, stamped |-> edited.stamped, sent |-> edited.sent]
  BY <1>1 DEF WorkType
<1>4. edited = [row |-> new, stamped |-> stamped, sent |-> work.sent] BY <1>2, <1>3
<1> QED BY <1>4 DEF edited

LEMMA ResolvedGoes ==
  ASSUME NEW row \in SlaRow
  PROVE  LET new == Resolved(row)
         IN  /\ Kept(new, row) /\ new.row.status = "COMPLETED"
             /\ new.row.resolutionBreached => row.resolutionBreached \/ now > row.resolutionDue
<1> DEFINE done == Finalized(row)
           late == now > row.resolutionDue
           r1 == [done.row EXCEPT !.resolved = TRUE, !.completedWithin = ~late]
           kept == [done EXCEPT !.row = r1, !.stamped = {"resolved"}]
           noted == IF late /\ ~row.resolutionBreached THEN BreachResolution(kept) ELSE kept
           r2 == [noted.row EXCEPT !.status = "COMPLETED"]
           new == [noted EXCEPT !.row.status = "COMPLETED"]
<1>1. /\ Kept(done, row)
      /\ Only({"status", "breached", "respondedWithin", "responseBreached"}, done.row, row)
  BY FinalizedGoes
<1>2. Resolved(row) = new BY DEF Resolved
<1>17. late \in BOOLEAN /\ (~late) \in BOOLEAN OBVIOUS
<1> HIDE DEF done, late
<1>3. done \in WorkType /\ done.row \in SlaRow BY <1>1, KeptType DEF Kept
<1>4. r1 \in SlaRow /\ Only({"resolved", "completedWithin"}, r1, done.row)
  BY <1>3, <1>17 DEF SlaRow, Only, Column
<1>5. kept = [row |-> r1, stamped |-> {"resolved"}, sent |-> done.sent]
  <2> HIDE DEF r1
  <2> QED BY <1>3, <1>4, EditedWork
<1> HIDE DEF r1, kept
<1>6. Only(Judged, r1, done.row) /\ Ahead(r1, done.row)
  BY <1>4 DEF Only, Judged, Ahead, Column
<1>7. Kept(kept, row) /\ kept.row = r1 BY <1>1, <1>4, <1>5, <1>6, EditGoes
<1>8. r1.resolutionBreached = row.resolutionBreached BY <1>1, <1>4 DEF Only, Column
<1>9. Kept(noted, row) /\ (noted.row.resolutionBreached => row.resolutionBreached \/ late)
  <2>1. CASE late /\ ~row.resolutionBreached BY <1>7, <2>1, BreachResolutionGoes
  <2>2. CASE ~(late /\ ~row.resolutionBreached) BY <1>7, <1>8, <2>2
  <2> QED BY <2>1, <2>2
<1> HIDE DEF noted
<1>10. noted \in WorkType /\ noted.row \in SlaRow BY <1>9, KeptType DEF Kept
<1>11. r2 \in SlaRow /\ r2.status = "COMPLETED" /\ Only({"status"}, r2, noted.row)
  BY <1>10 DEF SlaRow, SlaStatus, Only, Column
<1>12. new = [row |-> r2, stamped |-> noted.stamped, sent |-> noted.sent]
  BY <1>10 DEF WorkType
<1>13. noted.stamped \in SUBSET {"resolved"} BY <1>9 DEF Kept
<1> HIDE DEF r2, new
<1>14. Only(Judged, r2, noted.row) /\ Ahead(r2, noted.row)
  BY <1>11 DEF Only, Judged, Ahead, Column
<1>15. Kept(new, row) /\ new.row = r2 BY <1>9, <1>11, <1>12, <1>13, <1>14, EditGoes
<1>16. r2.resolutionBreached = noted.row.resolutionBreached BY <1>11 DEF Only, Column
<1> QED BY <1>2, <1>9, <1>11, <1>15, <1>16 DEF late

LEMMA ClosedGoes ==
  ASSUME NEW row \in SlaRow
  PROVE  LET new == Closed(row)
         IN  /\ Kept(new, row) /\ new.row.status = "COMPLETED"
             /\ new.row.resolutionBreached = row.resolutionBreached
<1> DEFINE done == Finalized(row)
           within == now <= row.resolutionDue
           r1 == [done.row EXCEPT !.resolved = TRUE, !.completedWithin = within]
           edited == [done EXCEPT !.row = r1]
           kept == IF row.resolved THEN done ELSE edited
           r2 == [kept.row EXCEPT !.status = "COMPLETED"]
           new == [kept EXCEPT !.row.status = "COMPLETED"]
<1>1. /\ Kept(done, row)
      /\ Only({"status", "breached", "respondedWithin", "responseBreached"}, done.row, row)
  BY FinalizedGoes
<1>2. Closed(row) = new BY DEF Closed
<1>17. within \in BOOLEAN OBVIOUS
<1> HIDE DEF done, within
<1>3. done \in WorkType /\ done.row \in SlaRow BY <1>1, KeptType DEF Kept
<1>4. r1 \in SlaRow /\ Only({"resolved", "completedWithin"}, r1, done.row)
  BY <1>3, <1>17 DEF SlaRow, Only, Column
<1>5. edited = [row |-> r1, stamped |-> done.stamped, sent |-> done.sent]
  BY <1>3 DEF WorkType
<1>6. done.stamped \in SUBSET {"resolved"} BY <1>1 DEF Kept
<1> HIDE DEF r1, edited
<1>7. Only(Judged, r1, done.row) /\ Ahead(r1, done.row)
  BY <1>4 DEF Only, Judged, Ahead, Column
<1>8. Kept(edited, row) /\ edited.row = r1 BY <1>1, <1>4, <1>5, <1>6, <1>7, EditGoes
<1>9. Kept(kept, row) /\ kept.row.resolutionBreached = row.resolutionBreached
  BY <1>1, <1>4, <1>8 DEF Only, Column
<1> HIDE DEF kept
<1>10. kept \in WorkType /\ kept.row \in SlaRow BY <1>9, KeptType DEF Kept
<1>11. r2 \in SlaRow /\ r2.status = "COMPLETED" /\ Only({"status"}, r2, kept.row)
  BY <1>10 DEF SlaRow, SlaStatus, Only, Column
<1>12. new = [row |-> r2, stamped |-> kept.stamped, sent |-> kept.sent]
  BY <1>10 DEF WorkType
<1>13. kept.stamped \in SUBSET {"resolved"} BY <1>9 DEF Kept
<1> HIDE DEF r2, new
<1>14. Only(Judged, r2, kept.row) /\ Ahead(r2, kept.row)
  BY <1>11 DEF Only, Judged, Ahead, Column
<1>15. Kept(new, row) /\ new.row = r2 BY <1>9, <1>11, <1>12, <1>13, <1>14, EditGoes
<1>16. r2.resolutionBreached = kept.row.resolutionBreached BY <1>11 DEF Only, Column
<1> QED BY <1>2, <1>9, <1>11, <1>15, <1>16

LEMMA CancelledGoes ==
  ASSUME NEW row \in SlaRow
  PROVE  LET new == Cancelled(row)
         IN  /\ Moved(new, row) /\ new.row.status = "CANCELLED"
             /\ Only({"pausedAt", "status"}, new.row, row) /\ new.row.pausedAt = NULL
<1> DEFINE r == [row EXCEPT !.pausedAt = NULL, !.status = "CANCELLED"]
<1>1. /\ r \in SlaRow /\ r.status = "CANCELLED" /\ r.pausedAt = NULL
      /\ Only({"pausedAt", "status"}, r, row)
  BY DEF SlaRow, SlaStatus, Only, Column
<1>2. Cancelled(row) = Work(r) BY DEF Cancelled
<1> HIDE DEF r
<1>3. /\ Work(r) \in WorkType /\ Work(r).row = r /\ Work(r).sent = {}
      /\ Work(r).stamped = {}
  BY <1>1, WorkGoes
<1>4. /\ r.responseDue = row.responseDue /\ r.resolutionDue = row.resolutionDue
      /\ r.totalPaused = row.totalPaused /\ r.reopens = row.reopens /\ Ahead(r, row)
  BY <1>1 DEF Only, Column, Ahead
<1> QED BY <1>1, <1>2, <1>3, <1>4 DEF Moved, Stays

LEMMA ReopenedGoes ==
  ASSUME NEW row \in SlaRow
  PROVE  LET new == Reopened(row)
         IN  /\ Moved(new, row) /\ new.row.status = "ACTIVE" /\ ~new.row.resolutionBreached
             /\ new.row.reopens = row.reopens + 1 /\ new.sent = {}
             /\ new.row.pausedAt = row.pausedAt
<1> DEFINE count == row.reopens + 1
           r == [row EXCEPT !.reopens = count, !.resolved = FALSE, !.completedWithin = NULL,
                            !.resolutionBreached = FALSE, !.status = "ACTIVE"]
<1>5. count \in Nat BY DEF SlaRow
<1>2. Reopened(row) = Work(r) BY DEF Reopened
<1> HIDE DEF count
<1>1. /\ r \in SlaRow /\ r.status = "ACTIVE" /\ ~r.resolutionBreached
      /\ r.reopens = count
      /\ Only({"reopens", "resolved", "completedWithin", "resolutionBreached", "status"}, r, row)
  BY <1>5 DEF SlaRow, SlaStatus, Only, Column
<1> HIDE DEF r
<1>3. /\ Work(r) \in WorkType /\ Work(r).row = r /\ Work(r).sent = {}
      /\ Work(r).stamped = {}
  BY <1>1, WorkGoes
<1>4. /\ r.responseDue = row.responseDue /\ r.resolutionDue = row.resolutionDue
      /\ r.totalPaused = row.totalPaused /\ r.pausedAt = row.pausedAt
  BY <1>1 DEF Only, Column
<1> QED BY <1>1, <1>2, <1>3, <1>4 DEF Moved, Stays, count

LEMMA PausedGoes ==
  ASSUME NEW row \in SlaRow, now \in Nat
  PROVE  LET new == Paused(row)
         IN  /\ Moved(new, row) /\ new.row.status = "PAUSED" /\ new.row.pausedAt = now
             /\ Only({"pausedAt", "status"}, new.row, row)
<1> DEFINE r == [row EXCEPT !.pausedAt = now, !.status = "PAUSED"]
           stamped == {"pausedAt"}
<1>1. /\ r \in SlaRow /\ r.status = "PAUSED" /\ r.pausedAt = now
      /\ Only({"pausedAt", "status"}, r, row)
  BY DEF SlaRow, SlaStatus, Only, Column
<1>2. Paused(row) = [Work(r) EXCEPT !.stamped = stamped] BY DEF Paused
<1> HIDE DEF r
<1>3. /\ Work(r) \in WorkType /\ Work(r).row = r /\ Work(r).sent = {}
      /\ Work(r).stamped = {}
  BY <1>1, WorkGoes
<1>4. /\ stamped \in SUBSET Stamps
      /\ "responseDue" \notin stamped /\ "resolutionDue" \notin stamped
  BY DEF Stamps
<1> HIDE DEF stamped
<1>5. /\ Paused(row) \in WorkType /\ Paused(row).row = r /\ Paused(row).sent = {}
      /\ Paused(row).stamped = stamped
  BY <1>2, <1>3, <1>4 DEF WorkType
<1>6. /\ r.responseDue = row.responseDue /\ r.resolutionDue = row.resolutionDue
      /\ r.totalPaused = row.totalPaused /\ r.reopens = row.reopens /\ Ahead(r, row)
  BY <1>1 DEF Only, Column, Ahead
<1> QED BY <1>1, <1>4, <1>5, <1>6 DEF Moved, Stays

LEMMA ResumedGoes ==
  ASSUME NEW row \in SlaRow, now \in Nat, row.pausedAt # NULL, row.pausedAt <= now
  PROVE  LET new == Resumed(row)
         IN  /\ Moved(new, row) /\ new.row.status = "ACTIVE" /\ new.row.pausedAt = NULL
             /\ Only({"responseDue", "resolutionDue", "totalPaused", "pausedAt", "status"},
                     new.row, row)
<1> DEFINE extension == now - row.pausedAt
           response == row.responseDue + extension
           resolution == row.resolutionDue + extension
           total == row.totalPaused + extension
           stamped == {"responseDue", "resolutionDue"}
           r == [row EXCEPT !.responseDue = response, !.resolutionDue = resolution,
                            !.totalPaused = total, !.pausedAt = NULL, !.status = "ACTIVE"]
<1>1. extension \in Nat BY DEF SlaRow
<1>2. Resumed(row) = [Work(r) EXCEPT !.stamped = stamped] BY DEF Resumed, Extended
<1> HIDE DEF extension
<1>8. response \in Nat /\ resolution \in Nat /\ total \in Nat BY <1>1 DEF SlaRow
<1> HIDE DEF response, resolution, total
<1>3. /\ r \in SlaRow /\ r.status = "ACTIVE" /\ r.pausedAt = NULL
      /\ r.responseDue = response /\ r.resolutionDue = resolution
      /\ r.totalPaused = total
      /\ Only({"responseDue", "resolutionDue", "totalPaused", "pausedAt", "status"}, r, row)
  BY <1>8 DEF SlaRow, SlaStatus, Only, Column
<1> HIDE DEF r
<1>4. Work(r) \in WorkType /\ Work(r).row = r /\ Work(r).sent = {} BY <1>3, WorkGoes
<1>5. r.reopens = row.reopens /\ Ahead(r, row) BY <1>3 DEF Only, Column, Ahead
<1>6. /\ stamped \in SUBSET Stamps
      /\ "responseDue" \in stamped /\ "resolutionDue" \in stamped
  BY DEF Stamps
<1> HIDE DEF stamped
<1>7. /\ Resumed(row) \in WorkType /\ Resumed(row).row = r /\ Resumed(row).sent = {}
      /\ Resumed(row).stamped = stamped
  BY <1>2, <1>4, <1>6 DEF WorkType
<1>9. Extends(Resumed(row), row)
  BY <1>3, <1>6, <1>7 DEF Extends, extension, response, resolution, total
<1> QED BY <1>3, <1>5, <1>7, <1>9 DEF Moved

(***************************************************************************)
(* The write of a COMMIT: column by column, over a row that may have       *)
(* changed since the request read it.                                      *)
(***************************************************************************)
LEMMA RowIs ==
  ASSUME NEW a \in SlaRow, NEW b \in SlaRow, \A column \in Column : a[column] = b[column]
  PROVE  a = b
BY DEF SlaRow, Column

LEMMA WriteGoes ==
  ASSUME NEW current \in SlaRow, NEW seen \in SlaRow, NEW work \in WorkType
  PROVE  LET new == WriteChanged(current, seen, work)
         IN  /\ new \in SlaRow
             /\ \A column \in Column :
                  new[column] = IF column \in work.stamped \/ work.row[column] # seen[column]
                                THEN work.row[column] ELSE current[column]
             /\ current = seen => new = work.row
<1> DEFINE new == WriteChanged(current, seen, work)
<1>1. DOMAIN current = Column BY DEF SlaRow, Column
<1>2. new = [column \in Column |-> new[column]] BY <1>1 DEF WriteChanged
<1>3. \A column \in Column :
        new[column] = IF column \in work.stamped \/ work.row[column] # seen[column]
                      THEN work.row[column] ELSE current[column]
  BY <1>1 DEF WriteChanged
<1>4. work.row \in SlaRow BY DEF WorkType
<1> HIDE DEF new
<1>5. \A column \in Column : new[column] \in {work.row[column], current[column]} BY <1>3
<1>6. /\ new.status \in SlaStatus /\ new.responseDue \in Nat /\ new.resolutionDue \in Nat
      /\ new.responded \in BOOLEAN /\ new.respondedWithin \in BOOLEAN \cup {NULL}
      /\ new.responseBreached \in BOOLEAN
      /\ new.resolved \in BOOLEAN /\ new.completedWithin \in BOOLEAN \cup {NULL}
      /\ new.resolutionBreached \in BOOLEAN
      /\ new.responseWarned \in BOOLEAN /\ new.resolutionWarned \in BOOLEAN
      /\ new.breached \in BOOLEAN
      /\ new.pausedAt \in Nat \cup {NULL} /\ new.totalPaused \in Nat /\ new.reopens \in Nat
  BY <1>4, <1>5 DEF SlaRow, Column
<1>7. new \in SlaRow BY <1>2, <1>6 DEF SlaRow, Column
<1>8. ASSUME current = seen PROVE new = work.row
  <2>1. \A column \in Column : new[column] = work.row[column] BY <1>3, <1>8
  <2> QED BY <1>4, <1>7, <2>1, RowIs
<1> QED BY <1>3, <1>7, <1>8 DEF new

(***************************************************************************)
(* The invariant.                                                          *)
(***************************************************************************)
\* No pause is credited twice, nor one that goes on.
Credits(row) ==
  /\ row.responseDue + Resolution = row.resolutionDue + FirstResponse
  /\ row.responseDue <= FirstResponse + now /\ row.totalPaused <= now
  /\ row.pausedAt # NULL =>
       /\ row.pausedAt <= now
       /\ row.responseDue <= FirstResponse + row.pausedAt
       /\ row.totalPaused <= row.pausedAt

RowOK(row) == row \in SlaRow /\ Credits(row)

Typed ==
  /\ now \in 0 .. MaxTime /\ ticket \in TicketState /\ notices \subseteq Notice
  /\ RowOK(sla)
  /\ req \in [Requests -> {Idle} \cup InFlight]
  /\ \A r \in Requests : req[r].active => RowOK(req[r].sla)

\* Before any reopening the flags only rise, and those of a snapshot are behind.
Rising ==
  sla.reopens = 0 =>
    /\ Accounted(sla, notices)
    /\ \A r \in Requests : req[r].active => req[r].sla.reopens = 0 /\ Ahead(sla, req[r].sla)

\* What relates the record to its ticket and to the clock.
Agree(t, row) ==
  /\ row.status = "PAUSED" => row.pausedAt # NULL
  /\ row.resolutionBreached => /\ now >= row.resolutionDue
                               /\ row.status \notin {"ACTIVE", "PAUSED"}
  /\ t.status = "RESUELTO" => row.status \in {"COMPLETED", "BREACHED"}
  /\ t.status = "CERRADO" => row.status = "COMPLETED"
  /\ t.status = "CANCELADO" => row.status = "CANCELLED"

Freezes(new, old) ==
  old.status = "PAUSED" /\ new.status # "COMPLETED" =>
    /\ new.resolutionBreached = old.resolutionBreached
    /\ new.responseBreached # old.responseBreached => new.responded # old.responded

\* One request at a time sees what there is.
Serial ==
  ~overlapped =>
    /\ \A r \in Requests : req[r].active => req[r].ticket = ticket /\ req[r].sla = sla
    /\ \A r, q \in Requests : req[r].active /\ req[q].active => r = q
    /\ Accounted(sla, notices) /\ \A n \in notices : n[3] <= sla.reopens
    /\ Agree(ticket, sla)
    /\ sla.responseDue = FirstResponse + sla.totalPaused

Inv == Typed /\ Rising /\ Serial

LEMMA StartedGoes ==
  /\ Started \in SlaRow /\ Started.responseDue = FirstResponse
  /\ Started.resolutionDue = Resolution /\ Started.totalPaused = 0
  /\ Started.pausedAt = NULL /\ Started.status = "ACTIVE" /\ ~Started.resolutionBreached
BY SlaAssumption DEF Started, SlaRow, SlaStatus

LEMMA InvInit == HistoryInit => Inv
<1> SUFFICES ASSUME HistoryInit PROVE Inv OBVIOUS
<1>1. Typed
  <2>1. RowOK(sla) BY StartedGoes, SlaAssumption DEF HistoryInit, Init, RowOK, Credits
  <2>2. now \in 0 .. MaxTime BY SlaAssumption DEF HistoryInit, Init
  <2>3. ticket \in TicketState
    BY DEF HistoryInit, Init, TicketState, Rules!TicketStatus
  <2> QED BY <2>1, <2>2, <2>3 DEF Typed, HistoryInit, Init, Idle
<1>2. Accounted(sla, notices) /\ \A n \in notices : n[3] <= sla.reopens
  BY DEF HistoryInit, Init, Accounted
<1>3. \A r \in Requests : ~req[r].active BY DEF HistoryInit, Init, Idle
<1>4. Agree(ticket, sla)
  <2>1. ticket.status = "NUEVO" /\ sla = Started BY DEF HistoryInit, Init
  <2> QED BY <2>1, StartedGoes DEF Agree
<1>5. sla.responseDue = FirstResponse + sla.totalPaused
  BY StartedGoes, SlaAssumption DEF HistoryInit, Init
<1> QED BY <1>1, <1>2, <1>3, <1>4, <1>5 DEF Inv, Rising, Serial

(***************************************************************************)
(* A COMMIT keeps the invariant.                                           *)
(***************************************************************************)
LEMMA ActiveType ==
  ASSUME Typed, NEW r \in Requests, req[r].active
  PROVE  /\ req[r] \in InFlight /\ req[r].sla \in SlaRow /\ req[r].ticket \in TicketState
         /\ RowOK(req[r].sla) /\ now \in Nat
<1>1. req[r] \in {Idle} \cup InFlight /\ RowOK(req[r].sla) BY DEF Typed
<1>2. req[r] \in InFlight BY <1>1 DEF Idle
<1>3. now \in Nat BY SlaAssumption DEF Typed
<1> QED BY <1>1, <1>2, <1>3 DEF InFlight

LEMMA EndsIdle ==
  ASSUME Typed, NEW r \in Requests, req' = [req EXCEPT ![r] = Idle]
  PROVE  /\ req' \in [Requests -> {Idle} \cup InFlight] /\ ~req'[r].active
         /\ \A q \in Requests : q # r => req'[q] = req[q]
BY DEF Typed, Idle

LEMMA CommitWrites ==
  ASSUME Typed, NEW r \in Requests, req[r].active, NEW newTicket, NEW work,
         Moved(work, req[r].sla), Commit(r, newTicket, work)
  PROVE  /\ sla' \in SlaRow
         /\ \A column \in Column :
              sla'[column] = IF column \in work.stamped \/ work.row[column] # req[r].sla[column]
                             THEN work.row[column] ELSE sla[column]
         /\ sla = req[r].sla => sla' = work.row
<1>1. req[r].sla \in SlaRow /\ sla \in SlaRow BY ActiveType DEF Typed, RowOK
<1>2. work \in WorkType BY DEF Moved
<1>3. sla' = WriteChanged(sla, req[r].sla, work) BY DEF Commit
<1> DEFINE seen == req[r].sla
           new == WriteChanged(sla, seen, work)
<1>4. seen \in SlaRow BY <1>1
<1> HIDE DEF seen
<1>5. /\ new \in SlaRow
      /\ \A column \in Column :
           new[column] = IF column \in work.stamped \/ work.row[column] # seen[column]
                         THEN work.row[column] ELSE sla[column]
      /\ sla = seen => new = work.row
  BY <1>1, <1>2, <1>4, WriteGoes
<1>6. sla' = new BY <1>3 DEF seen
<1> HIDE DEF new
<1> QED BY <1>5, <1>6 DEF seen

LEMMA CommitTyped ==
  ASSUME Typed, NEW r \in Requests, req[r].active, NEW newTicket \in TicketState, NEW work,
         Moved(work, req[r].sla), Commit(r, newTicket, work)
  PROVE  Typed'
<1> DEFINE seen == req[r].sla
<1>1. /\ sla' \in SlaRow
      /\ \A column \in Column :
           sla'[column] = IF column \in work.stamped \/ work.row[column] # seen[column]
                          THEN work.row[column] ELSE sla[column]
  BY CommitWrites
<1>2. RowOK(seen) /\ RowOK(sla) /\ seen \in SlaRow /\ sla \in SlaRow /\ now \in Nat
  BY ActiveType DEF Typed, RowOK
<1>3. work \in WorkType /\ work.row \in SlaRow BY DEF Moved, WorkType
<1> HIDE DEF seen
<1>4. Stays(work, seen) \/ Extends(work, seen) BY DEF seen, Moved
<1>5. /\ {seen.responseDue, seen.resolutionDue, seen.totalPaused} \subseteq Nat
      /\ {sla.responseDue, sla.resolutionDue, sla.totalPaused} \subseteq Nat
      /\ seen.pausedAt \in Nat \cup {NULL} /\ sla.pausedAt \in Nat \cup {NULL}
      /\ FirstResponse \in Nat /\ Resolution \in Nat
  BY <1>2, SlaAssumption DEF SlaRow
<1>6. Credits(seen) /\ Credits(sla) BY <1>2 DEF RowOK
<1>7. Credits(sla')
  <2>1. CASE Stays(work, seen)
    <3>1. /\ sla'.responseDue = sla.responseDue /\ sla'.resolutionDue = sla.resolutionDue
          /\ sla'.totalPaused \in {sla.totalPaused, seen.totalPaused}
          /\ sla'.pausedAt \in {sla.pausedAt, now, NULL}
      BY <1>1, <2>1 DEF Stays, Column
    <3>2. sla'.totalPaused = sla.totalPaused BY <1>1, <1>3, <2>1 DEF Stays, Column, WorkType, Stamps
    <3> QED BY <1>2, <1>5, <1>6, <3>1, <3>2 DEF Credits
  <2>2. CASE Extends(work, seen)
    <3>1. /\ sla'.responseDue = work.row.responseDue
          /\ sla'.resolutionDue = work.row.resolutionDue
          /\ sla'.totalPaused \in {sla.totalPaused, work.row.totalPaused}
          /\ sla'.pausedAt = NULL
      BY <1>1, <2>2 DEF Extends, Column
    <3>2. /\ seen.pausedAt \in Nat
          /\ work.row.responseDue = seen.responseDue + (now - seen.pausedAt)
          /\ work.row.resolutionDue = seen.resolutionDue + (now - seen.pausedAt)
          /\ work.row.totalPaused = seen.totalPaused + (now - seen.pausedAt)
      BY <1>5, <2>2 DEF Extends
    <3>3. /\ seen.responseDue <= FirstResponse + seen.pausedAt
          /\ seen.totalPaused <= seen.pausedAt
          /\ seen.responseDue + Resolution = seen.resolutionDue + FirstResponse
          /\ sla.totalPaused <= now
      BY <1>6, <2>2 DEF Credits, Extends
    <3>4. /\ work.row.responseDue + Resolution = work.row.resolutionDue + FirstResponse
          /\ work.row.responseDue <= FirstResponse + now
          /\ work.row.totalPaused <= now
      BY <1>2, <1>5, <3>2, <3>3
    <3> QED BY <3>1, <3>3, <3>4 DEF Credits
  <2> QED BY <1>4, <2>1, <2>2
<1>8. now' = now /\ ticket' = newTicket /\ notices' = notices \cup work.sent
      /\ req' = [req EXCEPT ![r] = Idle]
  BY DEF Commit
<1>9. RowOK(sla)' BY <1>1, <1>7, <1>8 DEF RowOK, Credits
<1>10. notices' \subseteq Notice BY <1>3, <1>8 DEF Typed, WorkType
<1>11. /\ req' \in [Requests -> {Idle} \cup InFlight] /\ ~req'[r].active
       /\ \A q \in Requests : q # r => req'[q] = req[q]
  BY <1>8, EndsIdle
<1>12. \A q \in Requests : (req[q].active => RowOK(req[q].sla))'
  <2> SUFFICES ASSUME NEW q \in Requests, req'[q].active PROVE RowOK(req[q].sla)' OBVIOUS
  <2>1. q # r /\ req'[q] = req[q] BY <1>11
  <2>2. RowOK(req[q].sla) BY <2>1 DEF Typed
  <2> QED BY <1>8, <2>1, <2>2 DEF RowOK, Credits
<1> QED BY <1>8, <1>9, <1>10, <1>11, <1>12 DEF Typed

LEMMA FlagsAccount ==
  ASSUME NEW row \in SlaRow, NEW new \in SlaRow, Ahead(new, row), new.reopens = row.reopens,
         NEW ns, Accounted(row, ns)
  PROVE  Accounted(new, ns \cup Flags(new))
BY DEF Accounted, Ahead, Flags

LEMMA CommitRising ==
  ASSUME Typed, Rising, NEW r \in Requests, req[r].active, NEW newTicket, NEW work,
         Moved(work, req[r].sla), Commit(r, newTicket, work)
  PROVE  Rising'
<1> SUFFICES ASSUME sla'.reopens = 0
             PROVE  /\ Accounted(sla, notices)'
                    /\ \A q \in Requests : req'[q].active =>
                         req'[q].sla.reopens = 0 /\ Ahead(sla', req'[q].sla)
  BY DEF Rising, Ahead
<1> DEFINE seen == req[r].sla
<1>1. /\ sla' \in SlaRow
      /\ \A column \in Column :
           sla'[column] = IF column \in work.stamped \/ work.row[column] # seen[column]
                          THEN work.row[column] ELSE sla[column]
  BY CommitWrites
<1>2. seen \in SlaRow /\ sla \in SlaRow BY ActiveType DEF Typed, RowOK
<1>3. work.row \in SlaRow /\ work.stamped \subseteq Stamps BY DEF Moved, WorkType
<1>4. Moved(work, seen) OBVIOUS
<1> HIDE DEF seen
<1>5. seen.reopens \in Nat /\ work.row.reopens \in Nat BY <1>2, <1>3 DEF SlaRow
<1>6. sla'.reopens = IF work.row.reopens # seen.reopens THEN work.row.reopens ELSE sla.reopens
  BY <1>1, <1>3 DEF Column, Stamps
<1>7. work.row.reopens = seen.reopens /\ sla.reopens = 0 /\ Ahead(work.row, seen)
  BY <1>4, <1>5, <1>6 DEF Moved
<1>8. /\ Accounted(sla, notices)
      /\ \A q \in Requests : req[q].active => req[q].sla.reopens = 0 /\ Ahead(sla, req[q].sla)
  BY <1>7 DEF Rising
<1>9. seen.reopens = 0 /\ Ahead(sla, seen) BY <1>8 DEF seen
<1>10. /\ sla'.responseWarned = IF work.row.responseWarned # seen.responseWarned
                                THEN work.row.responseWarned ELSE sla.responseWarned
       /\ sla'.resolutionWarned = IF work.row.resolutionWarned # seen.resolutionWarned
                                  THEN work.row.resolutionWarned ELSE sla.resolutionWarned
       /\ sla'.responseBreached = IF work.row.responseBreached # seen.responseBreached
                                  THEN work.row.responseBreached ELSE sla.responseBreached
       /\ sla'.resolutionBreached = IF work.row.resolutionBreached # seen.resolutionBreached
                                    THEN work.row.resolutionBreached ELSE sla.resolutionBreached
  BY <1>1, <1>3 DEF Column, Stamps
<1>11. Ahead(sla', sla) /\ Ahead(sla', work.row)
  <2>1. /\ {seen.responseWarned, seen.resolutionWarned, seen.responseBreached,
            seen.resolutionBreached} \subseteq BOOLEAN
        /\ {sla.responseWarned, sla.resolutionWarned, sla.responseBreached,
            sla.resolutionBreached} \subseteq BOOLEAN
        /\ {work.row.responseWarned, work.row.resolutionWarned, work.row.responseBreached,
            work.row.resolutionBreached} \subseteq BOOLEAN
    BY <1>2, <1>3 DEF SlaRow
  <2> QED BY <1>7, <1>9, <1>10, <2>1 DEF Ahead
<1>12. Flags(work.row) \subseteq Flags(sla')
  BY <1>7, <1>9, <1>11 DEF Flags, Ahead
<1>13. Accounted(sla', notices \cup Flags(sla'))
  BY <1>1, <1>2, <1>7, <1>8, <1>11, FlagsAccount
<1>14. notices' \subseteq notices \cup Flags(sla') BY <1>4, <1>12 DEF Moved, Commit
<1>15. Accounted(sla, notices)' BY <1>13, <1>14 DEF Accounted
<1>16. ~req'[r].active /\ \A q \in Requests : q # r => req'[q] = req[q]
  BY EndsIdle DEF Commit
<1>17. \A q \in Requests : req'[q].active =>
         req'[q].sla.reopens = 0 /\ Ahead(sla', req'[q].sla)
  BY <1>8, <1>11, <1>16 DEF Ahead
<1> QED BY <1>15, <1>17

LEMMA CommitSerial ==
  ASSUME Typed, Serial, ~overlapped, NEW r \in Requests, req[r].active,
         NEW newTicket, NEW work, Moved(work, req[r].sla), Commit(r, newTicket, work),
         Agree(newTicket, work.row)
  PROVE  Serial'
<1>1. req[r].sla = sla /\ \A q \in Requests : req[q].active => q = r BY DEF Serial
<1>2. sla' = work.row /\ now' = now /\ ticket' = newTicket
      /\ notices' = notices \cup work.sent
  BY <1>1, CommitWrites DEF Commit
<1>3. \A q \in Requests : ~req'[q].active BY <1>1, EndsIdle DEF Commit
<1>4. Agree(ticket, sla)' BY <1>2 DEF Agree
<1>5. sla \in SlaRow /\ work \in WorkType /\ work.row \in SlaRow
  BY DEF Typed, RowOK, Moved, WorkType
<1>6. sla.reopens \in Nat /\ work.row.reopens \in Nat BY <1>5 DEF SlaRow
<1>7. Accounted(sla, notices) /\ \A n \in notices : n[3] \in Nat /\ n[3] <= sla.reopens
  BY DEF Serial, Typed, Notice
<1>8. Accounted(sla, notices)' /\ \A n \in notices' : n[3] <= sla'.reopens
  <2>1. CASE work.row.reopens = sla.reopens /\ Ahead(work.row, sla)
    <3>1. notices' \subseteq notices \cup Flags(work.row) BY <1>2 DEF Moved
    <3>2. Accounted(work.row, notices \cup Flags(work.row))
      BY <1>5, <1>7, <2>1, FlagsAccount
    <3>3. \A n \in Flags(work.row) : n[3] <= work.row.reopens BY <1>6 DEF Flags
    <3> QED BY <1>2, <1>7, <2>1, <3>1, <3>2, <3>3 DEF Accounted
  <2>2. CASE work.row.reopens = sla.reopens + 1 /\ work.sent = {}
    <3>1. notices' = notices BY <1>2, <2>2
    <3>2. \A n \in notices : n[3] # work.row.reopens /\ n[3] <= work.row.reopens
      BY <1>6, <1>7, <2>2
    <3>3. Accounted(work.row, notices) BY <3>2 DEF Accounted
    <3> QED BY <1>2, <3>1, <3>2, <3>3 DEF Accounted
  <2> QED BY <1>1, <2>1, <2>2 DEF Moved
<1>9. sla'.responseDue = FirstResponse + sla'.totalPaused
  <2>1. Stays(work, sla) \/ Extends(work, sla) BY <1>1 DEF Moved
  <2>2. sla.responseDue = FirstResponse + sla.totalPaused BY DEF Serial
  <2>3. CASE Stays(work, sla) BY <1>2, <2>2, <2>3 DEF Stays
  <2>4. CASE Extends(work, sla)
    <3>1. /\ sla.pausedAt \in Nat /\ sla.totalPaused \in Nat /\ now \in Nat
          /\ FirstResponse \in Nat
      BY <1>5, <2>4, SlaAssumption DEF SlaRow, Extends, Typed
    <3>2. /\ work.row.responseDue = sla.responseDue + (now - sla.pausedAt)
          /\ work.row.totalPaused = sla.totalPaused + (now - sla.pausedAt)
      BY <2>4 DEF Extends
    <3> QED BY <1>2, <2>2, <3>1, <3>2
  <2> QED BY <2>1, <2>3, <2>4
<1> QED BY <1>3, <1>4, <1>8, <1>9 DEF Serial

(***************************************************************************)
(* Each operation is such a COMMIT.                                        *)
(***************************************************************************)
\* What a request that read what there is would leave.
Fits(r, newTicket, work) ==
  req[r].ticket = ticket /\ req[r].sla = sla /\ Agree(ticket, sla) =>
    Agree(newTicket, work.row) /\ Freezes(work.row, sla)

Does(r) ==
  /\ req[r].active
  /\ \E newTicket \in TicketState, work \in WorkType :
       /\ Commit(r, newTicket, work)
       /\ Moved(work, req[r].sla)
       /\ Fits(r, newTicket, work)

LEMMA DoesThis ==
  ASSUME NEW r \in Requests, req[r].active, NEW newTicket \in TicketState, NEW work,
         Commit(r, newTicket, work), Moved(work, req[r].sla), Fits(r, newTicket, work)
  PROVE  Does(r)
BY DEF Does, Moved

LEMMA TicketFields ==
  ASSUME Typed
  PROVE  /\ ticket.status \in Rules!TicketStatus /\ ticket.assigned \in BOOLEAN
         /\ ticket \in TicketState
BY DEF Typed, TicketState

LEMMA AssignDoes ==
  ASSUME Typed, NEW r \in Requests, Assign(r) \/ Release(r) PROVE Does(r)
<1>1. req[r].active /\ ticket.status \notin Rules!Terminal BY DEF Assign, Release
<1>2. PICK newTicket \in TicketState :
        /\ Commit(r, newTicket, Work(req[r].sla))
        /\ newTicket.status \in {ticket.status, "NUEVO", "ASIGNADO"}
  <2>1. CASE Assign(r)
    <3> DEFINE status == IF ticket.status = "NUEVO" THEN "ASIGNADO" ELSE ticket.status
               t == [status |-> status, assigned |-> TRUE]
    <3>1. status \in Rules!TicketStatus BY TicketFields DEF Rules!TicketStatus
    <3>2. status \in {ticket.status, "ASIGNADO"} OBVIOUS
    <3>3. Commit(r, t, Work(req[r].sla)) BY <2>1 DEF Assign
    <3> HIDE DEF status
    <3>4. t \in TicketState /\ t.status = status BY <3>1 DEF TicketState
    <3> HIDE DEF t
    <3> QED BY <3>2, <3>3, <3>4
  <2>2. CASE Release(r)
    <3> DEFINE t == [status |-> "NUEVO", assigned |-> FALSE]
    <3>1. t \in TicketState /\ t.status = "NUEVO" BY DEF TicketState, Rules!TicketStatus
    <3>2. Commit(r, t, Work(req[r].sla)) BY <2>2 DEF Release
    <3> HIDE DEF t
    <3> QED BY <3>1, <3>2
  <2> QED BY <2>1, <2>2
<1>3. /\ Moved(Work(req[r].sla), req[r].sla) /\ Work(req[r].sla).row = req[r].sla
  BY <1>1, ActiveType, WorkGoes, KeptIsMoved
<1>4. Fits(r, newTicket, Work(req[r].sla))
  BY <1>1, <1>2, <1>3 DEF Fits, Agree, Freezes, Rules!Terminal
<1> QED BY <1>1, <1>2, <1>3, <1>4, DoesThis

LEMMA ReopenDoes == ASSUME Typed, NEW r \in Requests, Reopen(r) PROVE Does(r)
<1> DEFINE seen == req[r].sla
           t == [ticket EXCEPT !.status = "EN_PROCESO"]
<1>1. req[r].active /\ req[r].ticket.status = "RESUELTO" /\ Commit(r, t, Reopened(seen))
  BY DEF Reopen
<1>2. t \in TicketState /\ t.status = "EN_PROCESO"
  BY TicketFields DEF TicketState, Rules!TicketStatus
<1>3. seen \in SlaRow BY <1>1, ActiveType
<1> HIDE DEF t
<1>4. /\ Moved(Reopened(seen), seen) /\ Reopened(seen).row.status = "ACTIVE"
      /\ ~Reopened(seen).row.resolutionBreached
  BY <1>3, ReopenedGoes
<1>5. Fits(r, t, Reopened(seen)) BY <1>1, <1>2, <1>4 DEF Fits, Agree, Freezes
<1> QED BY <1>1, <1>2, <1>4, <1>5, DoesThis

LEMMA CommentDoes == ASSUME Typed, NEW r \in Requests, Comment(r) PROVE Does(r)
<1> DEFINE seen == req[r].sla
           work == Responded(seen)
<1>1. /\ req[r].active /\ ticket.status \notin Rules!Terminal /\ Commit(r, ticket, work)
  BY DEF Comment
<1>2. seen \in SlaRow BY <1>1, ActiveType
<1>3. /\ Kept(work, seen) /\ work.row.status \in {seen.status, "BREACHED"}
      /\ work.row.responseBreached # seen.responseBreached =>
           work.row.responded # seen.responded
      /\ work.row.resolutionBreached = seen.resolutionBreached
      /\ work.row.resolutionDue = seen.resolutionDue /\ work.row.pausedAt = seen.pausedAt
  BY <1>2, RespondedGoes DEF Only, Column
<1>4. Moved(work, seen) BY <1>2, <1>3, KeptIsMoved
<1> HIDE DEF work
<1>5. Fits(r, ticket, work) BY <1>1, <1>3 DEF Fits, Agree, Freezes, Rules!Terminal
<1> QED BY <1>1, <1>4, <1>5, TicketFields, DoesThis

LEMMA PauseDoes == ASSUME Typed, NEW r \in Requests, Pause(r) PROVE Does(r)
<1> DEFINE seen == req[r].sla
           work == Paused(seen)
<1>1. /\ req[r].active /\ seen.status = "ACTIVE" /\ req[r].ticket.status \notin Rules!Terminal
      /\ Commit(r, ticket, work)
  BY DEF Pause
<1>2. seen \in SlaRow /\ now \in Nat BY <1>1, ActiveType
<1>3. /\ Moved(work, seen) /\ work.row.status = "PAUSED" /\ work.row.pausedAt = now
      /\ work.row.resolutionBreached = seen.resolutionBreached
  BY <1>2, PausedGoes DEF Only, Column
<1>4. now # NULL BY <1>2, SlaAssumption
<1> HIDE DEF work
<1>5. Fits(r, ticket, work)
  <2> SUFFICES ASSUME req[r].ticket = ticket, seen = sla, Agree(ticket, sla)
               PROVE  Agree(ticket, work.row) /\ Freezes(work.row, sla)
    BY DEF Fits
  <2>1. ~sla.resolutionBreached BY <1>1 DEF Agree
  <2> QED BY <1>1, <1>3, <1>4, <2>1 DEF Agree, Freezes, Rules!Terminal
<1> QED BY <1>1, <1>3, <1>5, TicketFields, DoesThis

LEMMA ResumeDoes == ASSUME Typed, NEW r \in Requests, Resume(r) PROVE Does(r)
<1> DEFINE seen == req[r].sla
           work == Resumed(seen)
<1>1. /\ req[r].active /\ seen.status = "PAUSED" /\ seen.pausedAt # NULL
      /\ Commit(r, ticket, work)
  BY DEF Resume
<1>2. seen \in SlaRow /\ now \in Nat /\ seen.pausedAt <= now BY <1>1, ActiveType DEF RowOK, Credits
<1>3. /\ Moved(work, seen) /\ work.row.status = "ACTIVE"
      /\ work.row.resolutionBreached = seen.resolutionBreached
      /\ work.row.responseBreached = seen.responseBreached
  BY <1>1, <1>2, ResumedGoes DEF Only, Column
<1> HIDE DEF work
<1>5. Fits(r, ticket, work)
  <2> SUFFICES ASSUME req[r].ticket = ticket, seen = sla, Agree(ticket, sla)
               PROVE  Agree(ticket, work.row) /\ Freezes(work.row, sla)
    BY DEF Fits
  <2>1. ~sla.resolutionBreached BY <1>1 DEF Agree
  <2> QED BY <1>1, <1>3, <2>1 DEF Agree, Freezes
<1> QED BY <1>1, <1>3, <1>5, TicketFields, DoesThis

LEMMA EvaluateDoes == ASSUME Typed, NEW r \in Requests, Evaluate(r) PROVE Does(r)
<1> DEFINE seen == req[r].sla
           work == Evaluated(seen)
<1>1. /\ req[r].active /\ Commit(r, ticket, work)
      /\ req[r].ticket.status \notin Rules!Terminal /\ seen.status \notin {"COMPLETED", "CANCELLED"}
  BY DEF Evaluate, Evaluable
<1>2. seen \in SlaRow BY <1>1, ActiveType
<1>3. /\ Kept(work, seen) /\ work.row.status \in {seen.status, "BREACHED"}
      /\ seen.status = "PAUSED" => work.row = seen
      /\ work.row.resolutionBreached =>
           \/ seen.resolutionBreached
           \/ work.row.status = "BREACHED" /\ now >= seen.resolutionDue
  BY <1>2, EvaluatedGoes
<1>4. Moved(work, seen) BY <1>2, <1>3, KeptIsMoved
<1>5. work.row.resolutionDue = seen.resolutionDue /\ work.row.pausedAt = seen.pausedAt
  BY <1>3 DEF Kept
<1> HIDE DEF work
<1>6. Fits(r, ticket, work)
  <2> SUFFICES ASSUME req[r].ticket = ticket, seen = sla, Agree(ticket, sla)
               PROVE  Agree(ticket, work.row) /\ Freezes(work.row, sla)
    BY DEF Fits
  <2>1. Freezes(work.row, sla) BY <1>3 DEF Freezes
  <2>2. Agree(ticket, work.row) BY <1>1, <1>3, <1>5 DEF Agree, Rules!Terminal
  <2> QED BY <2>1, <2>2
<1> QED BY <1>1, <1>4, <1>6, TicketFields, DoesThis

LEMMA StatusDoes ==
  ASSUME Typed, NEW r \in Requests, NEW new \in Rules!TicketStatus, ChangeStatus(r, new)
  PROVE  Does(r)
<1> DEFINE seen == req[r].sla
           old == ticket.status
           work == OnStatusChange(seen, old, new)
           t == [ticket EXCEPT !.status = new]
<1>1. /\ req[r].active /\ new \in Rules!AllowedTransitions(old) /\ Commit(r, t, work)
  BY DEF ChangeStatus
<1>2. seen \in SlaRow BY <1>1, ActiveType
<1>3. t \in TicketState /\ t.status = new BY TicketFields DEF TicketState
<1> HIDE DEF t, seen
<1>4. CASE new = "RESUELTO"
  <2>1. work = Resolved(seen) BY <1>4 DEF OnStatusChange
  <2>2. /\ Kept(work, seen) /\ work.row.status = "COMPLETED"
        /\ work.row.resolutionBreached => seen.resolutionBreached \/ now > seen.resolutionDue
    BY <1>2, <2>1, ResolvedGoes
  <2>3. Moved(work, seen) BY <1>2, <2>2, KeptIsMoved
  <2>4. work.row.resolutionDue = seen.resolutionDue /\ seen.resolutionDue \in Nat
    BY <1>2, <2>2 DEF Kept, SlaRow
  <2> HIDE DEF work
  <2>5. now \in Nat BY SlaAssumption DEF Typed
  <2>6. Fits(r, t, work)
    <3> SUFFICES ASSUME seen = sla, Agree(ticket, sla)
                 PROVE  Agree(t, work.row) /\ Freezes(work.row, sla)
      BY DEF Fits, seen
    <3>1. work.row.resolutionBreached => now >= work.row.resolutionDue
      BY <2>2, <2>4, <2>5 DEF Agree
    <3> QED BY <1>3, <1>4, <2>2, <3>1 DEF Agree, Freezes
  <2> QED BY <1>1, <1>3, <2>3, <2>6, DoesThis DEF seen
<1>5. CASE new = "CERRADO"
  <2>1. work = Closed(seen) BY <1>5 DEF OnStatusChange
  <2>2. /\ Kept(work, seen) /\ work.row.status = "COMPLETED"
        /\ work.row.resolutionBreached = seen.resolutionBreached
    BY <1>2, <2>1, ClosedGoes
  <2>3. Moved(work, seen) BY <1>2, <2>2, KeptIsMoved
  <2>4. work.row.resolutionDue = seen.resolutionDue BY <2>2 DEF Kept
  <2> HIDE DEF work
  <2>6. Fits(r, t, work) BY <1>3, <1>5, <2>2, <2>4 DEF Fits, Agree, Freezes, seen
  <2> QED BY <1>1, <1>3, <2>3, <2>6, DoesThis DEF seen
<1>6. CASE new = "CANCELADO"
  <2>1. work = Cancelled(seen) BY <1>6 DEF OnStatusChange
  <2>2. /\ Moved(work, seen) /\ work.row.status = "CANCELLED"
        /\ work.row.resolutionBreached = seen.resolutionBreached
        /\ work.row.responseBreached = seen.responseBreached
        /\ work.row.resolutionDue = seen.resolutionDue
    BY <1>2, <2>1, CancelledGoes DEF Only, Column
  <2> HIDE DEF work
  <2>6. Fits(r, t, work) BY <1>3, <1>6, <2>2 DEF Fits, Agree, Freezes, seen
  <2> QED BY <1>1, <1>3, <2>2, <2>6, DoesThis DEF seen
<1>7. CASE old = "RESUELTO" /\ new = "EN_PROCESO"
  <2>1. work = Reopened(seen) BY <1>7 DEF OnStatusChange
  <2>2. /\ Moved(work, seen) /\ work.row.status = "ACTIVE" /\ ~work.row.resolutionBreached
    BY <1>2, <2>1, ReopenedGoes
  <2> HIDE DEF work
  <2>6. Fits(r, t, work) BY <1>3, <1>7, <2>2 DEF Fits, Agree, Freezes, seen
  <2> QED BY <1>1, <1>3, <2>2, <2>6, DoesThis DEF seen
<1>8. CASE /\ new \notin {"RESUELTO", "CERRADO", "CANCELADO"}
           /\ ~(old = "RESUELTO" /\ new = "EN_PROCESO")
  <2>1. work = Work(seen) BY <1>8 DEF OnStatusChange
  <2>2. Moved(work, seen) /\ work.row = seen BY <1>2, <2>1, WorkGoes, KeptIsMoved
  <2> HIDE DEF work
  <2>6. Fits(r, t, work) BY <1>3, <1>8, <2>2 DEF Fits, Agree, Freezes, seen
  <2> QED BY <1>1, <1>3, <2>2, <2>6, DoesThis DEF seen
<1> QED BY <1>4, <1>5, <1>6, <1>7, <1>8

(***************************************************************************)
(* Every step keeps the invariant.                                         *)
(***************************************************************************)
LEMMA BeginGoes ==
  ASSUME Typed, NEW r \in Requests, Begin(r)
  PROVE  /\ Typed' /\ req'[r].active /\ ~req[r].active
         /\ req'[r].ticket = ticket /\ req'[r].sla = sla
         /\ \A q \in Requests : q # r => req'[q] = req[q]
<1> DEFINE state == [active |-> TRUE, ticket |-> ticket, sla |-> sla, notices |-> notices]
<1>1. state \in InFlight BY DEF Typed, RowOK, InFlight
<1>2. state.active /\ state.ticket = ticket /\ state.sla = sla OBVIOUS
<1>3. /\ req' = [req EXCEPT ![r] = state] /\ ~req[r].active
      /\ UNCHANGED <<now, ticket, sla, notices>>
  BY DEF Begin
<1> HIDE DEF state
<1>4. /\ req' \in [Requests -> {Idle} \cup InFlight] /\ req'[r] = state
      /\ \A q \in Requests : q # r => req'[q] = req[q]
  BY <1>1, <1>3 DEF Typed
<1>5. \A q \in Requests : (req[q].active => RowOK(req[q].sla))'
  <2> SUFFICES ASSUME NEW q \in Requests, req'[q].active PROVE RowOK(req[q].sla)' OBVIOUS
  <2>1. CASE q = r BY <1>2, <1>3, <1>4, <2>1 DEF Typed, RowOK, Credits
  <2>2. CASE q # r
    <3>1. req'[q] = req[q] /\ RowOK(req[q].sla) BY <1>4, <2>2 DEF Typed
    <3> QED BY <1>3, <3>1 DEF RowOK, Credits
  <2> QED BY <2>1, <2>2
<1>6. RowOK(sla)' BY <1>3 DEF Typed, RowOK, Credits
<1> QED BY <1>2, <1>3, <1>4, <1>5, <1>6 DEF Typed

LEMMA TickTyped ==
  ASSUME Typed, Tick
  PROVE  Typed' /\ now \in Int /\ now' = now + 1
<1>1. now \in 0 .. MaxTime /\ now < MaxTime /\ now' = now + 1 /\ MaxTime \in Nat
  BY SlaAssumption DEF Typed, Tick
<1>2. now \in Nat /\ now' \in 0 .. MaxTime BY <1>1
<1>3. ASSUME NEW row, RowOK(row)
      PROVE  /\ row \in SlaRow
             /\ row.responseDue + Resolution = row.resolutionDue + FirstResponse
             /\ row.responseDue <= FirstResponse + now' /\ row.totalPaused <= now'
             /\ row.pausedAt # NULL =>
                  /\ row.pausedAt <= now'
                  /\ row.responseDue <= FirstResponse + row.pausedAt
                  /\ row.totalPaused <= row.pausedAt
  <2>1. /\ row.pausedAt \in Nat \cup {NULL} /\ row.responseDue \in Nat
        /\ row.totalPaused \in Nat /\ FirstResponse \in Nat
    BY <1>3, SlaAssumption DEF RowOK, SlaRow
  <2> QED BY <1>1, <1>2, <1>3, <2>1 DEF RowOK, Credits
<1>4. UNCHANGED <<ticket, sla, notices, req>> BY DEF Tick
<1>5. RowOK(sla)' BY <1>3, <1>4 DEF Typed, RowOK, Credits
<1>6. \A q \in Requests : (req[q].active => RowOK(req[q].sla))'
  BY <1>3, <1>4 DEF Typed, RowOK, Credits
<1> QED BY <1>1, <1>2, <1>4, <1>5, <1>6 DEF Typed

LEMMA Steps ==
  ASSUME Typed, Next
  PROVE  Tick \/ \E r \in Requests : Begin(r) \/ Rollback(r) \/ Does(r)
<1>1. CASE Tick BY <1>1
<1>2. ASSUME NEW r \in Requests,
             \/ Begin(r) \/ Rollback(r)
             \/ Assign(r) \/ Release(r)
             \/ \E new \in Rules!TicketStatus : ChangeStatus(r, new)
             \/ Reopen(r) \/ Comment(r) \/ Pause(r) \/ Resume(r) \/ Evaluate(r)
      PROVE  Begin(r) \/ Rollback(r) \/ Does(r)
  BY <1>2, AssignDoes, StatusDoes, ReopenDoes, CommentDoes, PauseDoes, ResumeDoes,
     EvaluateDoes
<1> QED BY <1>1, <1>2 DEF Next

LEMMA InvStep == ASSUME Inv, HistoryNext PROVE Inv'
<1>1. Typed /\ Rising /\ Serial /\ Next BY DEF Inv, HistoryNext
<1>2. /\ ~overlapped' => ~overlapped
      /\ ~overlapped' => \A r, q \in Requests : req'[r].active /\ req'[q].active => r = q
  BY DEF HistoryNext
<1>3. CASE Tick
  <2>1. UNCHANGED <<ticket, sla, notices, req>> BY <1>3 DEF Tick
  <2>2. Typed' /\ now \in Int /\ now' = now + 1 BY <1>1, <1>3, TickTyped
  <2>3. sla.resolutionDue \in Nat BY <1>1 DEF Typed, RowOK, SlaRow
  <2>4. Agree(ticket, sla) => Agree(ticket, sla)' BY <2>1, <2>2, <2>3 DEF Agree
  <2>5. Rising' BY <1>1, <2>1 DEF Rising, Accounted, Ahead
  <2>6. Serial' BY <1>1, <1>2, <2>1, <2>4 DEF Serial, Accounted
  <2> QED BY <2>2, <2>5, <2>6 DEF Inv
<1>4. ASSUME NEW r \in Requests, Begin(r) PROVE Inv'
  <2>1. /\ Typed' /\ req'[r].active /\ ~req[r].active
        /\ req'[r].ticket = ticket /\ req'[r].sla = sla
        /\ \A q \in Requests : q # r => req'[q] = req[q]
    BY <1>1, <1>4, BeginGoes
  <2>2. UNCHANGED <<now, ticket, sla, notices>> BY <1>4 DEF Begin
  <2>3. Rising'
    <3>1. Ahead(sla, sla) BY DEF Ahead
    <3> QED BY <1>1, <2>1, <2>2, <3>1 DEF Rising, Accounted, Ahead
  <2>4. Serial' BY <1>1, <1>2, <2>1, <2>2 DEF Serial, Accounted, Agree
  <2> QED BY <2>1, <2>3, <2>4 DEF Inv
<1>5. ASSUME NEW r \in Requests, Rollback(r) PROVE Inv'
  <2>1. UNCHANGED <<now, ticket, sla, notices>> BY <1>5 DEF Rollback
  <2>2. /\ req' \in [Requests -> {Idle} \cup InFlight] /\ ~req'[r].active
        /\ \A q \in Requests : q # r => req'[q] = req[q]
    BY <1>1, <1>5, EndsIdle DEF Rollback
  <2>3. Typed'
    <3>1. \A q \in Requests : (req[q].active => RowOK(req[q].sla))'
      BY <1>1, <2>1, <2>2 DEF Typed, RowOK, Credits
    <3>2. RowOK(sla)' BY <1>1, <2>1 DEF Typed, RowOK, Credits
    <3> QED BY <1>1, <2>1, <2>2, <3>1, <3>2 DEF Typed
  <2>4. Rising' BY <1>1, <2>1, <2>2 DEF Rising, Accounted, Ahead
  <2>5. Serial' BY <1>1, <1>2, <2>1, <2>2 DEF Serial, Accounted, Agree
  <2> QED BY <2>3, <2>4, <2>5 DEF Inv
<1>6. ASSUME NEW r \in Requests, Does(r) PROVE Inv'
  <2>1. PICK newTicket \in TicketState, work \in WorkType :
          /\ Commit(r, newTicket, work)
          /\ Moved(work, req[r].sla)
          /\ Fits(r, newTicket, work)
    BY <1>6 DEF Does
  <2>2. req[r].active BY <1>6 DEF Does
  <2>3. Typed' /\ Rising' BY <1>1, <2>1, <2>2, CommitTyped, CommitRising
  <2>4. Serial'
    <3>1. CASE overlapped' BY <3>1 DEF Serial
    <3>2. CASE ~overlapped'
      <4>1. ~overlapped BY <1>2, <3>2
      <4>2. Agree(newTicket, work.row) BY <1>1, <2>1, <2>2, <4>1 DEF Serial, Fits
      <4> QED BY <1>1, <2>1, <2>2, <4>1, <4>2, CommitSerial
    <3> QED BY <3>1, <3>2
  <2> QED BY <2>3, <2>4 DEF Inv
<1> QED BY <1>1, <1>3, <1>4, <1>5, <1>6, Steps

LEMMA Invariant == HistorySpec => []Inv
<1>1. Inv /\ UNCHANGED <<vars, overlapped>> => Inv'
  BY DEF vars, Inv, Typed, RowOK, Credits, Rising, Accounted, Ahead, Serial, Agree
<1> QED BY InvInit, InvStep, <1>1, PTL DEF HistorySpec

\* Every variable keeps its type, whatever the requests overwrite.
THEOREM TypeCorrect == HistorySpec => []TypeOK
<1>1. Inv => TypeOK BY DEF Inv, Typed, RowOK, TypeOK
<1> QED BY Invariant, <1>1, PTL

\* No second of pause is credited twice or to one stage only, whatever overlapped;
\* what one request after the other credits is what total_paused_seconds records.
THEOREM PausesCredited == HistorySpec => []PausesCreditedOnce
<1>1. ASSUME Inv PROVE PausesCreditedOnce
  <2>1. /\ {sla.responseDue, sla.resolutionDue, sla.totalPaused} \subseteq Nat
        /\ sla.pausedAt \in Nat \cup {NULL}
        /\ FirstResponse \in Nat /\ Resolution \in Nat /\ now \in Nat
    BY <1>1, SlaAssumption DEF Inv, Typed, RowOK, SlaRow
  <2>2. Credits(sla) BY <1>1 DEF Inv, Typed, RowOK
  <2>3. ~overlapped => sla.responseDue = FirstResponse + sla.totalPaused
    BY <1>1 DEF Inv, Serial
  <2> QED BY <2>1, <2>2, <2>3 DEF PausesCreditedOnce, Credit, Credits
<1> QED BY Invariant, <1>1, PTL

\* An evaluation repeated at once changes nothing and notifies nobody.
THEOREM EvaluationRepeats == HistorySpec => []EvaluationSettles
<1>1. Inv => EvaluationSettles
  BY EvaluateTwice DEF Inv, Typed, RowOK, EvaluationSettles
<1> QED BY Invariant, <1>1, PTL

\* The flags of the record account for every notification sent.
THEOREM NoticesAccounted == HistorySpec => []NoticesHaveFlags
<1>1. Inv => NoticesHaveFlags BY DEF Inv, Rising, Serial, Accounted, NoticesHaveFlags
<1> QED BY Invariant, <1>1, PTL

\* A paused record can be resumed.
THEOREM PauseResumes == HistorySpec => []PausedHasStart
<1>1. Inv => PausedHasStart BY DEF Inv, Serial, Agree, PausedHasStart
<1> QED BY Invariant, <1>1, PTL

\* No breach of the resolution time is marked early.
THEOREM BreachOnTime == HistorySpec => []BreachIsDue
<1>1. Inv => BreachIsDue BY DEF Inv, Serial, Agree, BreachIsDue
<1> QED BY Invariant, <1>1, PTL

\* The record of a closed or cancelled ticket is finished.
THEOREM TerminalFinishes == HistorySpec => []TerminalStopsClock
<1>1. Inv => TerminalStopsClock BY DEF Inv, Serial, Agree, TerminalStopsClock
<1> QED BY Invariant, <1>1, PTL

LEMMA FreezesStep ==
  ASSUME Inv, [HistoryNext]_<<vars, overlapped>>, ~overlapped
  PROVE  Freezes(sla', sla)
<1>1. CASE UNCHANGED sla BY <1>1 DEF Freezes
<1>2. ASSUME NEW r \in Requests, Does(r) PROVE Freezes(sla', sla)
  <2>1. PICK newTicket \in TicketState, work \in WorkType :
          /\ Commit(r, newTicket, work)
          /\ Moved(work, req[r].sla)
          /\ Fits(r, newTicket, work)
    BY <1>2 DEF Does
  <2>2. req[r].active BY <1>2 DEF Does
  <2>3. Freezes(work.row, sla) /\ req[r].sla = sla BY <2>1, <2>2 DEF Inv, Serial, Fits
  <2>4. sla' = work.row BY <2>1, <2>2, <2>3, CommitWrites DEF Inv
  <2> QED BY <2>3, <2>4
<1>3. CASE HistoryNext
  <2>1. Typed /\ Next BY <1>3 DEF Inv, HistoryNext
  <2> QED BY <1>1, <1>2, <2>1, Steps DEF Tick, Begin, Rollback
<1> QED BY <1>1, <1>3 DEF vars

\* Pausing freezes consumption, but for a first answer given during the pause.
THEOREM PauseFreezes == HistorySpec => PauseFreezesUnlessAnswered
<1>1. Inv /\ [HistoryNext]_<<vars, overlapped>> =>
        [~overlapped /\ sla.status = "PAUSED" /\ sla'.status # "COMPLETED" =>
           /\ sla'.resolutionBreached = sla.resolutionBreached
           /\ sla'.responseBreached # sla.responseBreached =>
                sla'.responded # sla.responded]_vars
  BY FreezesStep DEF Freezes
<1> QED BY Invariant, <1>1, PTL DEF HistorySpec, PauseFreezesUnlessAnswered

=============================================================================
