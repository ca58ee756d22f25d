------------------------------ MODULE FaqProofs ------------------------------
(***************************************************************************)
(* Theorems about FaqWorkflow, for any articles, texts, categories,        *)
(* requests and versions.                                                  *)
(***************************************************************************)
EXTENDS FaqProperties, SequenceTheorems, TLAPS

Others(r) == \A q \in Requests : q # r => req'[q] = req[q]

LEMMA RowPresent ==
  ASSUME NEW row \in FaqRow
  PROVE  row # Absent /\ row.version \in Nat
<1>1. row.status # "ABSENT" /\ row.version \in Nat BY DEF FaqRow
<1>2. Absent.status = "ABSENT" BY DEF Absent
<1> QED BY <1>1, <1>2

LEMMA Flight ==
  ASSUME TypeOK, NEW r \in Requests, Begun(r)
  PROVE  req[r] \in InFlight
BY DEF TypeOK, Begun, Idle

LEMMA EndGoes ==
  ASSUME TypeOK, NEW r \in Requests, End(r)
  PROVE  Others(r) /\ req' \in [Requests -> InFlight \cup {Idle}] /\ ~ Begun(r)'
BY DEF TypeOK, End, Others, Begun, Idle

(***************************************************************************)
(* The rows the operations write.                                          *)
(***************************************************************************)
LEMMA CleanType ==
  ASSUME NEW text \in Texts
  PROVE  Clean(text) \in Question /\ Clean(text).text = text
BY DEF Clean, Escaped, Question

LEMMA EditType ==
  ASSUME NEW row \in FaqRow, NEW v \in Nat, NEW q \in Question, NEW c \in Categories,
         NEW s \in Sources \cup {NULL}, NEW d \in Sources \cup {NULL, NoSource}
  PROVE  [row EXCEPT !.version = v, !.question = q, !.category = c, !.source = s,
                     !.verified = d] \in FaqRow
BY DEF FaqRow

LEMMA MoveType ==
  ASSUME NEW row \in FaqRow, NEW v \in Nat,
         NEW status \in {"DRAFT", "REVIEW", "PUBLISHED", "ARCHIVED"},
         NEW a \in BOOLEAN, NEW p \in BOOLEAN, NEW u \in BOOLEAN
  PROVE  [row EXCEPT !.version = v, !.status = status, !.active = a, !.published = p,
                     !.unpublished = u] \in FaqRow
BY DEF FaqRow

LEMMA EditedRow ==
  ASSUME NEW row \in FaqRow, NEW sent \in SUBSET Fields, NEW text \in Texts,
         NEW category \in Categories, NEW source \in Sources \cup {NULL}
  PROVE  LET new == Edited(row, sent, text, category, source) IN
         /\ new \in FaqRow /\ new.version = row.version + 1
         /\ new.status = (IF row.status = "PUBLISHED" THEN "REVIEW" ELSE row.status)
         /\ new.active = (row.active /\ row.status # "PUBLISHED")
         /\ new.question.text \in Texts
         /\ row.verified \in {NULL, DatedFor(row.source)} =>
              new.verified \in {NULL, DatedFor(new.source)}
<1> DEFINE back      == BackToReview(row)
           newSource == IF "source_url" \in sent THEN source ELSE row.source
           question  == IF "question" \in sent THEN Clean(text) ELSE Escaped(row.question)
           verified  == Verified(row, newSource, "source_verified_at" \in sent)
           place     == IF "category" \in sent THEN category ELSE row.category
           new       == Edited(row, sent, text, category, source)
<1>1. /\ back \in FaqRow
      /\ back.status = (IF row.status = "PUBLISHED" THEN "REVIEW" ELSE row.status)
      /\ back.active = (row.active /\ row.status # "PUBLISHED")
      /\ back.version = row.version /\ back.question = row.question
      /\ back.category = row.category
  BY DEF BackToReview, FaqRow
<1>2. newSource \in Sources \cup {NULL} /\ place \in Categories BY DEF FaqRow
<1>3. question \in Question /\ question.text \in Texts
  BY CleanType DEF Escaped, FaqRow, Question
<1>4. /\ verified \in Sources \cup {NULL, NoSource}
      /\ row.verified \in {NULL, DatedFor(row.source)} => verified \in {NULL, DatedFor(newSource)}
  BY <1>2 DEF Verified, DatedFor, FaqRow
<1>5. new = [back EXCEPT !.version = back.version + 1, !.question = question,
                         !.category = place, !.source = newSource, !.verified = verified]
  BY <1>1 DEF Edited
<1> HIDE DEF back, newSource, question, verified, place, new
<1>6. new \in FaqRow
  <2>1. back.version + 1 \in Nat BY <1>1 DEF FaqRow
  <2> QED BY <1>1, <1>2, <1>3, <1>4, <1>5, <2>1, EditType
<1>7. /\ new.version = back.version + 1 /\ new.status = back.status
      /\ new.active = back.active /\ new.question = question /\ new.verified = verified
      /\ new.source = newSource
  BY <1>1, <1>5 DEF FaqRow
<1> QED BY <1>1, <1>3, <1>4, <1>6, <1>7 DEF new

LEMMA MovedRow ==
  ASSUME NEW row \in FaqRow, NEW target \in Editorial!Allowed(row.status)
  PROVE  LET new == Moved(row, target) IN
         /\ new \in FaqRow /\ new.version = row.version + 1 /\ new.status = target
         /\ new.active = (target = "PUBLISHED")
         /\ target = "PUBLISHED" => new.published /\ ~ new.unpublished
         /\ new.question = row.question /\ new.source = row.source
         /\ new.verified = row.verified
         /\ target = "PUBLISHED" => row.status = "REVIEW"
<1>1. target \in {"DRAFT", "REVIEW", "PUBLISHED", "ARCHIVED"}
      /\ (target = "PUBLISHED" => row.status = "REVIEW")
  BY DEF Editorial!Allowed, FaqRow
<1> DEFINE published   == row.published \/ target = "PUBLISHED"
           unpublished == CASE target = "PUBLISHED" -> FALSE
                            [] row.status = "PUBLISHED" \/ target = "ARCHIVED" -> TRUE
                            [] OTHER -> row.unpublished
           new == Moved(row, target)
<1>2. /\ published \in BOOLEAN /\ unpublished \in BOOLEAN
      /\ target = "PUBLISHED" => published /\ ~ unpublished
  BY <1>1 DEF FaqRow
<1>3. new = [row EXCEPT !.version = row.version + 1, !.status = target,
                        !.active = (target = "PUBLISHED"), !.published = published,
                        !.unpublished = unpublished]
  BY DEF Moved, StatusAfter
<1> HIDE DEF published, unpublished, new
<1>4. new \in FaqRow
  <2>1. row.version + 1 \in Nat BY DEF FaqRow
  <2> QED BY <1>1, <1>2, <1>3, <2>1, MoveType
<1>5. /\ new.version = row.version + 1 /\ new.status = target
      /\ new.active = (target = "PUBLISHED") /\ new.published = published
      /\ new.unpublished = unpublished /\ new.question = row.question
      /\ new.source = row.source /\ new.verified = row.verified
  BY <1>3 DEF FaqRow
<1> QED BY <1>1, <1>2, <1>4, <1>5 DEF new

LEMMA WriteCurrent ==
  ASSUME NEW row \in FaqRow, NEW seen \in FaqRow \cup {Absent}
  PROVE  WriteChanged(seen, seen, row) = row
BY DEF FaqRow, WriteChanged

(***************************************************************************)
(* A snapshot is of some past state of each article, and equal to it while *)
(* the version is; so the UPDATE of the request that gets its version in   *)
(* writes over the very row it read.                                       *)
(***************************************************************************)
SnapshotPast == \A r \in Requests : Begun(r) => \A f \in Faqs :
  /\ req[r].faqs[f].version <= faqs[f].version
  /\ req[r].faqs[f].version = faqs[f].version => req[r].faqs[f] = faqs[f]

HistoryLength == \A f \in Faqs :
  /\ Len(versions[f]) = faqs[f].version
  /\ faqs[f] # Absent => faqs[f].version > 0

Inv ==
  /\ TypeOK /\ SnapshotPast /\ HistoryLength
  /\ HistoryIsComplete /\ PublicationIsConsistent /\ PublishedWasReviewed /\ VerifiedForItsSource

LEMMA InvInit == Init => Inv
<1> SUFFICES ASSUME Init PROVE Inv OBVIOUS
<1>1. ASSUME NEW active \in BOOLEAN, NEW text \in Texts, NEW category \in Categories
      PROVE  LET row == Legacy(active, text, category) IN
             /\ row \in FaqRow /\ row.version = 1 /\ row.verified = NULL
             /\ row.active <=> row.status = "PUBLISHED"
             /\ row.active => row.published /\ ~ row.unpublished
  BY DEF Legacy, FaqRow, Question
<1>2. ASSUME NEW f \in Faqs, faqs[f] # Absent
      PROVE  /\ faqs[f] \in FaqRow /\ faqs[f].version = 1 /\ faqs[f].verified = NULL
             /\ faqs[f].active <=> faqs[f].status = "PUBLISHED"
             /\ faqs[f].active => faqs[f].published /\ ~ faqs[f].unpublished
  <2>1. faqs[f] \in {Legacy(active, text, category) :
                       active \in BOOLEAN, text \in Texts, category \in Categories}
    BY <1>2 DEF Init
  <2> QED BY <1>1, <2>1
<1>3. \A f \in Faqs : versions[f] = IF faqs[f] = Absent THEN <<>> ELSE <<faqs[f]>>
  BY DEF Init
<1>4. ASSUME NEW f \in Faqs
      PROVE  /\ versions[f] \in Seq(FaqRow) /\ Len(versions[f]) = faqs[f].version
             /\ faqs[f] # Absent => Len(versions[f]) = 1 /\ versions[f][1] = faqs[f]
  <2>1. CASE faqs[f] = Absent
    <3>1. versions[f] = <<>> BY <1>3, <2>1
    <3>2. faqs[f].version = 0 BY <2>1 DEF Absent
    <3> QED BY <2>1, <3>1, <3>2
  <2>2. CASE faqs[f] # Absent
    <3>1. versions[f] = <<faqs[f]>> BY <1>3, <2>2
    <3>2. faqs[f] \in FaqRow /\ faqs[f].version = 1 BY <1>2, <2>2
    <3> QED BY <3>1, <3>2
  <2> QED BY <2>1, <2>2
<1>5. TypeOK
  <2>1. faqs \in [Faqs -> FaqRow \cup {Absent}]
    <3>1. faqs = [f \in Faqs |-> faqs[f]] BY DEF Init
    <3> QED BY <1>2, <3>1
  <2>2. versions \in [Faqs -> Seq(FaqRow)]
    <3>1. versions = [f \in Faqs |-> versions[f]] BY DEF Init
    <3> QED BY <1>4, <3>1
  <2>3. categories \in [Categories -> CategoryRow]
    <3>1. [active |-> TRUE, used |-> FALSE] \in CategoryRow BY DEF CategoryRow
    <3>2. categories = [c \in Categories |-> [active |-> TRUE, used |-> FALSE]]
      BY Zenon DEF Init
    <3> QED BY <3>1, <3>2
  <2>4. req \in [Requests -> InFlight \cup {Idle}] BY DEF Init
  <2> QED BY <2>1, <2>2, <2>3, <2>4 DEF TypeOK
<1>6. HistoryLength /\ HistoryIsComplete /\ PublicationIsConsistent
  <2>1. HistoryLength
    <3> SUFFICES ASSUME NEW f \in Faqs
                 PROVE  Len(versions[f]) = faqs[f].version /\ (faqs[f] # Absent => faqs[f].version > 0)
      BY DEF HistoryLength
    <3>1. Len(versions[f]) = faqs[f].version BY <1>4
    <3>2. faqs[f] # Absent => faqs[f].version = 1 BY <1>2
    <3> QED BY <3>1, <3>2
  <2>2. HistoryIsComplete BY <1>2, <1>4 DEF HistoryIsComplete, Present
  <2>3. PublicationIsConsistent BY <1>2 DEF PublicationIsConsistent, Present
  <2> QED BY <2>1, <2>2, <2>3
<1>7. PublishedWasReviewed BY <1>2 DEF PublishedWasReviewed, Present
<1>8. VerifiedForItsSource BY <1>2 DEF VerifiedForItsSource, Present
<1>9. SnapshotPast BY DEF Init, SnapshotPast, Begun, Idle
<1> QED BY <1>5, <1>6, <1>7, <1>8, <1>9 DEF Inv

\* What a request saves is the next version of what it has seen, and as good.
Fresh(row, seen) == row \in FaqRow /\ row.version = seen.version + 1

Proper(row, seen) ==
  /\ row.active <=> row.status = "PUBLISHED"
  /\ row.active => row.published /\ ~ row.unpublished
  /\ row.status = "PUBLISHED" =>
       seen.status = "REVIEW" /\ seen.question = row.question /\ seen.source = row.source
  /\ row.verified \in {NULL, DatedFor(row.source)}

LEMMA SaveIsCurrent ==
  ASSUME Inv, NEW r \in Requests, Begun(r), NEW f \in Faqs, NEW row,
         Fresh(row, req[r].faqs[f]), Save(r, f, row)
  PROVE  /\ req[r].faqs[f] = faqs[f]
         /\ faqs' = [faqs EXCEPT ![f] = row]
         /\ versions' = [versions EXCEPT ![f] = Append(@, row)]
         /\ End(r) /\ categories' = categories
<1> DEFINE seen == req[r].faqs[f]
<1>1. seen \in FaqRow \cup {Absent} /\ faqs[f] \in FaqRow \cup {Absent}
  BY Flight DEF Inv, TypeOK, InFlight
<1>2. seen.version \in Nat /\ faqs[f].version \in Nat
  <2>1. Absent.version = 0 BY DEF Absent
  <2> QED BY <1>1, <2>1, RowPresent
<1>3. row.version > Len(versions[f]) /\ Len(versions[f]) = faqs[f].version
  BY DEF Save, UniqueVersion, Inv, HistoryLength
<1>4. seen.version <= faqs[f].version BY DEF Inv, SnapshotPast
<1>5. seen.version = faqs[f].version BY <1>2, <1>3, <1>4 DEF Fresh
<1>6. seen = faqs[f] BY <1>5 DEF Inv, SnapshotPast
<1>7. WriteChanged(faqs[f], seen, row) = row BY <1>1, <1>6, WriteCurrent DEF Fresh
<1> HIDE DEF seen
<1>8. faqs' = [faqs EXCEPT ![f] = WriteChanged(faqs[f], seen, row)] BY DEF Save, seen
<1>9. versions' = [versions EXCEPT ![f] = Append(@, row)] /\ End(r) /\ categories' = categories
  BY DEF Save
<1> QED BY <1>6, <1>7, <1>8, <1>9 DEF seen

LEMMA SaveStep ==
  ASSUME Inv, NEW r \in Requests, Begun(r), NEW f \in Faqs, NEW row,
         Fresh(row, req[r].faqs[f]), Save(r, f, row), Proper(row, faqs[f])
  PROVE  Inv'
<1>1. /\ req[r].faqs[f] = faqs[f] /\ faqs' = [faqs EXCEPT ![f] = row]
      /\ versions' = [versions EXCEPT ![f] = Append(@, row)]
      /\ End(r) /\ categories' = categories /\ TypeOK
  BY SaveIsCurrent DEF Inv
<1>2. /\ row \in FaqRow /\ row.version = faqs[f].version + 1 /\ row # Absent
      /\ versions[f] \in Seq(FaqRow) /\ Len(versions[f]) = faqs[f].version
      /\ faqs[f].version \in Nat /\ row.version \in Nat
  BY <1>1, RowPresent DEF Fresh, Inv, HistoryLength, TypeOK
<1>3. /\ faqs'[f] = row /\ \A g \in Faqs : g # f => faqs'[g] = faqs[g]
      /\ versions'[f] = Append(versions[f], row)
      /\ \A g \in Faqs : g # f => versions'[g] = versions[g]
  BY <1>1 DEF TypeOK
<1>4. /\ versions'[f] \in Seq(FaqRow) /\ Len(versions'[f]) = row.version
      /\ versions'[f][row.version] = row
      /\ \A v \in 1 .. faqs[f].version : versions'[f][v] = versions[f][v]
  BY <1>2, <1>3
<1>5. Others(r) /\ req' \in [Requests -> InFlight \cup {Idle}] /\ ~ Begun(r)'
  BY <1>1, EndGoes
<1>6. TypeOK'
  <2>1. faqs' \in [Faqs -> FaqRow \cup {Absent}] BY <1>1, <1>2 DEF TypeOK
  <2>2. versions' \in [Faqs -> Seq(FaqRow)]
    <3>1. Append(versions[f], row) \in Seq(FaqRow) BY <1>3, <1>4
    <3> QED BY <1>1, <3>1 DEF TypeOK
  <2> QED BY <1>1, <1>5, <2>1, <2>2 DEF TypeOK
<1>7. SnapshotPast'
  <2> SUFFICES ASSUME NEW q \in Requests, Begun(q)', NEW g \in Faqs
               PROVE  /\ req'[q].faqs[g].version <= faqs'[g].version
                      /\ req'[q].faqs[g].version = faqs'[g].version => req'[q].faqs[g] = faqs'[g]
    BY DEF SnapshotPast
  <2>1. q # r /\ req'[q] = req[q] /\ Begun(q) BY <1>5 DEF Others, Begun
  <2>2. /\ req[q].faqs[g].version <= faqs[g].version
        /\ req[q].faqs[g].version = faqs[g].version => req[q].faqs[g] = faqs[g]
    BY <2>1 DEF Inv, SnapshotPast
  <2>3. CASE g # f BY <1>3, <2>1, <2>2, <2>3
  <2>4. CASE g = f
    <3>1. req[q].faqs[g] \in FaqRow \cup {Absent} BY <1>1, <2>1, Flight DEF InFlight
    <3>2. req[q].faqs[g].version \in Nat BY <3>1, RowPresent DEF Absent
    <3> QED BY <1>2, <1>3, <2>1, <2>2, <2>4, <3>2
  <2> QED BY <2>3, <2>4
<1>8. HistoryLength'
  <2> SUFFICES ASSUME NEW g \in Faqs
               PROVE  /\ Len(versions'[g]) = faqs'[g].version
                      /\ faqs'[g] # Absent => faqs'[g].version > 0
    BY DEF HistoryLength
  <2> QED BY <1>2, <1>3, <1>4 DEF Inv, HistoryLength
<1>9. HistoryIsComplete'
  <2> SUFFICES ASSUME NEW g \in Faqs, faqs'[g] # Absent
               PROVE  Len(versions'[g]) = faqs'[g].version /\ versions'[g][faqs'[g].version] = faqs'[g]
    BY DEF HistoryIsComplete, Present
  <2>1. CASE g = f BY <1>3, <1>4, <2>1
  <2>2. CASE g # f BY <1>3, <2>2 DEF Inv, HistoryIsComplete, Present
  <2> QED BY <2>1, <2>2
<1>10. PublicationIsConsistent'
  BY <1>3 DEF Inv, Proper, PublicationIsConsistent, Present
<1>11. PublishedWasReviewed'
  <2> SUFFICES ASSUME NEW g \in Faqs, faqs'[g] # Absent, faqs'[g].status = "PUBLISHED",
                      faqs'[g].version > 1
               PROVE  LET before == versions'[g][faqs'[g].version - 1] IN
                      /\ before.status = "REVIEW"
                      /\ before.question = faqs'[g].question /\ before.source = faqs'[g].source
    BY DEF PublishedWasReviewed, Present
  <2>1. CASE g = f
    <3>1. row.version - 1 = faqs[f].version /\ faqs[f].version \in 1 .. faqs[f].version
      BY <1>2, <1>3, <2>1
    <3>2. versions'[f][row.version - 1] = versions[f][faqs[f].version] BY <1>4, <3>1
    <3>3. faqs[f] # Absent BY <1>2, <1>3, <2>1 DEF Absent
    <3>4. versions[f][faqs[f].version] = faqs[f]
      BY <3>3 DEF Inv, HistoryIsComplete, Present
    <3>5. /\ faqs[f].status = "REVIEW"
          /\ faqs[f].question = row.question /\ faqs[f].source = row.source
      BY <1>1, <1>3, <2>1 DEF Proper
    <3> QED BY <1>3, <2>1, <3>2, <3>4, <3>5
  <2>2. CASE g # f BY <1>3, <2>2 DEF Inv, PublishedWasReviewed, Present
  <2> QED BY <2>1, <2>2
<1>12. VerifiedForItsSource'
  BY <1>3 DEF Inv, Proper, VerifiedForItsSource, Present
<1> QED BY <1>6, <1>7, <1>8, <1>9, <1>10, <1>11, <1>12 DEF Inv

\* Each operation on an article saves what it may.
LEMMA CreateSaves ==
  ASSUME Inv, NEW r \in Requests, NEW f \in Faqs, NEW text \in Texts,
         NEW category \in Categories, NEW source \in Sources \cup {NULL},
         NEW dated \in BOOLEAN, Create(r, f, text, category, source, dated)
  PROVE  \E row : /\ Begun(r) /\ Fresh(row, req[r].faqs[f]) /\ Save(r, f, row)
                  /\ Proper(row, faqs[f]) /\ faqs[f] = Absent
                  /\ row.status = "DRAFT" /\ row.version = 1 /\ row.question = Clean(text)
                  /\ row.source = source /\ NotDuplicate(r, f, row.question)
<1> DEFINE row == [status |-> "DRAFT", active |-> FALSE, version |-> 1,
                   question |-> Clean(text), category |-> category, source |-> source,
                   verified |-> IF dated THEN source ELSE NULL,
                   published |-> FALSE, unpublished |-> FALSE]
<1>1. Clean(text) \in Question BY CleanType
<1>2. req[r].faqs[f].version = 0 /\ faqs[f] = Absent BY DEF Create, Absent
<1>3. (dated => source # NULL) /\ Begun(r) /\ Save(r, f, row) /\ NotDuplicate(r, f, row.question)
  BY DEF Create
<1>4. row \in FaqRow BY <1>1, <1>3 DEF FaqRow
<1>5. Proper(row, faqs[f]) BY <1>3 DEF Proper, DatedFor
<1>6. Fresh(row, req[r].faqs[f]) BY <1>2, <1>4 DEF Fresh
<1> QED BY <1>2, <1>3, <1>5, <1>6

LEMMA UpdateSaves ==
  ASSUME Inv, NEW r \in Requests, NEW f \in Faqs, NEW text \in Texts,
         NEW category \in Categories, NEW source \in Sources \cup {NULL},
         NEW sent \in SUBSET Fields, Update(r, f, sent, text, category, source)
  PROVE  \E row : /\ Begun(r) /\ Fresh(row, req[r].faqs[f]) /\ Save(r, f, row)
                  /\ Proper(row, faqs[f]) /\ faqs[f] # Absent
                  /\ row.status = (IF faqs[f].status = "PUBLISHED" THEN "REVIEW" ELSE faqs[f].status)
                  /\ row.question.text \in Texts /\ NotDuplicate(r, f, row.question)
<1> DEFINE seen == req[r].faqs[f]
           row  == Edited(seen, sent, text, category, source)
<1>1. Begun(r) /\ seen # Absent /\ Save(r, f, row) /\ NotDuplicate(r, f, row.question)
  BY DEF Update
<1>2. seen \in FaqRow BY <1>1, Flight DEF Inv, InFlight
<1>3. /\ row \in FaqRow /\ row.version = seen.version + 1
      /\ row.status = (IF seen.status = "PUBLISHED" THEN "REVIEW" ELSE seen.status)
      /\ row.active = (seen.active /\ seen.status # "PUBLISHED")
      /\ row.question.text \in Texts
      /\ seen.verified \in {NULL, DatedFor(seen.source)} =>
           row.verified \in {NULL, DatedFor(row.source)}
  BY <1>2, EditedRow
<1> HIDE DEF seen, row
<1>4. Fresh(row, seen) BY <1>3 DEF Fresh
<1>5. seen = faqs[f] BY <1>1, <1>4, SaveIsCurrent DEF seen
<1>6. /\ seen.active <=> seen.status = "PUBLISHED"
      /\ seen.verified \in {NULL, DatedFor(seen.source)}
  BY <1>1, <1>5 DEF Inv, PublicationIsConsistent, VerifiedForItsSource, Present
<1>7. Proper(row, faqs[f]) BY <1>3, <1>6 DEF Proper
<1> QED BY <1>1, <1>3, <1>4, <1>5, <1>7 DEF seen

LEMMA WorkflowSaves ==
  ASSUME Inv, NEW r \in Requests, NEW f \in Faqs, NEW target, Workflow(r, f, target)
  PROVE  \E row : /\ Begun(r) /\ Fresh(row, req[r].faqs[f]) /\ Save(r, f, row)
                  /\ Proper(row, faqs[f]) /\ faqs[f] # Absent
                  /\ row.status = target /\ target \in Editorial!Allowed(faqs[f].status)
                  /\ row.question = faqs[f].question /\ row.source = faqs[f].source
<1> DEFINE seen == req[r].faqs[f]
           row  == Moved(seen, target)
<1>1. Begun(r) /\ seen # Absent /\ Save(r, f, row) /\ target \in Editorial!Allowed(seen.status)
  BY DEF Workflow, TransitionAllowed
<1>2. seen \in FaqRow BY <1>1, Flight DEF Inv, InFlight
<1>3. /\ row \in FaqRow /\ row.version = seen.version + 1 /\ row.status = target
      /\ row.active = (target = "PUBLISHED")
      /\ target = "PUBLISHED" => row.published /\ ~ row.unpublished
      /\ row.question = seen.question /\ row.source = seen.source
      /\ row.verified = seen.verified
      /\ target = "PUBLISHED" => seen.status = "REVIEW"
  BY <1>1, <1>2, MovedRow
<1> HIDE DEF seen, row
<1>4. Fresh(row, seen) BY <1>3 DEF Fresh
<1>5. seen = faqs[f] BY <1>1, <1>4, SaveIsCurrent DEF seen
<1>6. seen.verified \in {NULL, DatedFor(seen.source)}
  BY <1>1, <1>5 DEF Inv, VerifiedForItsSource, Present
<1>7. Proper(row, faqs[f]) BY <1>3, <1>5, <1>6 DEF Proper
<1> QED BY <1>1, <1>3, <1>4, <1>5, <1>7 DEF seen

\* Steps that leave the articles alone.
LEMMA OtherStep ==
  ASSUME Inv, NEW r \in Requests, UNCHANGED <<faqs, versions>>, Others(r),
         categories' \in [Categories -> CategoryRow],
         req' \in [Requests -> InFlight \cup {Idle}],
         Begun(r)' => req'[r].faqs = faqs
  PROVE  Inv'
<1>1. TypeOK' BY DEF Inv, TypeOK
<1>2. SnapshotPast'
  <2> SUFFICES ASSUME NEW q \in Requests, Begun(q)', NEW f \in Faqs
               PROVE  /\ req'[q].faqs[f].version <= faqs[f].version
                      /\ req'[q].faqs[f].version = faqs[f].version => req'[q].faqs[f] = faqs[f]
    BY DEF SnapshotPast
  <2>1. CASE q = r
    <3>1. faqs[f].version \in Nat BY RowPresent DEF Inv, TypeOK, Absent
    <3> QED BY <2>1, <3>1
  <2>2. CASE q # r
    <3>1. req'[q] = req[q] /\ Begun(q) BY <2>2 DEF Others, Begun
    <3> QED BY <3>1 DEF Inv, SnapshotPast
  <2> QED BY <2>1, <2>2
<1>3. HistoryLength' /\ HistoryIsComplete' BY DEF Inv, HistoryLength, HistoryIsComplete, Present
<1>4. PublicationIsConsistent' /\ PublishedWasReviewed' /\ VerifiedForItsSource'
  BY DEF Inv, PublicationIsConsistent, PublishedWasReviewed, VerifiedForItsSource, Present
<1> QED BY <1>1, <1>2, <1>3, <1>4 DEF Inv

LEMMA InvStep ==
  ASSUME Inv, [Next]_vars
  PROVE  Inv'
<1>1. CASE UNCHANGED vars
  BY <1>1 DEF vars, Inv, TypeOK, SnapshotPast, Begun, HistoryLength, HistoryIsComplete, Present,
     PublicationIsConsistent, PublishedWasReviewed, VerifiedForItsSource
<1>2. ASSUME NEW r \in Requests, Begin(r) PROVE Inv'
  <2> DEFINE state == [phase |-> "begun", faqs |-> faqs, categories |-> categories]
  <2>1. state \in InFlight BY DEF Inv, TypeOK, InFlight
  <2>2. req' = [req EXCEPT ![r] = state] /\ UNCHANGED <<faqs, versions, categories>>
    BY <1>2 DEF Begin
  <2>3. state.faqs = faqs OBVIOUS
  <2> HIDE DEF state
  <2>4. Others(r) /\ req' \in [Requests -> InFlight \cup {Idle}] /\ req'[r] = state
    BY <2>1, <2>2 DEF Inv, TypeOK, Others
  <2> QED BY <2>2, <2>3, <2>4, OtherStep DEF Inv, TypeOK
<1>3. ASSUME NEW r \in Requests, Rollback(r) PROVE Inv'
  BY <1>3, EndGoes, OtherStep DEF Rollback, Inv, TypeOK
<1>4. ASSUME NEW r \in Requests, NEW category \in Categories,
             \/ \E active \in BOOLEAN : SetCategoryStatus(r, category, active)
             \/ CreateTicket(r, category)
      PROVE  Inv'
  <2>1. End(r) /\ UNCHANGED <<faqs, versions>> BY <1>4 DEF SetCategoryStatus, CreateTicket
  <2>2. categories' \in [Categories -> CategoryRow]
    <3>1. categories[category] \in CategoryRow BY DEF Inv, TypeOK
    <3>2. CASE CreateTicket(r, category)
      <4>1. [categories[category] EXCEPT !.used = TRUE] \in CategoryRow BY <3>1 DEF CategoryRow
      <4>2. categories' = [categories EXCEPT ![category] = [categories[category] EXCEPT !.used = TRUE]]
        BY <3>2 DEF CreateTicket, Inv, TypeOK
      <4> QED BY <4>1, <4>2 DEF Inv, TypeOK
    <3>3. ASSUME NEW active \in BOOLEAN, SetCategoryStatus(r, category, active)
          PROVE  categories' \in [Categories -> CategoryRow]
      <4> DEFINE new == IF active # req[r].categories[category].active THEN active
                        ELSE categories[category].active
      <4>1. new \in BOOLEAN BY <3>1 DEF CategoryRow
      <4>2. categories' = [categories EXCEPT ![category] = [categories[category] EXCEPT !.active = new]]
        BY <3>3 DEF SetCategoryStatus, Inv, TypeOK
      <4> HIDE DEF new
      <4>3. [categories[category] EXCEPT !.active = new] \in CategoryRow
        BY <3>1, <4>1 DEF CategoryRow
      <4> QED BY <4>2, <4>3 DEF Inv, TypeOK
    <3> QED BY <1>4, <3>2, <3>3
  <2> QED BY <2>1, <2>2, EndGoes, OtherStep DEF Inv
<1>5. ASSUME NEW r \in Requests, NEW f \in Faqs, NEW text \in Texts,
             NEW category \in Categories, NEW source \in Sources \cup {NULL},
             \/ \E dated \in BOOLEAN : Create(r, f, text, category, source, dated)
             \/ \E sent \in SUBSET Fields : Update(r, f, sent, text, category, source)
      PROVE  Inv'
  BY <1>5, CreateSaves, UpdateSaves, SaveStep
<1>6. ASSUME NEW r \in Requests, NEW f \in Faqs, NEW target, Workflow(r, f, target)
      PROVE  Inv'
  BY <1>6, WorkflowSaves, SaveStep
<1> QED BY <1>1, <1>2, <1>3, <1>4, <1>5, <1>6 DEF Next

LEMMA Safe == Spec => []Inv
BY InvInit, InvStep, PTL DEF Spec

\* Every variable keeps its type.
THEOREM TypeCorrect == Spec => []TypeOK
BY Safe, PTL DEF Inv

\* The snapshots are the whole history of each article.
THEOREM HistoryComplete == Spec => []HistoryIsComplete
BY Safe, PTL DEF Inv

\* Status, is_active and dates never disagree.
THEOREM PublicationConsistent == Spec => []PublicationIsConsistent
BY Safe, PTL DEF Inv

\* What is published was under review, word for word.
THEOREM PublishedReviewed == Spec => []PublishedWasReviewed
BY Safe, PTL DEF Inv

\* A verification date belongs to the source cited.
THEOREM VerifiedSource == Spec => []VerifiedForItsSource
BY Safe, PTL DEF Inv

(***************************************************************************)
(* Refinement: the request that gets its version in acts at once on the    *)
(* committed article.                                                      *)
(***************************************************************************)
CardOf(row) ==
  [status |-> row.status, version |-> row.version,
   content |-> IF row = Absent THEN NULL ELSE [text |-> row.question.text, source |-> row.source]]

Board == [f \in Faqs |-> CardOf(faqs[f])]

LEMMA SameBoard ==
  ASSUME faqs' = faqs
  PROVE  Board' = Board
BY DEF Board

LEMMA BoardStep ==
  ASSUME TypeOK, NEW f \in Faqs, NEW row, faqs' = [faqs EXCEPT ![f] = row]
  PROVE  Board' = [Board EXCEPT ![f] = CardOf(row)] /\ Board'[f] = CardOf(row)
         /\ Board[f] = CardOf(faqs[f])
BY DEF Board, TypeOK

LEMMA PromiseStep ==
  ASSUME TypeOK, NEW f \in Faqs, NEW row, faqs' = [faqs EXCEPT ![f] = row],
         CardOf(row) \in Promise!Drafts(CardOf(faqs[f])) \cup Promise!Edits(CardOf(faqs[f]))
                        \cup Promise!Moves(CardOf(faqs[f]))
  PROVE  Promise!Next
<1>1. Board' = [Board EXCEPT ![f] = CardOf(row)] /\ Board'[f] = CardOf(row)
      /\ Board[f] = CardOf(faqs[f])
  BY BoardStep
<1>2. /\ Board'[f] \in Promise!Drafts(Board[f]) \cup Promise!Edits(Board[f]) \cup Promise!Moves(Board[f])
      /\ Board' = [Board EXCEPT ![f] = Board'[f]]
  BY <1>1
<1>3. Promise!Step(f) BY <1>2 DEF Promise!Step, Board, CardOf
<1> QED BY <1>3 DEF Promise!Next

LEMMA PromiseInit == Init => Promise!Init
<1> SUFFICES ASSUME Init PROVE Promise!Init OBVIOUS
<1> DEFINE Contents == [text: Texts, source: Sources \cup {NULL}] \cup {NULL}
           First == [status: {"ABSENT"}, version: {0}, content: Contents]
                    \cup [status: {"PUBLISHED", "ARCHIVED"}, version: {1}, content: Contents]
<1>1. ASSUME NEW f \in Faqs PROVE Board[f] \in First
  <2>1. CASE faqs[f] = Absent BY <2>1 DEF Board, CardOf, Absent
  <2>2. CASE faqs[f] # Absent
    <3>1. PICK active \in BOOLEAN, text \in Texts, category \in Categories :
            faqs[f] = Legacy(active, text, category)
      BY <2>2 DEF Init
    <3>2. faqs[f].status \in {"PUBLISHED", "ARCHIVED"} /\ faqs[f].version = 1
          /\ faqs[f].question.text = text /\ faqs[f].source = NULL
      BY <3>1 DEF Legacy
    <3> QED BY <2>2, <3>2 DEF Board, CardOf
  <2> QED BY <2>1, <2>2
<1>2. Board \in [Faqs -> First] BY <1>1 DEF Board
<1> QED BY <1>2 DEF Promise!Init, Board, CardOf

\* No edit is lost and nothing is published unseen: the articles implement the board.
THEOREM Implements == Spec => ImplementsEditorial
<1>1. ASSUME Inv, NEW r \in Requests, NEW f \in Faqs, NEW text \in Texts,
             NEW category \in Categories, NEW source \in Sources \cup {NULL},
             NEW dated \in BOOLEAN, Create(r, f, text, category, source, dated)
      PROVE  Promise!Next
  <2>1. PICK row : /\ Begun(r) /\ Fresh(row, req[r].faqs[f]) /\ Save(r, f, row)
                   /\ faqs[f] = Absent /\ row.status = "DRAFT" /\ row.version = 1
                   /\ row.question = Clean(text) /\ row.source = source
    BY <1>1, CreateSaves
  <2>2. faqs' = [faqs EXCEPT ![f] = row] BY <1>1, <2>1, SaveIsCurrent
  <2>3. row # Absent BY <2>1, RowPresent DEF Fresh
  <2>4. row.question.text \in Texts BY <2>1, CleanType
  <2>5. CardOf(row) \in Promise!Drafts(CardOf(faqs[f]))
    BY <2>1, <2>3, <2>4 DEF CardOf, Promise!Drafts, Promise!Card, Absent
  <2> QED BY <1>1, <2>2, <2>5, PromiseStep DEF Inv
<1>2. ASSUME Inv, NEW r \in Requests, NEW f \in Faqs, NEW text \in Texts,
             NEW category \in Categories, NEW source \in Sources \cup {NULL},
             NEW sent \in SUBSET Fields, Update(r, f, sent, text, category, source)
      PROVE  Promise!Next
  <2>1. PICK row : /\ Begun(r) /\ Fresh(row, req[r].faqs[f]) /\ Save(r, f, row)
                   /\ faqs[f] # Absent /\ row.question.text \in Texts
                   /\ row.status = (IF faqs[f].status = "PUBLISHED" THEN "REVIEW"
                                    ELSE faqs[f].status)
    BY <1>2, UpdateSaves
  <2>2. faqs' = [faqs EXCEPT ![f] = row] /\ req[r].faqs[f] = faqs[f]
    BY <1>2, <2>1, SaveIsCurrent
  <2>3. row # Absent /\ row \in FaqRow /\ row.version = faqs[f].version + 1
    BY <2>1, <2>2, RowPresent DEF Fresh
  <2>4. [text |-> row.question.text, source |-> row.source] \in
          [text: Texts, source: Sources \cup {NULL}]
    BY <2>1, <2>3 DEF FaqRow
  <2>5. faqs[f].status # "ABSENT" BY <1>2, <2>1 DEF Inv, TypeOK, FaqRow
  <2>6. CardOf(row) \in Promise!Edits(CardOf(faqs[f]))
    BY <2>1, <2>3, <2>4, <2>5 DEF CardOf, Promise!Edits, Promise!Card
  <2> QED BY <1>2, <2>2, <2>6, PromiseStep DEF Inv
<1>3. ASSUME Inv, NEW r \in Requests, NEW f \in Faqs, NEW target, Workflow(r, f, target)
      PROVE  Promise!Next
  <2>1. PICK row : /\ Begun(r) /\ Fresh(row, req[r].faqs[f]) /\ Save(r, f, row)
                   /\ faqs[f] # Absent /\ row.status = target
                   /\ target \in Editorial!Allowed(faqs[f].status)
                   /\ row.question = faqs[f].question /\ row.source = faqs[f].source
    BY <1>3, WorkflowSaves
  <2>2. faqs' = [faqs EXCEPT ![f] = row] /\ req[r].faqs[f] = faqs[f]
    BY <1>3, <2>1, SaveIsCurrent
  <2>3. row # Absent /\ row.version = faqs[f].version + 1
    BY <2>1, <2>2, RowPresent DEF Fresh
  <2>4. target \in Promise!Allowed(faqs[f].status)
    BY <2>1 DEF Editorial!Allowed, Promise!Allowed
  <2>5. CardOf(row) \in Promise!Moves(CardOf(faqs[f]))
    BY <2>1, <2>3, <2>4 DEF CardOf, Promise!Moves, Promise!Card
  <2> QED BY <1>3, <2>2, <2>5, PromiseStep DEF Inv
<1>4. ASSUME faqs' = faqs PROVE UNCHANGED Board BY <1>4, SameBoard
<1>5. Inv /\ [Next]_vars => [Promise!Next]_Board
  BY <1>1, <1>2, <1>3, <1>4 DEF Next, vars, Begin, Rollback, SetCategoryStatus, CreateTicket
<1> QED BY <1>5, PromiseInit, Safe, PTL DEF Spec, ImplementsEditorial, Promise!Spec, Board, CardOf

(***************************************************************************)
(* What only requests that overlap can do.                                 *)
(***************************************************************************)
LEMMA DuplicateStep ==
  ASSUME Inv, NEW r \in Requests, NEW f \in Faqs, NEW row, Fresh(row, req[r].faqs[f]),
         Begun(r), Save(r, f, row),
         \/ NotDuplicate(r, f, row.question)
         \/ faqs[f] # Absent /\ row.question = faqs[f].question
  PROVE  ~ Duplicated(faqs) /\ Duplicated(faqs') => StaleRequest(r)
<1> SUFFICES ASSUME ~ Duplicated(faqs), Duplicated(faqs') PROVE StaleRequest(r) OBVIOUS
<1>1. faqs' = [faqs EXCEPT ![f] = row] /\ End(r) BY SaveIsCurrent
<1>2. ~ Begun(r)' BY <1>1, EndGoes DEF Inv
<1>3. \A g \in Faqs \ {f} : faqs'[g] = faqs[g] BY <1>1 DEF Inv, TypeOK
<1>4. PICK g \in Faqs \ {f} : faqs[g] # Absent /\ faqs[g].question = row.question
  <2>1. faqs'[f] = row BY <1>1 DEF Inv, TypeOK
  <2> QED BY <1>3, <2>1 DEF Duplicated
<1>5. ~ (faqs[f] # Absent /\ row.question = faqs[f].question) BY <1>4 DEF Duplicated
<1>6. req[r].faqs # faqs BY <1>4, <1>5 DEF NotDuplicate
<1> QED BY <1>2, <1>6 DEF StaleRequest

\* Two articles get the same question only through a request with an old snapshot.
THEOREM DuplicatesOverlap == Spec => DuplicatesNeedOverlap
<1> DEFINE Overlap == ~ Duplicated(faqs) /\ Duplicated(faqs') => \E r \in Requests : StaleRequest(r)
<1>1. ASSUME Inv, NEW r \in Requests, NEW f \in Faqs, NEW text \in Texts,
             NEW category \in Categories, NEW source \in Sources \cup {NULL},
             \/ \E dated \in BOOLEAN : Create(r, f, text, category, source, dated)
             \/ \E sent \in SUBSET Fields : Update(r, f, sent, text, category, source)
      PROVE  Overlap
  BY <1>1, CreateSaves, UpdateSaves, DuplicateStep
<1>2. ASSUME Inv, NEW r \in Requests, NEW f \in Faqs, NEW target, Workflow(r, f, target)
      PROVE  Overlap
  BY <1>2, WorkflowSaves, DuplicateStep
<1>3. ASSUME faqs' = faqs PROVE Overlap BY <1>3
<1>4. Inv /\ [Next]_vars => [Overlap]_vars
  BY <1>1, <1>2, <1>3 DEF Next, vars, Begin, Rollback, SetCategoryStatus, CreateTicket
<1> QED BY <1>4, Safe, PTL DEF Spec, DuplicatesNeedOverlap

\* A category in use ends up inactive only through a request with an old snapshot.
THEOREM MisplacedOverlap == Spec => MisplacedNeedsOverlap
<1> DEFINE Stale(r) == Begun(r) /\ ~ Begun(r)' /\ req[r].categories # categories
           Overlap  == Misplaced(categories') \subseteq Misplaced(categories)
                       \/ \E r \in Requests : Stale(r)
<1>1. ASSUME TypeOK, NEW r \in Requests, NEW category \in Categories, NEW active \in BOOLEAN,
             SetCategoryStatus(r, category, active)
      PROVE  Overlap
  <2>1. Begun(r) /\ ~ Begun(r)' BY <1>1, EndGoes DEF SetCategoryStatus
  <2>2. CASE req[r].categories = categories
    <3>1. categories[category] \in CategoryRow BY <1>1 DEF TypeOK
    <3>2. \A c \in Categories : /\ categories'[c].used = categories[c].used
                                /\ c # category => categories'[c] = categories[c]
      BY <1>1, <3>1 DEF SetCategoryStatus, TypeOK, CategoryRow
    <3>3. active \/ ~ categories[category].used
      BY <1>1, <2>2 DEF SetCategoryStatus, MayDeactivate
    <3>4. categories'[category].active = active
      BY <1>1, <2>2, <3>1 DEF SetCategoryStatus, TypeOK, CategoryRow
    <3> QED BY <3>2, <3>3, <3>4 DEF Misplaced
  <2> QED BY <2>1, <2>2
<1>2. ASSUME TypeOK, NEW r \in Requests, NEW category \in Categories,
             CreateTicket(r, category)
      PROVE  Overlap
  <2>1. Begun(r) /\ ~ Begun(r)' BY <1>2, EndGoes DEF CreateTicket
  <2>2. CASE req[r].categories = categories
    <3>1. categories[category] \in CategoryRow /\ categories[category].active
      BY <1>2, <2>2 DEF TypeOK, CreateTicket, CategoryIsActive
    <3>2. \A c \in Categories : /\ categories'[c].active = categories[c].active
                                /\ c # category => categories'[c] = categories[c]
      BY <1>2, <3>1 DEF CreateTicket, TypeOK, CategoryRow
    <3> QED BY <3>1, <3>2 DEF Misplaced
  <2> QED BY <2>1, <2>2
<1>3. ASSUME categories' = categories PROVE Overlap BY <1>3
<1>4. ASSUME NEW r \in Requests,
             \/ Begin(r) \/ Rollback(r)
             \/ \E f \in Faqs, text \in Texts, category \in Categories, source \in Sources \cup {NULL} :
                  \/ \E dated \in BOOLEAN : Create(r, f, text, category, source, dated)
                  \/ \E sent \in SUBSET Fields : Update(r, f, sent, text, category, source)
             \/ \E f \in Faqs, target \in Editorial!FAQStatus : Workflow(r, f, target)
      PROVE  categories' = categories
  <2>1. \A f \in Faqs : \A row : Save(r, f, row) => categories' = categories BY DEF Save
  <2>2. ASSUME NEW f \in Faqs, NEW text \in Texts, NEW category \in Categories,
               NEW source \in Sources \cup {NULL},
               \/ \E dated \in BOOLEAN : Create(r, f, text, category, source, dated)
               \/ \E sent \in SUBSET Fields : Update(r, f, sent, text, category, source)
        PROVE  categories' = categories
    BY <2>1, <2>2, Zenon DEF Create, Update
  <2>3. ASSUME NEW f \in Faqs, NEW target, Workflow(r, f, target)
        PROVE  categories' = categories
    BY <2>1, <2>3 DEF Workflow
  <2> QED BY <1>4, <2>2, <2>3 DEF Begin, Rollback
<1>5. Inv /\ Next => Overlap
  <2> SUFFICES ASSUME Inv, Next PROVE Overlap OBVIOUS
  <2>1. TypeOK BY DEF Inv
  <2> HIDE DEF Overlap
  <2> QED BY <1>1, <1>2, <1>3, <1>4, <2>1 DEF Next
<1>6. Inv /\ [Next]_vars => [Overlap]_vars BY <1>5
<1> QED BY <1>6, Safe, PTL DEF Spec, MisplacedNeedsOverlap

=============================================================================
