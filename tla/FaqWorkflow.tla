----------------------------- MODULE FaqWorkflow -----------------------------
(***************************************************************************)
(* The knowledge base under concurrent editors: articles, the snapshot of  *)
(* each version, and the categories they share with the tickets.           *)
(*                                                                         *)
(* No operation locks anything. A request reads articles and categories    *)
(* from the snapshot of its transaction, checks them there, and its flush  *)
(* inserts the snapshot of the new version, whose number is unique per     *)
(* article: the loser of a race fails with an IntegrityError (Rollback).   *)
(*                                                                         *)
(* Source: app/modules/conocimiento, and the check of the category in      *)
(* TicketService._create. Only a supervisor gets past Begin.               *)
(***************************************************************************)
EXTENDS Integers, Sequences

CONSTANTS
  Faqs,        \* articles
  Texts,       \* what a question may say
  Marked,      \* the texts that contain &, < or >
  Sources,     \* official URLs
  Categories,
  Requests,    \* requests that may be in flight at the same time
  Fields,      \* what edits send, a subset of AllFields
  MaxVersion,  \* bound on the versions of each article
  NULL

AllFields == {"question", "category", "source_url", "source_verified_at", "other"}

ASSUME FaqAssumption ==
  /\ Marked \subseteq Texts
  /\ Fields \subseteq AllFields
  /\ MaxVersion \in [Faqs -> Nat]
  /\ NULL \notin Sources \cup Categories

VARIABLES
  faqs,        \* the committed rows of faqs
  versions,    \* faq_versions: the snapshots of each article, by version
  categories,  \* ticket_categories: is_active, and whether a ticket uses it
  req          \* the requests in flight, with what their snapshot holds

vars == <<faqs, versions, categories, req>>

(***************************************************************************)
(* A text is stored escaped. Of a verification date only the source it was *)
(* given for is kept; of the other dates whether they are set.             *)
(***************************************************************************)
Question == [text: Texts, escapes: Nat]
NoSource == "no source"
FaqRow == [status: {"DRAFT", "REVIEW", "PUBLISHED", "ARCHIVED"}, active: BOOLEAN,
           version: Nat, question: Question, category: Categories,
           source: Sources \cup {NULL}, verified: Sources \cup {NULL, NoSource},
           published: BOOLEAN, unpublished: BOOLEAN]
Absent == [status |-> "ABSENT", version |-> 0]
CategoryRow == [active: BOOLEAN, used: BOOLEAN]

Idle == [phase |-> "idle"]
InFlight == [phase: {"begun"}, faqs: [Faqs -> FaqRow \cup {Absent}],
             categories: [Categories -> CategoryRow]]

\* html.escape turns each mark into an entity, which starts with a mark.
Escaped(question) ==
  IF question.text \in Marked THEN [question EXCEPT !.escapes = @ + 1] ELSE question

Clean(text) == Escaped([text |-> text, escapes |-> 0])

\* Migrations 0011 and 0012: what was there, never escaped, is published or archived.
Legacy(active, text, category) ==
  [status |-> IF active THEN "PUBLISHED" ELSE "ARCHIVED", active |-> active, version |-> 1,
   question |-> [text |-> text, escapes |-> 0], category |-> category,
   source |-> NULL, verified |-> NULL, published |-> active, unpublished |-> FALSE]

\* Each article has the snapshot that the migration took of it.

Init ==
  /\ categories = [c \in Categories |-> [active |-> TRUE, used |-> FALSE]]
  /\ faqs \in [Faqs -> {Absent} \cup {Legacy(active, text, category) :
                 active \in BOOLEAN, text \in Texts, category \in Categories}]
  /\ versions = [f \in Faqs |-> IF faqs[f] = Absent THEN <<>> ELSE <<faqs[f]>>]
  /\ req = [r \in Requests |-> Idle]

Begun(r) == req[r].phase = "begun"
End(r) == req' = [req EXCEPT ![r] = Idle]

\* The first SELECT of _authenticate fixes the snapshot.
Begin(r) ==
  /\ ~Begun(r)
  /\ req' = [req EXCEPT ![r] = [phase |-> "begun", faqs |-> faqs, categories |-> categories]]
  /\ UNCHANGED <<faqs, versions, categories>>

\* A refusal, an error of the database or a crash.
Rollback(r) ==
  /\ Begun(r)
  /\ End(r)
  /\ UNCHANGED <<faqs, versions, categories>>

CategoryIsActive(r, category) == req[r].categories[category].active

NotDuplicate(r, f, question) ==
  \A g \in Faqs \ {f} : req[r].faqs[g] # Absent => req[r].faqs[g].question # question

\* The UPDATE names the columns whose value differs from the one that was read.
WriteChanged(current, seen, row) ==
  [column \in DOMAIN row |->
     IF current = Absent \/ row[column] # seen[column] THEN row[column] ELSE current[column]]

UniqueVersion(f, version) == version > Len(versions[f])

\* Bound on the versions of an article.
MayGrow(r, f) == req[r].faqs[f].version < MaxVersion[f]

\* The row, its snapshot and the audit row in one COMMIT.
Save(r, f, row) ==
  /\ UniqueVersion(f, row.version)
  /\ faqs' = [faqs EXCEPT ![f] = WriteChanged(@, req[r].faqs[f], row)]
  /\ versions' = [versions EXCEPT ![f] = Append(@, row)]
  /\ End(r)
  /\ UNCHANGED categories

Create(r, f, text, category, source, dated) ==
  /\ Begun(r) /\ faqs[f] = Absent /\ req[r].faqs[f] = Absent /\ MayGrow(r, f)
  /\ CategoryIsActive(r, category)
  /\ NotDuplicate(r, f, Clean(text))
  /\ dated => source # NULL
  /\ Save(r, f, [status |-> "DRAFT", active |-> FALSE, version |-> 1,
                 question |-> Clean(text), category |-> category, source |-> source,
                 verified |-> IF dated THEN source ELSE NULL,
                 published |-> FALSE, unpublished |-> FALSE])

DatedFor(source) == IF source = NULL THEN NoSource ELSE source

\* A new source loses the date of the former one, unless the edit brings its own.
Verified(row, source, dated) ==
  IF dated THEN DatedFor(source)
  ELSE IF source # row.source THEN NULL ELSE row.verified

\* Mutant: an edited article stays published.
StillPublished(row) == row

\* An edit, whatever it changes, takes a published article back to review.
BackToReview(row) ==
  IF row.status # "PUBLISHED" THEN row
  ELSE [row EXCEPT !.status = "REVIEW", !.active = FALSE, !.unpublished = TRUE]

\* What an edit does not send is cleaned, and so escaped, once more.
Edited(row, sent, text, category, source) ==
  LET newSource == IF "source_url" \in sent THEN source ELSE row.source IN
  [BackToReview(row) EXCEPT
     !.version  = @ + 1,
     !.question = IF "question" \in sent THEN Clean(text) ELSE Escaped(@),
     !.category = IF "category" \in sent THEN category ELSE @,
     !.source   = newSource,
     !.verified = Verified(row, newSource, "source_verified_at" \in sent)]

Update(r, f, sent, text, category, source) ==
  /\ Begun(r) /\ req[r].faqs[f] # Absent /\ MayGrow(r, f)
  /\ sent # {}
  /\ ~({"source_url", "source_verified_at"} \subseteq sent /\ source = NULL)
  /\ LET row == Edited(req[r].faqs[f], sent, text, category, source) IN
       /\ CategoryIsActive(r, row.category)
       /\ NotDuplicate(r, f, row.question)
       /\ Save(r, f, row)

Editorial == INSTANCE FaqEditorial WITH Contents <- {}, board <- faqs

\* Mutant: an article is published right from DRAFT.
TransitionToAny(row, target) == target # row.status

TransitionAllowed(row, target) == target \in Editorial!Allowed(row.status)

StatusAfter(target) == target

Moved(row, target) ==
  [row EXCEPT !.version = @ + 1, !.status = StatusAfter(target),
     !.active      = (target = "PUBLISHED"),
     !.published   = @ \/ target = "PUBLISHED",
     !.unpublished = CASE target = "PUBLISHED" -> FALSE
                       [] row.status = "PUBLISHED" \/ target = "ARCHIVED" -> TRUE
                       [] OTHER -> @]

\* workflow, and set_status, which calls it with PUBLISHED or ARCHIVED.
Workflow(r, f, target) ==
  /\ Begun(r) /\ req[r].faqs[f] # Absent /\ MayGrow(r, f)
  /\ TransitionAllowed(req[r].faqs[f], target)
  /\ target = "PUBLISHED" => CategoryIsActive(r, req[r].faqs[f].category)
  /\ Save(r, f, Moved(req[r].faqs[f], target))

(***************************************************************************)
(* Categories.                                                             *)
(***************************************************************************)
\* Mutant: a category in use may be deactivated.
MayDeactivateUsed(r, category) == category \in DOMAIN req[r].categories

MayDeactivate(r, category) == ~req[r].categories[category].used

SetCategoryStatus(r, category, active) ==
  /\ Begun(r)
  /\ active \/ MayDeactivate(r, category)
  /\ categories' = [categories EXCEPT ![category].active =
                      IF active # req[r].categories[category].active THEN active ELSE @]
  /\ End(r)
  /\ UNCHANGED <<faqs, versions>>

\* TicketService._create: a ticket in a category that is active in its snapshot.
CreateTicket(r, category) ==
  /\ Begun(r)
  /\ CategoryIsActive(r, category)
  /\ categories' = [categories EXCEPT ![category].used = TRUE]
  /\ End(r)
  /\ UNCHANGED <<faqs, versions>>

Next ==
  \E r \in Requests :
    \/ Begin(r)
    \/ Rollback(r)
    \/ \E f \in Faqs, text \in Texts, category \in Categories, source \in Sources \cup {NULL} :
         \/ \E dated \in BOOLEAN : Create(r, f, text, category, source, dated)
         \/ \E sent \in SUBSET Fields : Update(r, f, sent, text, category, source)
    \/ \E f \in Faqs, target \in Editorial!FAQStatus : Workflow(r, f, target)
    \/ \E category \in Categories :
         \/ \E active \in BOOLEAN : SetCategoryStatus(r, category, active)
         \/ CreateTicket(r, category)

Spec == Init /\ [][Next]_vars

==============================================================================
