---------------------------- MODULE FaqProperties ----------------------------
(***************************************************************************)
(* What the knowledge base must get right.                                 *)
(***************************************************************************)
EXTENDS FaqWorkflow

\* Every variable keeps its type.
TypeOK ==
  /\ faqs \in [Faqs -> FaqRow \cup {Absent}]
  /\ versions \in [Faqs -> Seq(FaqRow)]
  /\ categories \in [Categories -> CategoryRow]
  /\ req \in [Requests -> InFlight \cup {Idle}]

Present == {f \in Faqs : faqs[f] # Absent}

\* The snapshots are the history of the article: one per version, without gaps,
\* the last one equal to the row, whoever edited it meanwhile.
HistoryIsComplete ==
  \A f \in Present : /\ Len(versions[f]) = faqs[f].version
                     /\ versions[f][faqs[f].version] = faqs[f]

\* The public listing requires status, is_active and dates: they never disagree,
\* so what the editors see as published is what the clients see.
PublicationIsConsistent ==
  \A f \in Present : LET row == faqs[f] IN
    /\ row.active <=> row.status = "PUBLISHED"
    /\ row.active => row.published /\ ~row.unpublished

\* What is published, unless older than the workflow, is word for word a version
\* that was under review.
PublishedWasReviewed ==
  \A f \in Present : faqs[f].status = "PUBLISHED" /\ faqs[f].version > 1 =>
    LET before == versions[f][faqs[f].version - 1] IN
    /\ before.status = "REVIEW"
    /\ before.question = faqs[f].question /\ before.source = faqs[f].source

\* A verification date belongs to the source the article cites now.
VerifiedForItsSource ==
  \A f \in Present : faqs[f].verified \in {NULL, DatedFor(faqs[f].source)}

StaleRequest(r) == Begun(r) /\ ~Begun(r)' /\ req[r].faqs # faqs

Duplicated(table) ==
  \E f, g \in Faqs : /\ f # g /\ table[f] # Absent /\ table[g] # Absent
                     /\ table[f].question = table[g].question

\* Two articles with the same question come only from requests that overlap: one
\* whose snapshot is the committed table always finds the other.
DuplicatesNeedOverlap ==
  [][~Duplicated(faqs) /\ Duplicated(faqs') => \E r \in Requests : StaleRequest(r)]_vars

Misplaced(table) == {c \in Categories : table[c].used /\ ~table[c].active}

\* A category used by tickets ends up inactive only if the ticket and the
\* deactivation overlapped (README: no pueden desactivarse).
MisplacedNeedsOverlap ==
  [][Misplaced(categories') \subseteq Misplaced(categories) \/
     \E r \in Requests : Begun(r) /\ ~Begun(r)' /\ req[r].categories # categories]_vars

\* The articles look to their editors like a board where each operation acts at
\* once on the article as it is: no edit is lost, nothing is published unseen.
Promise == INSTANCE FaqEditorial WITH
  Contents <- [text: Texts, source: Sources \cup {NULL}] \cup {NULL},
  board <- [f \in Faqs |->
    [status |-> faqs[f].status, version |-> faqs[f].version,
     content |-> IF faqs[f] = Absent THEN NULL
                 ELSE [text |-> faqs[f].question.text, source |-> faqs[f].source]]]

ImplementsEditorial == Promise!Spec

==============================================================================
