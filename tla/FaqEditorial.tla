---------------------------- MODULE FaqEditorial ----------------------------
(***************************************************************************)
(* What the editors of the knowledge base are promised, with no            *)
(* transactions: every edit and every change of status acts on the article *)
(* as it is, counts one version, and an article becomes PUBLISHED only     *)
(* from REVIEW, with the content it had there.                             *)
(***************************************************************************)
EXTENDS Integers

CONSTANTS Faqs, Contents

VARIABLE board   \* status, version and content of each article

FAQStatus == {"DRAFT", "REVIEW", "PUBLISHED", "ARCHIVED"}

\* The statuses workflow allows after a status.
Allowed(status) ==
  CASE status = "DRAFT"     -> {"REVIEW", "ARCHIVED"}
    [] status = "REVIEW"    -> {"DRAFT", "PUBLISHED", "ARCHIVED"}
    [] status = "PUBLISHED" -> {"REVIEW", "ARCHIVED"}
    [] status = "ARCHIVED"  -> {"DRAFT"}
    [] OTHER                -> {}

\* Articles older than the workflow start at version 1, published or archived.
Init == board \in [Faqs -> [status: {"ABSENT"}, version: {0}, content: Contents]
                           \cup [status: {"PUBLISHED", "ARCHIVED"}, version: {1},
                                 content: Contents]]

Card(status, version, content) ==
  [status |-> status, version |-> version, content |-> content]

\* What an operation makes of an article: a new draft, an edit, which takes a
\* published article back to review, or a change of status.
Drafts(card) ==
  IF card.status # "ABSENT" THEN {} ELSE {Card("DRAFT", 1, content) : content \in Contents}

Edits(card) ==
  IF card.status = "ABSENT" THEN {}
  ELSE {Card(IF card.status = "PUBLISHED" THEN "REVIEW" ELSE card.status,
             card.version + 1, content) : content \in Contents}

Moves(card) ==
  {Card(target, card.version + 1, card.content) : target \in Allowed(card.status)}

\* One operation on one article.
Step(f) ==
  /\ board'[f] \in Drafts(board[f]) \cup Edits(board[f]) \cup Moves(board[f])
  /\ board' = [board EXCEPT ![f] = board'[f]]

Next == \E f \in Faqs : Step(f)

Spec == Init /\ [][Next]_board

=============================================================================
