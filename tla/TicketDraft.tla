---------------------------- MODULE TicketDraft ----------------------------
(***************************************************************************)
(* The draft of a ticket that a client fills in over several messages:     *)
(* what one message makes of it. Constant-level; Dialogue drives it.       *)
(*                                                                         *)
(* A message is what the patterns of the code find in it: the kinds of     *)
(* request, the labelled fields, the categories and the number of          *)
(* priorities named (in the value of the label, or anywhere if there is    *)
(* none), the fields whose length fits (the value of the label, or the     *)
(* whole text if nothing is labelled) and whether it tells an incident.    *)
(*                                                                         *)
(* Source: app/modules/chatbot/services/ticket_draft_service.py.           *)
(***************************************************************************)
EXTENDS Integers

CONSTANTS
  Categories,  \* ticket categories, active or not
  NULL

Texts  == {"subject", "description"}
Fields == {"category", "priority"} \cup Texts

ASSUME DraftAssumption == NULL \notin Categories \cup Fields

Kinds == {"cancel", "resume", "confirm", "question", "start", "advisor",
          "unhelpful", "greeting", "discovery"}

(***************************************************************************)
(* given: the fields with a value, other than the category.                *)
(***************************************************************************)
DraftStatuses == {"INACTIVE", "COLLECTING", "READY_FOR_CONFIRMATION", "CANCELLED"}

Draft == [status: DraftStatuses, category: Categories \cup {NULL},
          given: SUBSET (Fields \ {"category"}), errors: SUBSET Fields]

Empty(status) == [status |-> status, category |-> NULL, given |-> {}, errors |-> {}]

Inactive  == Empty("INACTIVE")
Cancelled == Empty("CANCELLED")
NewDraft  == [Empty("COLLECTING") EXCEPT !.given = {"priority"}]  \* MEDIA

InProgress(d) == d.status \in {"COLLECTING", "READY_FOR_CONFIRMATION"}

Missing(d) == {f \in Fields : IF f = "category" THEN d.category = NULL ELSE f \notin d.given}

Refresh(d, active) ==
  LET lost    == d.category # NULL /\ d.category \notin active
      checked == [d EXCEPT !.category = IF lost THEN NULL ELSE @,
                           !.errors   = IF lost THEN @ \cup {"category"} ELSE @]
  IN
  [checked EXCEPT !.status = IF Missing(checked) = {} /\ checked.errors = {}
                             THEN "READY_FOR_CONFIRMATION" ELSE "COLLECTING"]

\* A saved draft as the next request sees it.
Read(saved, active) ==
  IF saved = NULL THEN Inactive
  ELSE IF InProgress(saved) THEN Refresh(saved, active)
  ELSE saved

\* Whether the message is for the draft at all.
ShouldHandle(m, d, start) ==
  IF ~InProgress(d) THEN start \/ m.labelled # {}
  ELSE \/ m.kinds \cap {"cancel", "resume", "confirm"} # {}
       \/ start
       \/ m.labelled # {}
       \/ "question" \notin m.kinds

(***************************************************************************)
(* Filling in, field by field in the order of the code.                    *)
(***************************************************************************)
CategoriesFound(m, active) == active \cap m.names

TakeCategory(d, m, active) ==
  LET found == CategoriesFound(m, active) IN
  IF found = {} /\ "category" \notin m.labelled THEN d
  ELSE IF \E c \in found : found = {c}
       THEN [d EXCEPT !.category = CHOOSE c \in found : TRUE, !.errors = @ \ {"category"}]
       ELSE [d EXCEPT !.category = NULL, !.errors = @ \cup {"category"}]

\* Mutant: a value that is refused leaves the former one in place.
TakeFieldKeepingOld(d, field, fits) ==
  IF fits THEN [d EXCEPT !.given = @ \cup {field}, !.errors = @ \ {field}]
  ELSE [d EXCEPT !.errors = @ \cup {field}]

TakeField(d, field, fits) ==
  IF fits THEN [d EXCEPT !.given = @ \cup {field}, !.errors = @ \ {field}]
  ELSE [d EXCEPT !.given = @ \ {field}, !.errors = @ \cup {field}]

TakePriority(d, m) ==
  IF m.priorities = 0 /\ "priority" \notin m.labelled THEN d
  ELSE TakeField(d, "priority", m.priorities = 1)

TakeLabel(d, m, field) ==
  IF field \in m.labelled THEN TakeField(d, field, field \in m.fits) ELSE d

\* The order of _next_missing_field, which is not the order of the questions.
NextMissing(d) ==
  CASE d.category = NULL             -> "category"
    [] "subject" \in Missing(d)      -> "subject"
    [] "description" \in Missing(d)  -> "description"
    [] "priority" \in Missing(d)     -> "priority"
    [] OTHER                         -> NULL

\* Text that says nothing else is the incident, or the next field.
TakeText(d, m, active, start) ==
  LET next == NextMissing(d) IN
  IF start /\ "description" \in Missing(d)
  THEN IF m.incident THEN TakeField(d, "description", TRUE) ELSE d
  ELSE IF m.labelled # {} \/ CategoriesFound(m, active) # {} \/ m.priorities # 0 THEN d
  ELSE CASE next \in {"category", "priority"} -> [d EXCEPT !.errors = @ \cup {next}]
         [] next \in Texts                    -> TakeField(d, next, next \in m.fits)
         [] OTHER                             -> d

Fill(d, m, active, start) ==
  LET categorised == TakeCategory(d, m, active)
      prioritised == TakePriority(categorised, m)
      titled      == TakeLabel(prioritised, m, "subject")
      described   == TakeLabel(titled, m, "description")
  IN  Refresh(TakeText(described, m, active, start), active)

Handle(m, saved, active, start) ==
  LET existing == Read(saved, active) IN
  CASE InProgress(existing) /\ "cancel" \in m.kinds -> Cancelled
    [] InProgress(existing) /\ m.kinds \cap {"resume", "confirm"} # {}
                            /\ "cancel" \notin m.kinds -> existing
    [] InProgress(existing) /\ m.kinds \cap {"cancel", "resume", "confirm"} = {} ->
         Fill(existing, m, active, start)
    [] ~InProgress(existing) /\ (start \/ m.labelled # {}) ->
         Fill(NewDraft, m, active, start)
    [] OTHER -> existing

(***************************************************************************)
(* The question of the reply: first the errors, then what is missing.      *)
(***************************************************************************)
FirstIn(fields) ==
  CASE "category" \in fields -> "category"
    [] "subject" \in fields -> "subject"
    [] "description" \in fields -> "description"
    [] OTHER -> "priority"

AskedFor(d) ==
  CASE d.status # "COLLECTING"      -> NULL
    [] "category" \in d.errors      -> "category"
    [] "priority" \in d.errors      -> "priority"
    [] "subject" \in d.errors       -> "subject"
    [] "description" \in d.errors   -> "description"
    [] OTHER                        -> FirstIn(Missing(d))

=============================================================================
