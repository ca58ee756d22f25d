------------------------------ MODULE Dialogue ------------------------------
(***************************************************************************)
(* What the chatbot says and remembers: which branch of send_message a     *)
(* message takes and what each leaves in the context of the conversation.  *)
(* One request at a time; Conversation interleaves them. Between two       *)
(* messages articles are published and withdrawn, categories activated     *)
(* and deactivated, and the client logs in or out.                         *)
(*                                                                         *)
(* Source: app/modules/chatbot/services/chatbot_service.py.                *)
(***************************************************************************)
EXTENDS TicketDraft, Sequences

CONSTANTS
  Library,            \* the articles of the knowledge base
  Messages,           \* the messages a client may send
  MaxTurns,           \* chatbot_max_turns
  MaxClarifications,  \* chatbot_max_clarification_attempts
  MaxOptions          \* the options of a menu

(***************************************************************************)
(* about: a question about tickets, one that lacks the single code of the  *)
(* ticket, a bare code, or one that is none (malformed, or several); pick  *)
(* and title: the option it selects.                                       *)
(***************************************************************************)
About == {"none", "query", "partial", "code", "malformed"}

Message ==
  [kinds: SUBSET Kinds, labelled: SUBSET Fields, names: SUBSET Categories,
   priorities: 0 .. 2, fits: SUBSET Texts, incident: BOOLEAN, about: About,
   pick: 0 .. MaxOptions, title: Library \cup {NULL}]

ASSUME DialogueAssumption ==
  /\ Messages \subseteq Message
  /\ NULL \notin Library
  /\ MaxTurns \in Nat /\ MaxClarifications \in Nat /\ MaxOptions \in Nat

VARIABLES
  active,  \* the active categories
  usable,  \* the articles that are published, in date and verified
  conv,    \* the conversation and its context
  last     \* the latest reply of the bot

dialogue == <<active, usable, conv, last>>

Statuses == {"ACTIVE", "WAITING_CLARIFICATION", "ESCALATED", "CONVERTED_TO_TICKET"}
Listed(menu) == {menu[i] : i \in DOMAIN menu}

\* Options in the order they are shown, none twice.
Menus == {menu \in UNION {[1 .. n -> Library] : n \in 0 .. MaxOptions} :
            \A i, j \in DOMAIN menu : menu[i] = menu[j] => i = j}

Conversation ==
  [status: Statuses, linked: BOOLEAN, turns: 0 .. MaxTurns, attempts: Nat,
   draft: Draft \cup {NULL}, menu: Menus, query: BOOLEAN]

\* code: it asks for the code that a question lacks; asked: history, the
\* clarifications in a row that the search has asked for.
Reply == [spoken: BOOLEAN, login: BOOLEAN, code: BOOLEAN, options: Menus, picked: 0 .. MaxOptions,
          answered: Library \cup {NULL}, asked: Nat]

NoReply == [spoken |-> FALSE, login |-> FALSE, code |-> FALSE, options |-> <<>>, picked |-> 0,
            answered |-> NULL, asked |-> 0]
Spoken == [NoReply EXCEPT !.spoken = TRUE]

DialogueInit ==
  /\ active = Categories /\ usable = Library
  /\ \E linked \in BOOLEAN :
       conv = [status |-> "ACTIVE", linked |-> linked, turns |-> 0, attempts |-> 0,
               draft |-> NULL, menu |-> <<>>, query |-> FALSE]
  /\ last = NoReply

(***************************************************************************)
(* What goes on elsewhere.                                                 *)
(***************************************************************************)
ToggleCategory(c) ==
  /\ active' = IF c \in active THEN active \ {c} ELSE active \cup {c}
  /\ UNCHANGED <<usable, conv, last>>

ToggleArticle(a) ==
  /\ usable' = IF a \in usable THEN usable \ {a} ELSE usable \cup {a}
  /\ UNCHANGED <<active, conv, last>>

(***************************************************************************)
(* Which branch a message takes.                                           *)
(***************************************************************************)
\* Mutant: as many turns as the limit, and one more.
MayPostInclusive(logged) ==
  /\ conv.linked => logged
  /\ conv.status # "CONVERTED_TO_TICKET"
  /\ conv.turns <= MaxTurns

MayPost(logged) ==
  /\ conv.linked => logged
  /\ conv.status # "CONVERTED_TO_TICKET"
  /\ conv.turns < MaxTurns

\* The bot has answered before; a reset keeps the messages.
HasAnswered == last.spoken

IsStart(m, logged) ==
  \/ "start" \in m.kinds
  \/ logged /\ last.login /\ "resume" \in m.kinds

Unhelpful(m) == "unhelpful" \in m.kinds /\ HasAnswered

\* A draft or the start of one takes the message, unless it is small talk.
IsForDraft(m, logged) ==
  LET start == IsStart(m, logged) IN
  /\ ~start => ~Unhelpful(m) /\ m.kinds \cap {"greeting", "discovery"} = {}
  /\ ShouldHandle(m, Read(conv.draft, active), start)

Branch(m, logged) ==
  IF m.about # "none" THEN "query"
  ELSE IF IsForDraft(m, logged) /\ ~logged THEN "login"
  ELSE IF {"advisor", "start"} \subseteq m.kinds THEN "choice"
  ELSE IF "advisor" \in m.kinds THEN "advisor"
  ELSE IF IsForDraft(m, logged) THEN "draft"
  ELSE IF Unhelpful(m) THEN "unhelpful"
  ELSE IF "greeting" \in m.kinds THEN "greeting"
  ELSE IF "discovery" \in m.kinds THEN "discovery"
  ELSE "search"

(***************************************************************************)
(* What a reply leaves behind.                                             *)
(***************************************************************************)
Plain == [clarifies |-> FALSE, counts |-> TRUE, resolved |-> FALSE, escalates |-> FALSE,
          menu |-> <<>>, query |-> FALSE]
Resolved  == [Plain EXCEPT !.resolved = TRUE]
Clarifies(menu) == [Plain EXCEPT !.clarifies = TRUE, !.menu = menu]

Attempts(result) ==
  IF result.clarifies /\ result.counts THEN conv.attempts + 1
  ELSE IF result.resolved THEN 0 ELSE conv.attempts

\* Mutant: a menu stays until another takes its place.
MenuKept(result) == IF result.clarifies THEN result.menu ELSE conv.menu

MenuAfter(result) == IF result.clarifies THEN result.menu ELSE <<>>

StatusAfter(result) ==
  IF result.escalates THEN "ESCALATED"
  ELSE IF result.clarifies THEN "WAITING_CLARIFICATION" ELSE "ACTIVE"

Settle(result) ==
  /\ conv' = [conv EXCEPT !.turns = @ + 1, !.attempts = Attempts(result),
                          !.menu = MenuAfter(result), !.query = result.query,
                          !.status = StatusAfter(result)]
  /\ UNCHANGED <<active, usable>>

Said(options, asked) ==
  last' = [Spoken EXCEPT !.options = options, !.asked = asked]

(***************************************************************************)
(* The branches.                                                           *)
(***************************************************************************)
\* A bare code completes the question that was only lacking it; a malformed one does not.
LacksCode(m) == m.about \in {"partial", "malformed"} \/ (m.about = "code" /\ ~conv.query)

RefuseQuery(logged) ==
  /\ ~logged
  /\ Settle(Plain)
  /\ Said(<<>>, last.asked)

\* A code alone leaves no question to complete, and a malformed one drops the one there was.
AskForCode(m, logged) ==
  /\ logged
  /\ LacksCode(m)
  /\ Settle([Clarifies(<<>>) EXCEPT !.query = m.about = "partial"])
  /\ last' = [Spoken EXCEPT !.code = m.about = "partial", !.asked = last.asked]

\* Whether it finds the tickets or not, the question is resolved.
AnswerQuery(m, logged) ==
  /\ logged
  /\ ~LacksCode(m)
  /\ Settle(Resolved)
  /\ Said(<<>>, 0)

AskToLogIn ==
  /\ Settle(Plain)
  /\ last' = [Spoken EXCEPT !.login = TRUE, !.asked = last.asked]

AskWhichAction ==
  /\ Settle(Clarifies(<<>>))
  /\ Said(<<>>, last.asked)

EscalateToAdvisor ==
  /\ Settle([Plain EXCEPT !.escalates = TRUE])
  /\ Said(<<>>, last.asked)

DevelopDraft(m, logged) ==
  LET draft == Handle(m, conv.draft, active, IsStart(m, logged)) IN
  /\ conv' = [conv EXCEPT !.turns = @ + 1, !.attempts = 0, !.menu = <<>>, !.query = FALSE,
                          !.linked = TRUE,
                          !.draft = IF draft = Inactive THEN NULL ELSE draft,
                          !.status = IF draft.status = "COLLECTING"
                                     THEN "WAITING_CLARIFICATION" ELSE "ACTIVE"]
  /\ Said(<<>>, 0)
  /\ UNCHANGED <<active, usable>>

AskWhatIsPending ==
  /\ Settle(Clarifies(<<>>))
  /\ Said(<<>>, last.asked)

Greet ==
  /\ Settle(Resolved)
  /\ Said(<<>>, 0)

\* The menu of what can be asked: one article of every category first, so it may be
\* any choice, but none is left out while there is room.
ShowMenu ==
  /\ \E menu \in Menus :
       /\ Listed(menu) \subseteq usable
       /\ Len(menu) < MaxOptions => Listed(menu) = usable
       /\ Settle([Clarifies(menu) EXCEPT !.counts = FALSE])
       /\ Said(menu, last.asked)

(***************************************************************************)
(* Search.                                                                 *)
(***************************************************************************)
\* Mutant: the options are taken in the order of the database.
DatabaseOrder == CHOOSE menu \in Menus : Listed(menu) = Listed(conv.menu) \cap usable

\* The options shown that can still be used, in the order they were shown.
Kept(menu) ==
  LET kept[n \in 0 .. Len(menu)] ==
        IF n = 0 THEN <<>>
        ELSE IF menu[n] \in usable THEN Append(kept[n - 1], menu[n]) ELSE kept[n - 1]
  IN  kept

Candidates == Kept(conv.menu)[Len(conv.menu)]

PicksOrdinal(m) == m.pick \in 1 .. Len(Candidates)

\* An ordinal first; then a title.
Selected(m) ==
  CASE PicksOrdinal(m) -> Candidates[m.pick]
    [] ~PicksOrdinal(m) /\ m.title \in Listed(Candidates) -> m.title
    [] OTHER -> NULL

Selection(m) == IF conv.status = "WAITING_CLARIFICATION" THEN Selected(m) ELSE NULL

AnswerSelection(m) ==
  /\ Selection(m) # NULL
  /\ Settle(Resolved)
  /\ last' = [Spoken EXCEPT !.answered = Selection(m),
                             !.picked = IF PicksOrdinal(m) THEN m.pick ELSE 0]

\* Mutant: as many questions as the limit, and one more.
MayClarifyInclusive == conv.attempts <= MaxClarifications

MayClarify == conv.attempts < MaxClarifications

\* The answers to what the search found: matches, best first, and how sure it is.
Clarify ==
  /\ MayClarify
  /\ \E matches \in Menus :
       /\ Listed(matches) \subseteq usable
       /\ Settle(Clarifies(matches))
       /\ Said(matches, last.asked + 1)

AnswerBest ==
  /\ \E best \in usable :
       /\ Settle(Resolved)
       /\ last' = [Spoken EXCEPT !.answered = best]

\* A generated answer takes the place of a question or of the article, but never
\* while a draft is in progress.
AnswerGenerated ==
  /\ usable # {}
  /\ ~InProgress(Read(conv.draft, active))
  /\ Settle(Resolved)
  /\ Said(<<>>, 0)

OfferTicket ==
  /\ ~MayClarify
  /\ Settle(Plain)
  /\ Said(<<>>, last.asked)

\* An exception while answering: the draft stays as it was, a link to the client is
\* already committed.
Unavailable(branch, logged) ==
  /\ branch = "query" => logged
  /\ \E linked \in {conv.linked, branch = "draft" \/ conv.linked} :
       conv' = [conv EXCEPT !.turns = @ + 1, !.linked = linked, !.menu = <<>>,
                            !.query = FALSE, !.status = "ACTIVE"]
  /\ Said(<<>>, last.asked)
  /\ UNCHANGED <<active, usable>>

(***************************************************************************)
(* The other endpoints.                                                    *)
(***************************************************************************)
LinkUser ==
  /\ conv' = [conv EXCEPT !.linked = TRUE]
  /\ UNCHANGED <<active, usable, last>>

Escalate ==
  /\ conv.status \notin {"CONVERTED_TO_TICKET", "ESCALATED"}
  /\ conv' = [conv EXCEPT !.status = "ESCALATED"]
  /\ UNCHANGED <<active, usable, last>>

Reset ==
  /\ conv.status # "CONVERTED_TO_TICKET"
  /\ conv' = [conv EXCEPT !.status = "ACTIVE", !.turns = 0, !.attempts = 0,
                          !.draft = NULL, !.menu = <<>>, !.query = FALSE]
  /\ last' = [last EXCEPT !.asked = 0]
  /\ UNCHANGED <<active, usable>>

\* Mutant: any draft that is not being collected is confirmed.
ConfirmsAny(category) == conv.draft # NULL => conv.draft.status # "COLLECTING"

Confirms(category) ==
  conv.draft # NULL =>
    /\ conv.draft.status = "READY_FOR_CONFIRMATION"
    /\ conv.draft.category = category

Convert(category) ==
  /\ conv.linked
  /\ conv.status # "CONVERTED_TO_TICKET"
  /\ Confirms(category)
  /\ HasAnswered
  /\ category \in active
  /\ conv' = [conv EXCEPT !.status = "CONVERTED_TO_TICKET", !.draft = NULL]
  /\ UNCHANGED <<active, usable, last>>

SearchAnswers(m) ==
  \/ AnswerSelection(m)
  \/ /\ Selection(m) = NULL
     /\ Clarify \/ AnswerBest \/ AnswerGenerated \/ OfferTicket

SendMessage(m, logged) ==
  /\ MayPost(logged)
  /\ \E branch \in {Branch(m, logged)} :
       \/ branch = "query"     /\ (RefuseQuery(logged) \/ AskForCode(m, logged)
                                                     \/ AnswerQuery(m, logged))
       \/ branch = "login"     /\ AskToLogIn
       \/ branch = "choice"    /\ AskWhichAction
       \/ branch = "advisor"   /\ EscalateToAdvisor
       \/ branch = "draft"     /\ DevelopDraft(m, logged)
       \/ branch = "unhelpful" /\ AskWhatIsPending
       \/ branch = "greeting"  /\ Greet
       \/ branch = "discovery" /\ ShowMenu
       \/ branch = "search"    /\ SearchAnswers(m)
       \/ branch \in {"query", "draft", "discovery", "search"} /\ Unavailable(branch, logged)

DialogueNext ==
  \/ \E c \in Categories : ToggleCategory(c) \/ Convert(c)
  \/ \E a \in Library : ToggleArticle(a)
  \/ \E m \in Messages, logged \in BOOLEAN : SendMessage(m, logged)
  \/ LinkUser \/ Escalate \/ Reset

DialogueSpec == DialogueInit /\ [][DialogueNext]_dialogue

=============================================================================
