---------------------------- MODULE Conversation ----------------------------
(***************************************************************************)
(* One chatbot conversation under concurrent requests: messages, linking   *)
(* to a client, escalation, reset and conversion to a ticket.              *)
(*                                                                         *)
(* Only the conversion locks the conversation. Every other handler reads   *)
(* it from the snapshot of its transaction and later writes the columns    *)
(* that differ from what it read. send_message commits several times (the  *)
(* message, in some cases a link, the answer, the notice); each COMMIT     *)
(* expires the loaded row, which the next transaction reads again without  *)
(* repeating the checks.                                                   *)
(***************************************************************************)
EXTENDS Integers, FiniteSets

CONSTANTS
  Users,        \* clients who use the chatbot
  Payloads,     \* ticket data: category, subject, description and priority
  Requests,     \* requests that may be in flight at the same time
  Endpoints,    \* the endpoints clients call, a subset of AllEndpoints
  NULL,         \* no user (a visitor), no draft, no ticket
  MaxTurns,     \* chatbot_max_turns
  MaxMessages   \* bound: messages clients send in all

AllEndpoints == {"message", "link", "escalate", "reset", "convert"}

Ticket == [client: Users, payload: Payloads]

ASSUME ConversationAssumption ==
  /\ NULL \notin Users \cup Payloads \cup Ticket
  /\ Endpoints \subseteq AllEndpoints
  /\ MaxTurns \in Nat \ {0} /\ MaxMessages \in Nat
  /\ IsFiniteSet(Requests)

VARIABLES
  conv,      \* the committed row of conversations
  messages,  \* how many committed chat_messages each side has
  notices,   \* dedupe keys of the committed CHAT_ESCALATED notifications
  ticket,    \* the committed ticket whose conversation_id is this one
  granted,   \* the conversions answered with success, and whether with a new ticket
  req        \* the requests in flight

vars == <<conv, messages, notices, ticket, granted, req>>

(***************************************************************************)
(* The draft the context holds. Of one being collected only that it is     *)
(* incomplete is kept. A draft is never stored as INACTIVE.                *)
(***************************************************************************)
Collecting == [status |-> "COLLECTING", data |-> NULL]
Cancelled  == [status |-> "CANCELLED", data |-> NULL]
Ready(p)   == [status |-> "READY_FOR_CONFIRMATION", data |-> p]
Drafts     == {Collecting, Cancelled} \cup {Ready(p) : p \in Payloads}

\* The drafts handle may answer with. Only a draft in progress is cancelled.
DraftReplies(saved) ==
  {Collecting} \cup {Ready(p) : p \in Payloads}
    \cup (IF saved \in {NULL, Cancelled} THEN {} ELSE {Cancelled})

Statuses == {"ACTIVE", "WAITING_CLARIFICATION", "ESCALATED", "CONVERTED_TO_TICKET"}
Row == [status: Statuses, user: Users \cup {NULL}, turns: Nat, draft: Drafts \cup {NULL}]

NewConversation(user) == [status |-> "ACTIVE", user |-> user, turns |-> 0, draft |-> NULL]

Manual == -1   \* the key of a manual escalation; those of the answers are turns
Keys   == {Manual} \cup Nat
Grants == [payload: Payloads, created: BOOLEAN]

Phases == {"begun", "posted", "answering", "linked", "drafting", "answered"}
Idle == [phase |-> "idle"]
InFlight ==
  [phase: Phases, actor: Users \cup {NULL}, first: Row, row: Row, ticket: Ticket \cup {NULL},
   notices: SUBSET Keys, answered: BOOLEAN, escalated: BOOLEAN]

\* create_conversation has returned.
Init ==
  /\ \E user \in Users \cup {NULL} : conv = NewConversation(user)
  /\ messages = [user |-> 0, bot |-> 0]
  /\ notices = {}
  /\ ticket = NULL
  /\ granted = {}
  /\ req = [r \in Requests |-> Idle]

At(r, phase) == req[r].phase = phase

\* The next COMMIT of a request that goes on: what it read expires.
Advance(r, phase) == req' = [req EXCEPT ![r].phase = phase]

\* A transaction's first read of the conversation.
Reread(r, phase) ==
  /\ req' = [req EXCEPT ![r].phase = phase, ![r].row = conv]
  /\ UNCHANGED <<conv, messages, notices, ticket, granted>>

End(r) == req' = [req EXCEPT ![r] = Idle]

\* The column an UPDATE leaves: the ORM writes it only if it differs from the
\* value this transaction read.
Column(read, new, committed) == IF new = read THEN committed ELSE new

Begin(r, actor) ==
  /\ At(r, "idle")
  /\ req' = [req EXCEPT ![r] =
       [phase |-> "begun", actor |-> actor, first |-> conv, row |-> conv, ticket |-> ticket,
        notices |-> notices, answered |-> messages.bot > 0, escalated |-> FALSE]]
  /\ UNCHANGED <<conv, messages, notices, ticket, granted>>

\* A refusal, an exception, a lost connection or a crash: what was committed
\* stays.
Rollback(r) ==
  /\ ~At(r, "idle")
  /\ End(r)
  /\ UNCHANGED <<conv, messages, notices, ticket, granted>>

Authorized(row, actor) == row.user \in {NULL, actor}

(***************************************************************************)
(* send_message, one action per transaction.                               *)
(***************************************************************************)
\* Mutant: a converted conversation still takes messages.
MessageAlwaysAllowed(row) == row.status \in Statuses

MessageAllowed(row) == row.status # "CONVERTED_TO_TICKET"

\* Mutant: the limit itself still admits a message.
WithinTurnsInclusive(row) == row.turns <= MaxTurns

WithinTurns(row) == row.turns < MaxTurns

\* The checks, and the COMMIT of the client's message.
PostMessage(r) ==
  /\ "message" \in Endpoints /\ At(r, "begun")
  /\ Authorized(req[r].row, req[r].actor)
  /\ MessageAllowed(req[r].row)
  /\ WithinTurns(req[r].row)
  /\ messages.user < MaxMessages
  /\ messages' = [messages EXCEPT !.user = @ + 1]
  /\ Advance(r, "posted")
  /\ UNCHANGED <<conv, notices, ticket, granted>>

ReadToAnswer(r) == At(r, "posted") /\ Reread(r, "answering")

\* A draft in a conversation without a user: link_user, with its own COMMIT.
LinkToDraft(r) ==
  /\ At(r, "answering")
  /\ req[r].actor # NULL
  /\ req[r].row.user = NULL
  /\ conv' = [conv EXCEPT !.user = req[r].actor]
  /\ Advance(r, "linked")
  /\ UNCHANGED <<messages, notices, ticket, granted>>

ReadToDraft(r) == At(r, "linked") /\ Reread(r, "drafting")

\* The COMMIT of the answer, with the conversation as the handler sees it. The
\* context is written whole if any part of it changed.
Answer(r, status, draft, contextChanged) ==
  LET row == req[r].row IN
  /\ draft # row.draft => contextChanged
  /\ conv' = [conv EXCEPT !.turns  = row.turns + 1,
                          !.status = Column(row.status, status, @),
                          !.draft  = IF contextChanged THEN draft ELSE @]
  /\ messages' = [messages EXCEPT !.bot = @ + 1]
  /\ req' = [req EXCEPT ![r].phase = "answered", ![r].escalated = status = "ESCALATED"]
  /\ UNCHANGED <<notices, ticket, granted>>

\* The draft is developed from the one the first transaction read.
AnswerDraft(r) ==
  /\ req[r].phase \in {"answering", "drafting"}
  /\ req[r].actor # NULL
  /\ req[r].row.user # NULL
  /\ \E draft \in DraftReplies(req[r].first.draft), contextChanged \in BOOLEAN :
       Answer(r, IF draft = Collecting THEN "WAITING_CLARIFICATION" ELSE "ACTIVE",
              draft, contextChanged)

\* Any other answer keeps the draft; one after a link only when drafting failed.
AnswerQuestion(r) ==
  /\ req[r].phase \in {"answering", "drafting"}
  /\ \E status \in {"ACTIVE", "WAITING_CLARIFICATION", "ESCALATED"},
        contextChanged \in BOOLEAN :
       /\ At(r, "drafting") => status = "ACTIVE"
       /\ Answer(r, status, req[r].row.draft, contextChanged)

\* The last COMMIT: the notice of an escalation, keyed by the turn.
Announce(r) ==
  /\ At(r, "answered")
  /\ notices' = notices \cup
       (IF req[r].escalated /\ conv.user # NULL THEN {conv.turns} ELSE {})
  /\ End(r)
  /\ UNCHANGED <<conv, messages, ticket, granted>>

(***************************************************************************)
(* The handlers of one transaction that read without a lock.               *)
(***************************************************************************)
LinkUser(r) ==
  LET row == req[r].row IN
  /\ "link" \in Endpoints /\ At(r, "begun")
  /\ req[r].actor # NULL
  /\ Authorized(row, req[r].actor)
  /\ conv' = [conv EXCEPT !.user = Column(row.user, req[r].actor, @)]
  /\ End(r)
  /\ UNCHANGED <<messages, notices, ticket, granted>>

\* A notice whose key the snapshot did not show collides if it was inserted since.
Escalate(r) ==
  LET row    == req[r].row
      notify == row.user # NULL /\ Manual \notin req[r].notices
  IN
  /\ "escalate" \in Endpoints /\ At(r, "begun")
  /\ Authorized(row, req[r].actor)
  /\ row.status \notin {"CONVERTED_TO_TICKET", "ESCALATED"}
  /\ notify => Manual \notin notices
  /\ conv' = [conv EXCEPT !.status = "ESCALATED"]
  /\ notices' = notices \cup (IF notify THEN {Manual} ELSE {})
  /\ End(r)
  /\ UNCHANGED <<messages, ticket, granted>>

ResetAllowed(row) == row.status # "CONVERTED_TO_TICKET"

\* The context also holds what is not a draft: clearing it may write the column
\* even when the draft read was empty.
Reset(r, contextChanged) ==
  LET row == req[r].row IN
  /\ "reset" \in Endpoints /\ At(r, "begun")
  /\ Authorized(row, req[r].actor)
  /\ ResetAllowed(row)
  /\ row.draft # NULL => contextChanged
  /\ conv' = [conv EXCEPT !.status = Column(row.status, "ACTIVE", @),
                          !.turns  = Column(row.turns, 0, @),
                          !.draft  = IF contextChanged THEN NULL ELSE @]
  /\ End(r)
  /\ UNCHANGED <<messages, notices, ticket, granted>>

(***************************************************************************)
(* convert_conversation locks the row and so reads the latest one; the     *)
(* ticket and the answers it looks for come from the snapshot.             *)
(***************************************************************************)
DraftConfirms(draft, payload) == draft = NULL \/ draft = Ready(payload)

Convert(r, payload) ==
  /\ "convert" \in Endpoints /\ At(r, "begun")
  /\ req[r].actor # NULL
  /\ conv.user = req[r].actor
  /\ req[r].ticket = NULL
  /\ conv.status # "CONVERTED_TO_TICKET"
  /\ DraftConfirms(conv.draft, payload)
  /\ req[r].answered
  /\ ticket = NULL        \* tickets.conversation_id is unique
  /\ ticket' = [client |-> conv.user, payload |-> payload]
  /\ conv' = [conv EXCEPT !.status = "CONVERTED_TO_TICKET", !.draft = NULL]
  /\ granted' = granted \cup {[payload |-> payload, created |-> TRUE]}
  /\ End(r)
  /\ UNCHANGED <<messages, notices>>

\* Mutant: the payload of a retry is not compared with the ticket.
RecoverableByClient(found, actor, payload) == found.client = actor /\ payload \in Payloads

\* A retry is answered with the ticket it finds, if that one is what it asks for.
Recoverable(found, actor, payload) == found = [client |-> actor, payload |-> payload]

Recover(r, payload) ==
  /\ "convert" \in Endpoints /\ At(r, "begun")
  /\ conv.user = req[r].actor
  /\ req[r].ticket # NULL
  /\ Recoverable(req[r].ticket, req[r].actor, payload)
  /\ granted' = granted \cup {[payload |-> payload, created |-> FALSE]}
  /\ End(r)
  /\ UNCHANGED <<conv, messages, notices, ticket>>

Next ==
  \E r \in Requests :
    \/ \E actor \in Users \cup {NULL} : Begin(r, actor)
    \/ Rollback(r)
    \/ PostMessage(r)
    \/ ReadToAnswer(r)
    \/ LinkToDraft(r)
    \/ ReadToDraft(r)
    \/ AnswerDraft(r)
    \/ AnswerQuestion(r)
    \/ Announce(r)
    \/ LinkUser(r)
    \/ Escalate(r)
    \/ \E contextChanged \in BOOLEAN : Reset(r, contextChanged)
    \/ \E payload \in Payloads : Convert(r, payload)
    \/ \E payload \in Payloads : Recover(r, payload)

Spec == Init /\ [][Next]_vars

=============================================================================
