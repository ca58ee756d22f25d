------------------------- MODULE ConversationProofs -------------------------
(***************************************************************************)
(* Theorems about Conversation, for any clients, payloads, requests,       *)
(* endpoints and limits.                                                   *)
(***************************************************************************)
EXTENDS ConversationProperties, FiniteSetTheorems, TLAPS

LEMMA GrantType ==
  ASSUME NEW payload \in Payloads, NEW created \in BOOLEAN
  PROVE  [payload |-> payload, created |-> created] \in Grants
BY DEF Grants

(***************************************************************************)
(* Types. A request that is not idle holds a record of InFlight.           *)
(***************************************************************************)
LEMMA RequestType ==
  ASSUME TypeOK, NEW r \in Requests, ~At(r, "idle")
  PROVE  req[r] \in InFlight
BY DEF TypeOK, At, Idle

LEMMA AdvanceType ==
  ASSUME TypeOK, NEW r \in Requests, ~At(r, "idle"), NEW phase \in Phases, Advance(r, phase)
  PROVE  req' \in [Requests -> InFlight \cup {Idle}]
<1>1. req[r] \in InFlight BY RequestType
<1>2. [req[r] EXCEPT !.phase = phase] \in InFlight BY <1>1 DEF InFlight
<1> QED BY <1>2 DEF Advance, TypeOK

LEMMA EndType ==
  ASSUME TypeOK, NEW r \in Requests, End(r)
  PROVE  req' \in [Requests -> InFlight \cup {Idle}]
BY DEF End, TypeOK

LEMMA RereadType ==
  ASSUME TypeOK, NEW r \in Requests, ~At(r, "idle"), NEW phase \in Phases, Reread(r, phase)
  PROVE  TypeOK'
<1>1. req[r] \in InFlight BY RequestType
<1>2. [req[r] EXCEPT !.phase = phase, !.row = conv] \in InFlight
  BY <1>1 DEF InFlight, TypeOK
<1> QED BY <1>2 DEF Reread, TypeOK

LEMMA DraftRepliesType ==
  ASSUME NEW saved \in Drafts \cup {NULL}
  PROVE  DraftReplies(saved) \subseteq Drafts
BY DEF DraftReplies, Drafts

LEMMA AnswerType ==
  ASSUME TypeOK, NEW r \in Requests, ~At(r, "idle"),
         NEW status \in Statuses, NEW draft \in Drafts \cup {NULL},
         NEW contextChanged \in BOOLEAN, Answer(r, status, draft, contextChanged)
  PROVE  TypeOK'
<1>1. req[r] \in InFlight BY RequestType
<1>2. req[r].row \in Row BY <1>1 DEF InFlight
<1>3. conv' \in Row
  <2> DEFINE newStatus == Column(req[r].row.status, status, conv.status)
             newDraft  == IF contextChanged THEN draft ELSE conv.draft
  <2>1. newStatus \in Statuses BY DEF Column, TypeOK, Row
  <2>2. newDraft \in Drafts \cup {NULL} BY DEF TypeOK, Row
  <2>3. req[r].row.turns + 1 \in Nat BY <1>2 DEF Row
  <2>4. conv' = [conv EXCEPT !.turns = req[r].row.turns + 1, !.status = newStatus,
                             !.draft = newDraft]
    BY DEF Answer
  <2> HIDE DEF newStatus, newDraft
  <2> QED BY <2>1, <2>2, <2>3, <2>4 DEF Row, TypeOK
<1>4. [req[r] EXCEPT !.phase = "answered", !.escalated = (status = "ESCALATED")] \in InFlight
  BY <1>1 DEF InFlight, Phases
<1>5. req' \in [Requests -> InFlight \cup {Idle}] BY <1>4 DEF Answer, TypeOK
<1>6. messages' \in [user: Nat, bot: Nat] BY DEF Answer, TypeOK
<1> QED BY <1>3, <1>5, <1>6 DEF Answer, TypeOK

\* Every action keeps the types.
LEMMA TypeStep ==
  ASSUME TypeOK, [Next]_vars
  PROVE  TypeOK'
<1>1. CASE UNCHANGED vars BY <1>1 DEF vars, TypeOK
<1>2. ASSUME NEW r \in Requests, NEW actor \in Users \cup {NULL}, Begin(r, actor)
      PROVE  TypeOK'
  <2>1. [phase |-> "begun", actor |-> actor, first |-> conv, row |-> conv, ticket |-> ticket,
         notices |-> notices, answered |-> messages.bot > 0, escalated |-> FALSE] \in InFlight
    BY DEF InFlight, Phases, TypeOK
  <2> QED BY <1>2, <2>1 DEF Begin, TypeOK
<1>3. ASSUME NEW r \in Requests, Rollback(r) PROVE TypeOK'
  BY <1>3, EndType DEF Rollback, TypeOK
<1>4. ASSUME NEW r \in Requests, PostMessage(r) PROVE TypeOK'
  <2>1. req' \in [Requests -> InFlight \cup {Idle}]
    BY <1>4, AdvanceType DEF PostMessage, Phases, At
  <2>2. messages' \in [user: Nat, bot: Nat] BY <1>4 DEF PostMessage, TypeOK
  <2> QED BY <1>4, <2>1, <2>2 DEF PostMessage, TypeOK
<1>5. ASSUME NEW r \in Requests, ReadToAnswer(r) PROVE TypeOK'
  BY <1>5, RereadType DEF ReadToAnswer, Phases, At
<1>6. ASSUME NEW r \in Requests, LinkToDraft(r) PROVE TypeOK'
  <2>1. req' \in [Requests -> InFlight \cup {Idle}]
    BY <1>6, AdvanceType DEF LinkToDraft, Phases, At
  <2>2. req[r].actor \in Users \cup {NULL}
    BY <1>6, RequestType DEF LinkToDraft, At, InFlight
  <2>3. conv' \in Row BY <1>6, <2>2 DEF LinkToDraft, TypeOK, Row
  <2> QED BY <1>6, <2>1, <2>3 DEF LinkToDraft, TypeOK
<1>7. ASSUME NEW r \in Requests, ReadToDraft(r) PROVE TypeOK'
  BY <1>7, RereadType DEF ReadToDraft, Phases, At
<1>8. ASSUME NEW r \in Requests, AnswerDraft(r) PROVE TypeOK'
  <2>1. ~At(r, "idle") BY <1>8 DEF AnswerDraft, At
  <2>2. req[r].first.draft \in Drafts \cup {NULL}
    BY <2>1, RequestType DEF InFlight, Row
  <2>3. PICK draft \in DraftReplies(req[r].first.draft), contextChanged \in BOOLEAN :
          Answer(r, IF draft = Collecting THEN "WAITING_CLARIFICATION" ELSE "ACTIVE",
                 draft, contextChanged)
    BY <1>8 DEF AnswerDraft
  <2>4. draft \in Drafts BY <2>2, DraftRepliesType
  <2>5. (IF draft = Collecting THEN "WAITING_CLARIFICATION" ELSE "ACTIVE") \in Statuses
    BY DEF Statuses
  <2> QED BY <2>1, <2>3, <2>4, <2>5, AnswerType
<1>9. ASSUME NEW r \in Requests, AnswerQuestion(r) PROVE TypeOK'
  <2>1. ~At(r, "idle") BY <1>9 DEF AnswerQuestion, At
  <2>2. req[r].row.draft \in Drafts \cup {NULL}
    BY <2>1, RequestType DEF InFlight, Row
  <2>3. PICK status \in {"ACTIVE", "WAITING_CLARIFICATION", "ESCALATED"},
             contextChanged \in BOOLEAN :
          Answer(r, status, req[r].row.draft, contextChanged)
    BY <1>9 DEF AnswerQuestion
  <2>4. status \in Statuses BY DEF Statuses
  <2> QED BY <2>1, <2>2, <2>3, <2>4, AnswerType
<1>10. ASSUME NEW r \in Requests, Announce(r) PROVE TypeOK'
  <2>1. req' \in [Requests -> InFlight \cup {Idle}] BY <1>10, EndType DEF Announce
  <2>2. conv.turns \in Keys BY DEF TypeOK, Row, Keys
  <2> QED BY <1>10, <2>1, <2>2 DEF Announce, TypeOK
<1>11. ASSUME NEW r \in Requests, LinkUser(r) PROVE TypeOK'
  <2>1. req' \in [Requests -> InFlight \cup {Idle}] BY <1>11, EndType DEF LinkUser
  <2>2. req[r].actor \in Users \cup {NULL}
    BY <1>11, RequestType DEF LinkUser, At, InFlight
  <2> DEFINE newUser == Column(req[r].row.user, req[r].actor, conv.user)
  <2>3. newUser \in Users \cup {NULL} BY <2>2 DEF Column, TypeOK, Row
  <2>4. conv' = [conv EXCEPT !.user = newUser] BY <1>11 DEF LinkUser
  <2> HIDE DEF newUser
  <2>5. conv' \in Row BY <2>3, <2>4 DEF TypeOK, Row
  <2> QED BY <1>11, <2>1, <2>5 DEF LinkUser, TypeOK
<1>12. ASSUME NEW r \in Requests, Escalate(r) PROVE TypeOK'
  <2>1. req' \in [Requests -> InFlight \cup {Idle}] BY <1>12, EndType DEF Escalate
  <2>2. conv' \in Row BY <1>12 DEF Escalate, TypeOK, Row, Statuses
  <2>3. Manual \in Keys BY DEF Keys
  <2> QED BY <1>12, <2>1, <2>2, <2>3 DEF Escalate, TypeOK
<1>13. ASSUME NEW r \in Requests, NEW contextChanged \in BOOLEAN, Reset(r, contextChanged)
       PROVE  TypeOK'
  <2>1. req' \in [Requests -> InFlight \cup {Idle}] BY <1>13, EndType DEF Reset
  <2> DEFINE newStatus == Column(req[r].row.status, "ACTIVE", conv.status)
             newTurns  == Column(req[r].row.turns, 0, conv.turns)
             newDraft  == IF contextChanged THEN NULL ELSE conv.draft
  <2>2. newStatus \in Statuses BY DEF Column, TypeOK, Row, Statuses
  <2>3. newTurns \in Nat BY DEF Column, TypeOK, Row
  <2>4. newDraft \in Drafts \cup {NULL} BY DEF TypeOK, Row
  <2>5. conv' = [conv EXCEPT !.status = newStatus, !.turns = newTurns, !.draft = newDraft]
    BY <1>13 DEF Reset
  <2> HIDE DEF newStatus, newTurns, newDraft
  <2>6. conv' \in Row BY <2>2, <2>3, <2>4, <2>5 DEF TypeOK, Row
  <2> QED BY <1>13, <2>1, <2>6 DEF Reset, TypeOK
<1>14. ASSUME NEW r \in Requests, NEW payload \in Payloads, Convert(r, payload)
       PROVE  TypeOK'
  <2>1. req' \in [Requests -> InFlight \cup {Idle}] BY <1>14, EndType DEF Convert
  <2>2. conv' \in Row BY <1>14 DEF Convert, TypeOK, Row, Statuses
  <2>3. ticket' \in Ticket BY <1>14 DEF Convert, TypeOK, Row, Ticket
  <2>4. granted' \subseteq Grants BY <1>14, GrantType DEF Convert, TypeOK
  <2> QED BY <1>14, <2>1, <2>2, <2>3, <2>4 DEF Convert, TypeOK
<1>15. ASSUME NEW r \in Requests, NEW payload \in Payloads, Recover(r, payload)
       PROVE  TypeOK'
  <2>1. req' \in [Requests -> InFlight \cup {Idle}] BY <1>15, EndType DEF Recover
  <2>2. granted' \subseteq Grants BY <1>15, GrantType DEF Recover, TypeOK
  <2> QED BY <1>15, <2>1, <2>2 DEF Recover, TypeOK
<1> QED BY <1>1, <1>2, <1>3, <1>4, <1>5, <1>6, <1>7, <1>8, <1>9, <1>10, <1>11, <1>12,
           <1>13, <1>14, <1>15 DEF Next

\* The conversation, its messages, notices and ticket, and the requests keep their
\* types in every behaviour.
THEOREM TypeCorrect == Spec => []TypeOK
<1>1. Init => TypeOK
  BY DEF Init, TypeOK, NewConversation, Row, Statuses
<1> QED BY <1>1, TypeStep, PTL DEF Spec

(***************************************************************************)
(* One ticket per conversation. A request only knows of a ticket that is   *)
(* still there, and nothing is granted before there is one.                *)
(***************************************************************************)
SnapshotsKnowTicket == \A r \in Requests : ~At(r, "idle") => req[r].ticket \in {NULL, ticket}
GrantsNeedTicket    == ticket = NULL => granted = {}

IInv == TypeOK /\ SnapshotsKnowTicket /\ GrantsNeedTicket

LEMMA NoTicketIsNull == NULL \notin Ticket
BY ConversationAssumption

\* What every action but a conversion does: the ticket and what was granted stay,
\* and a request keeps the ticket it knew of or has just read the committed one.
TicketKept ==
  /\ UNCHANGED <<ticket, granted>>
  /\ \A r \in Requests : ~At(r, "idle")' =>
       \/ req'[r].ticket = ticket
       \/ ~At(r, "idle") /\ req'[r].ticket = req[r].ticket

LEMMA AdvanceKeeps ==
  ASSUME TypeOK, NEW r \in Requests, ~At(r, "idle"), NEW phase \in Phases, Advance(r, phase),
         UNCHANGED <<ticket, granted>>
  PROVE  TicketKept
<1>1. req[r] \in InFlight BY RequestType
<1>2. req'[r].ticket = req[r].ticket BY <1>1 DEF Advance, InFlight, TypeOK
<1>3. \A q \in Requests : q # r => req'[q] = req[q] BY DEF Advance, TypeOK
<1> QED BY <1>2, <1>3 DEF TicketKept, At

LEMMA RereadKeeps ==
  ASSUME TypeOK, NEW r \in Requests, ~At(r, "idle"), NEW phase \in Phases, Reread(r, phase)
  PROVE  TicketKept
<1>1. req[r] \in InFlight BY RequestType
<1>2. req'[r].ticket = req[r].ticket BY <1>1 DEF Reread, InFlight, TypeOK
<1>3. \A q \in Requests : q # r => req'[q] = req[q] BY DEF Reread, TypeOK
<1> QED BY <1>2, <1>3 DEF TicketKept, At, Reread

LEMMA EndKeeps ==
  ASSUME TypeOK, NEW r \in Requests, End(r)
  PROVE  /\ req'[r].phase = "idle"
         /\ \A q \in Requests : q # r => req'[q] = req[q]
BY DEF End, TypeOK, Idle

LEMMA AnswerKeeps ==
  ASSUME TypeOK, NEW r \in Requests, ~At(r, "idle"), NEW status, NEW draft, NEW contextChanged,
         Answer(r, status, draft, contextChanged)
  PROVE  TicketKept
<1>1. req[r] \in InFlight BY RequestType
<1>2. req'[r].ticket = req[r].ticket BY <1>1 DEF Answer, InFlight, TypeOK
<1>3. \A q \in Requests : q # r => req'[q] = req[q] BY DEF Answer, TypeOK
<1> QED BY <1>2, <1>3 DEF TicketKept, At, Answer

LEMMA StepKinds ==
  ASSUME TypeOK, [Next]_vars
  PROVE  \/ TicketKept
         \/ \E r \in Requests, payload \in Payloads : Convert(r, payload) \/ Recover(r, payload)
<1>1. CASE UNCHANGED vars BY <1>1 DEF vars, TicketKept, At
<1>2. ASSUME NEW r \in Requests, NEW actor \in Users \cup {NULL}, Begin(r, actor)
      PROVE  TicketKept
  <2>1. req'[r].ticket = ticket BY <1>2 DEF Begin, TypeOK
  <2>2. \A q \in Requests : q # r => req'[q] = req[q] BY <1>2 DEF Begin, TypeOK
  <2> QED BY <1>2, <2>1, <2>2 DEF TicketKept, At, Begin
<1>3. ASSUME NEW r \in Requests,
             \/ Rollback(r) \/ Announce(r) \/ LinkUser(r) \/ Escalate(r)
             \/ \E contextChanged \in BOOLEAN : Reset(r, contextChanged)
      PROVE  TicketKept
  <2>1. End(r) /\ UNCHANGED <<ticket, granted>>
    BY <1>3 DEF Rollback, Announce, LinkUser, Escalate, Reset
  <2> QED BY <2>1, EndKeeps DEF TicketKept, At
<1>4. ASSUME NEW r \in Requests, PostMessage(r) \/ LinkToDraft(r) PROVE TicketKept
  <2>1. ~At(r, "idle") BY <1>4 DEF PostMessage, LinkToDraft, At
  <2>2. PICK phase \in Phases : Advance(r, phase)
    BY <1>4 DEF PostMessage, LinkToDraft, Phases
  <2>3. UNCHANGED <<ticket, granted>> BY <1>4 DEF PostMessage, LinkToDraft
  <2> QED BY <2>1, <2>2, <2>3, AdvanceKeeps
<1>5. ASSUME NEW r \in Requests, ReadToAnswer(r) \/ ReadToDraft(r) PROVE TicketKept
  <2>1. ~At(r, "idle") BY <1>5 DEF ReadToAnswer, ReadToDraft, At
  <2>2. PICK phase \in Phases : Reread(r, phase)
    BY <1>5 DEF ReadToAnswer, ReadToDraft, Phases
  <2> QED BY <2>1, <2>2, RereadKeeps
<1>6. ASSUME NEW r \in Requests, AnswerDraft(r) \/ AnswerQuestion(r) PROVE TicketKept
  <2>1. ~At(r, "idle") BY <1>6 DEF AnswerDraft, AnswerQuestion, At
  <2>2. \E status, draft, contextChanged : Answer(r, status, draft, contextChanged)
    BY <1>6 DEF AnswerDraft, AnswerQuestion
  <2> QED BY <2>1, <2>2, AnswerKeeps
<1> QED BY <1>1, <1>2, <1>3, <1>4, <1>5, <1>6 DEF Next

LEMMA InvStep ==
  ASSUME IInv, [Next]_vars
  PROVE  IInv'
<1> USE DEF IInv
<1>1. TypeOK' BY TypeStep
<1>2. CASE TicketKept
  <2>1. SnapshotsKnowTicket' BY <1>2 DEF SnapshotsKnowTicket, TicketKept
  <2>2. GrantsNeedTicket' BY <1>2 DEF GrantsNeedTicket, TicketKept
  <2> QED BY <1>1, <2>1, <2>2
<1>3. ASSUME NEW r \in Requests, NEW payload \in Payloads, Convert(r, payload)
      PROVE  IInv'
  <2>1. ticket = NULL /\ ticket' \in Ticket
    BY <1>3 DEF Convert, TypeOK, Row, Ticket
  <2>2. \A q \in Requests : q # r => req'[q] = req[q] BY <1>3, EndKeeps DEF Convert
  <2>3. req'[r].phase = "idle" BY <1>3, EndKeeps DEF Convert
  <2>4. SnapshotsKnowTicket' BY <2>1, <2>2, <2>3 DEF SnapshotsKnowTicket, At
  <2>5. GrantsNeedTicket' BY <2>1, NoTicketIsNull DEF GrantsNeedTicket
  <2> QED BY <1>1, <2>4, <2>5
<1>4. ASSUME NEW r \in Requests, NEW payload \in Payloads, Recover(r, payload)
      PROVE  IInv'
  <2>1. ticket # NULL /\ ticket' = ticket
    BY <1>4 DEF Recover, SnapshotsKnowTicket, At
  <2>2. \A q \in Requests : q # r => req'[q] = req[q] BY <1>4, EndKeeps DEF Recover
  <2>3. req'[r].phase = "idle" BY <1>4, EndKeeps DEF Recover
  <2>4. SnapshotsKnowTicket' BY <2>1, <2>2, <2>3 DEF SnapshotsKnowTicket, At
  <2>5. GrantsNeedTicket' BY <2>1 DEF GrantsNeedTicket
  <2> QED BY <1>1, <2>4, <2>5
<1> QED BY <1>2, <1>3, <1>4, StepKinds

LEMMA InvHolds == Spec => []IInv
<1>1. Init => IInv
  <2>1. Init => TypeOK BY DEF Init, TypeOK, NewConversation, Row, Statuses
  <2>2. Init => SnapshotsKnowTicket BY DEF Init, SnapshotsKnowTicket, At, Idle
  <2>3. Init => GrantsNeedTicket BY DEF Init, GrantsNeedTicket
  <2> QED BY <2>1, <2>2, <2>3 DEF IInv
<1> QED BY <1>1, InvStep, PTL DEF Spec

\* Conversions that race, that repeat each other or that find a conversation another
\* request brought back make one ticket, and each success is answered with it.
THEOREM OneTicket == Spec => ImplementsConversion
<1>1. Init => Promise!Init BY DEF Init, Promise!Init
<1>2. ASSUME IInv, [Next]_vars
      PROVE  [Promise!Next]_<<ticket, granted>>
  <2>1. CASE TicketKept BY <2>1 DEF TicketKept
  <2>2. ASSUME NEW r \in Requests, NEW payload \in Payloads, Convert(r, payload)
        PROVE  Promise!Next
    <3>1. ~At(r, "idle") BY <2>2 DEF Convert, At
    <3>2. conv.user \in Users BY <1>2, <2>2 DEF Convert, IInv, TypeOK, Row
    <3>3. granted = {} BY <1>2, <2>2 DEF Convert, IInv, GrantsNeedTicket
    <3>4. granted' = {[payload |-> payload, created |-> TRUE]} BY <2>2, <3>3 DEF Convert
    <3>5. Promise!First(conv.user, payload) BY <2>2, <3>4 DEF Convert, Promise!First
    <3> QED BY <3>2, <3>5 DEF Promise!Next
  <2>3. ASSUME NEW r \in Requests, NEW payload \in Payloads, Recover(r, payload)
        PROVE  Promise!Next
    <3>1. ticket # NULL /\ req[r].ticket = ticket
      BY <1>2, <2>3 DEF Recover, IInv, SnapshotsKnowTicket, At
    <3>2. ticket.payload = payload BY <2>3, <3>1 DEF Recover, Recoverable
    <3>3. Promise!Retry BY <2>3, <3>1, <3>2 DEF Recover, Promise!Retry
    <3> QED BY <3>3 DEF Promise!Next
  <2>4. TypeOK BY <1>2 DEF IInv
  <2> QED BY <1>2, <2>1, <2>2, <2>3, <2>4, StepKinds
<1> QED BY <1>1, <1>2, InvHolds, PTL DEF Spec, ImplementsConversion, Promise!Spec

(***************************************************************************)
(* Who may revive a converted conversation. A request that is past the     *)
(* check of send_message read the conversation before it was converted; a  *)
(* request that is not has still the row it began with.                    *)
(***************************************************************************)
BeganBefore(r) == req[r].first.status # "CONVERTED_TO_TICKET"

RequestsChecked == \A r \in Requests : ~At(r, "idle") =>
  /\ At(r, "begun") => req[r].row = req[r].first
  /\ ~At(r, "begun") => BeganBefore(r)
  /\ ~BeganBefore(r) => req[r].first.user # NULL

ConvertedHasUser == conv.status = "CONVERTED_TO_TICKET" => conv.user # NULL

RInv == TypeOK /\ RequestsChecked /\ ConvertedHasUser

\* A step of r that ends it or, having read the conversation before it was
\* converted, takes it to a later phase.
Moves(r) ==
  /\ ~At(r, "idle") /\ req'[r] # req[r]
  /\ \A q \in Requests : q # r => req'[q] = req[q]
  /\ \/ req'[r].phase = "idle"
     \/ /\ req'[r].phase \notin {"idle", "begun"}
        /\ req'[r].first = req[r].first
        /\ BeganBefore(r)

LEMMA MovesKeepChecked ==
  ASSUME RequestsChecked, NEW r \in Requests, Moves(r)
  PROVE  RequestsChecked'
BY DEF RequestsChecked, Moves, At, BeganBefore

LEMMA EndMoves ==
  ASSUME TypeOK, NEW r \in Requests, ~At(r, "idle"), End(r)
  PROVE  Moves(r)
<1>1. req'[r].phase = "idle" /\ \A q \in Requests : q # r => req'[q] = req[q] BY EndKeeps
<1>2. req'[r] # req[r] BY <1>1 DEF At
<1> QED BY <1>1, <1>2 DEF Moves

LEMMA AdvanceMoves ==
  ASSUME TypeOK, NEW r \in Requests, NEW phase \in Phases \ {"begun"}, ~At(r, "idle"),
         ~At(r, phase), Advance(r, phase), BeganBefore(r)
  PROVE  Moves(r)
<1>1. req[r] \in InFlight BY RequestType
<1>2. req'[r].phase = phase /\ req'[r].first = req[r].first
  BY <1>1 DEF Advance, InFlight, TypeOK
<1>3. \A q \in Requests : q # r => req'[q] = req[q] BY DEF Advance, TypeOK
<1>4. phase \notin {"idle", "begun"} BY DEF Phases
<1>5. req'[r] # req[r] BY <1>2 DEF At
<1> QED BY <1>2, <1>3, <1>4, <1>5 DEF Moves

LEMMA RereadMoves ==
  ASSUME TypeOK, NEW r \in Requests, NEW phase \in Phases \ {"begun"}, ~At(r, "idle"),
         ~At(r, phase), Reread(r, phase), BeganBefore(r)
  PROVE  Moves(r)
<1>1. req[r] \in InFlight BY RequestType
<1>2. req'[r].phase = phase /\ req'[r].first = req[r].first
  BY <1>1 DEF Reread, InFlight, TypeOK
<1>3. \A q \in Requests : q # r => req'[q] = req[q] BY DEF Reread, TypeOK
<1>4. phase \notin {"idle", "begun"} BY DEF Phases
<1>5. req'[r] # req[r] BY <1>2 DEF At
<1> QED BY <1>2, <1>3, <1>4, <1>5 DEF Moves

\* What an answer does to the conversation and to its request.
LEMMA AnswerMoves ==
  ASSUME TypeOK, RequestsChecked, NEW r \in Requests, req[r].phase \in {"answering", "drafting"},
         NEW status \in Statuses \ {"CONVERTED_TO_TICKET"}, NEW draft, NEW contextChanged,
         Answer(r, status, draft, contextChanged)
  PROVE  /\ Moves(r) /\ BeganBefore(r)
         /\ conv'.user = conv.user
         /\ conv'.status = "CONVERTED_TO_TICKET" => conv.status = "CONVERTED_TO_TICKET"
<1>1. ~At(r, "idle") /\ ~At(r, "begun") /\ BeganBefore(r) BY DEF RequestsChecked, At
<1>2. req[r] \in InFlight BY <1>1, RequestType
<1>3. req'[r].phase = "answered" /\ req'[r].first = req[r].first
  BY <1>2 DEF Answer, InFlight, TypeOK
<1>4. \A q \in Requests : q # r => req'[q] = req[q] BY DEF Answer, TypeOK
<1>5. Moves(r) BY <1>1, <1>3, <1>4 DEF Moves, At
<1>6. conv'.user = conv.user BY DEF Answer, TypeOK, Row
<1>7. conv'.status = Column(req[r].row.status, status, conv.status) BY DEF Answer, TypeOK, Row
<1> QED BY <1>1, <1>5, <1>6, <1>7 DEF Column

\* Every step begins a request, leaves the requests alone, or moves one of them; in
\* the last case it changes a converted conversation only if that one began before.
Harmless(r) ==
  /\ conv.status = "CONVERTED_TO_TICKET" /\ Written => BeganBefore(r)
  /\ ConvertedHasUser'

LEMMA StepMoves ==
  ASSUME RInv, [Next]_vars
  PROVE  \/ UNCHANGED <<conv, messages, req>>
         \/ \E r \in Requests, actor \in Users \cup {NULL} : Begin(r, actor)
         \/ \E r \in Requests : Moves(r) /\ Harmless(r)
<1> USE DEF RInv
<1>1. CASE UNCHANGED vars BY <1>1 DEF vars
<1>2. ASSUME NEW r \in Requests,
             \/ Rollback(r) \/ Announce(r)
             \/ \E payload \in Payloads : Recover(r, payload)
      PROVE  Moves(r) /\ Harmless(r)
  <2>1. ~At(r, "idle") /\ End(r) /\ UNCHANGED <<conv, messages>>
    BY <1>2 DEF Rollback, Announce, Recover, At
  <2> QED BY <2>1, EndMoves DEF Harmless, Written, ConvertedHasUser
<1>3. ASSUME NEW r \in Requests, PostMessage(r) PROVE Moves(r) /\ Harmless(r)
  <2>1. At(r, "begun") /\ Advance(r, "posted") /\ UNCHANGED conv BY <1>3 DEF PostMessage
  <2>2. BeganBefore(r)
    BY <1>3, <2>1 DEF PostMessage, MessageAllowed, RequestsChecked, BeganBefore, At
  <2>3. ~At(r, "idle") /\ ~At(r, "posted") BY <2>1 DEF At
  <2>4. "posted" \in Phases \ {"begun"} BY DEF Phases
  <2>5. Moves(r) BY <2>1, <2>2, <2>3, <2>4, AdvanceMoves
  <2> QED BY <2>1, <2>2, <2>5 DEF Harmless, Written, ConvertedHasUser
<1>4. ASSUME NEW r \in Requests, ReadToAnswer(r) \/ ReadToDraft(r)
      PROVE  Moves(r) /\ Harmless(r)
  <2>1. PICK phase \in Phases \ {"begun"} : ~At(r, phase) /\ Reread(r, phase)
    BY <1>4 DEF ReadToAnswer, ReadToDraft, Phases, At
  <2>2. ~At(r, "idle") /\ ~At(r, "begun") BY <1>4 DEF ReadToAnswer, ReadToDraft, At
  <2>3. BeganBefore(r) BY <2>2 DEF RequestsChecked
  <2>4. UNCHANGED <<conv, messages>> BY <2>1 DEF Reread
  <2>5. Moves(r) BY <2>1, <2>2, <2>3, RereadMoves
  <2> QED BY <2>4, <2>5 DEF Harmless, Written, ConvertedHasUser
<1>5. ASSUME NEW r \in Requests, LinkToDraft(r) PROVE Moves(r) /\ Harmless(r)
  <2>1. At(r, "answering") /\ Advance(r, "linked") BY <1>5 DEF LinkToDraft
  <2>2. ~At(r, "idle") /\ ~At(r, "begun") /\ ~At(r, "linked") BY <2>1 DEF At
  <2>3. BeganBefore(r) BY <2>2 DEF RequestsChecked
  <2>4. "linked" \in Phases \ {"begun"} BY DEF Phases
  <2>5. Moves(r) BY <2>1, <2>2, <2>3, <2>4, AdvanceMoves
  <2>6. conv'.user # NULL BY <1>5 DEF LinkToDraft, TypeOK, Row
  <2> QED BY <2>3, <2>5, <2>6 DEF Harmless, Written, ConvertedHasUser
<1>6. ASSUME NEW r \in Requests, AnswerDraft(r) \/ AnswerQuestion(r)
      PROVE  Moves(r) /\ Harmless(r)
  <2>1. req[r].phase \in {"answering", "drafting"} BY <1>6 DEF AnswerDraft, AnswerQuestion
  <2>2. \E status \in Statuses \ {"CONVERTED_TO_TICKET"} : \E draft, contextChanged :
          Answer(r, status, draft, contextChanged)
    BY <1>6 DEF AnswerDraft, AnswerQuestion, Statuses
  <2> QED BY <2>1, <2>2, AnswerMoves DEF Harmless, Written, ConvertedHasUser
<1>7. ASSUME NEW r \in Requests, LinkUser(r) PROVE Moves(r) /\ Harmless(r)
  <2>1. ~At(r, "idle") /\ At(r, "begun") /\ End(r) BY <1>7 DEF LinkUser, At
  <2>2. req[r].row = req[r].first BY <2>1 DEF RequestsChecked
  <2>3. conv' # conv => req[r].row.user = NULL
    BY <1>7 DEF LinkUser, Authorized, Column, TypeOK, Row
  <2>4. Written => BeganBefore(r)
    BY <1>7, <2>1, <2>2, <2>3 DEF LinkUser, Written, RequestsChecked
  <2>5. conv'.status = conv.status BY <1>7 DEF LinkUser, TypeOK, Row
  <2>6. conv.user # NULL => conv'.user # NULL BY <1>7 DEF LinkUser, Column, TypeOK, Row
  <2> QED BY <2>1, <2>4, <2>5, <2>6, EndMoves DEF Harmless, Written, ConvertedHasUser
<1>8. ASSUME NEW r \in Requests, Escalate(r) PROVE Moves(r) /\ Harmless(r)
  <2>1. ~At(r, "idle") /\ At(r, "begun") /\ End(r) BY <1>8 DEF Escalate, At
  <2>2. BeganBefore(r) BY <1>8, <2>1 DEF Escalate, RequestsChecked, BeganBefore
  <2>3. conv'.status = "ESCALATED" BY <1>8 DEF Escalate, TypeOK, Row
  <2> QED BY <2>1, <2>2, <2>3, EndMoves DEF Harmless, Written, ConvertedHasUser
<1>9. ASSUME NEW r \in Requests, NEW contextChanged \in BOOLEAN, Reset(r, contextChanged)
      PROVE  Moves(r) /\ Harmless(r)
  <2>1. ~At(r, "idle") /\ At(r, "begun") /\ End(r) BY <1>9 DEF Reset, At
  <2>2. BeganBefore(r)
    BY <1>9, <2>1 DEF Reset, ResetAllowed, RequestsChecked, BeganBefore
  <2>3. conv'.status = Column(req[r].row.status, "ACTIVE", conv.status)
    BY <1>9 DEF Reset, TypeOK, Row
  <2>4. conv'.user = conv.user BY <1>9 DEF Reset, TypeOK, Row
  <2>5. conv'.status = "CONVERTED_TO_TICKET" => conv.status = "CONVERTED_TO_TICKET"
    BY <2>3 DEF Column
  <2> QED BY <2>1, <2>2, <2>4, <2>5, EndMoves DEF Harmless, Written, ConvertedHasUser
<1>10. ASSUME NEW r \in Requests, NEW payload \in Payloads, Convert(r, payload)
       PROVE  Moves(r) /\ Harmless(r)
  <2>1. ~At(r, "idle") /\ End(r) BY <1>10 DEF Convert, At
  <2>2. conv.status # "CONVERTED_TO_TICKET" BY <1>10 DEF Convert
  <2>3. conv'.user # NULL BY <1>10 DEF Convert, TypeOK, Row
  <2> QED BY <2>1, <2>2, <2>3, EndMoves DEF Harmless, Written, ConvertedHasUser
<1> QED BY <1>1, <1>2, <1>3, <1>4, <1>5, <1>6, <1>7, <1>8, <1>9, <1>10 DEF Next

LEMMA RInvStep ==
  ASSUME RInv, [Next]_vars
  PROVE  RInv'
<1>1. TypeOK' BY TypeStep DEF RInv
<1>2. CASE UNCHANGED <<conv, messages, req>>
  BY <1>1, <1>2 DEF RInv, RequestsChecked, ConvertedHasUser, At, BeganBefore
<1>3. ASSUME NEW r \in Requests, NEW actor \in Users \cup {NULL}, Begin(r, actor)
      PROVE  RInv'
  <2>1. \A q \in Requests : q # r => req'[q] = req[q] BY <1>3 DEF Begin, RInv, TypeOK
  <2>2. req'[r].phase = "begun" /\ req'[r].first = conv /\ req'[r].row = conv
    BY <1>3 DEF Begin, RInv, TypeOK
  <2>3. UNCHANGED conv BY <1>3 DEF Begin
  <2> QED BY <1>1, <2>1, <2>2, <2>3 DEF RInv, RequestsChecked, ConvertedHasUser, At, BeganBefore
<1>4. ASSUME NEW r \in Requests, Moves(r) /\ Harmless(r) PROVE RInv'
  BY <1>1, <1>4, MovesKeepChecked DEF RInv, Harmless
<1> QED BY <1>2, <1>3, <1>4, StepMoves

\* However many requests overlap, a converted conversation and its messages change
\* only by one that had read it before it was converted.
THEOREM EarlierRequestsOnly == Spec => OnlyEarlierRequestsWrite
<1>1. Init => RInv
  <2>1. Init => TypeOK BY DEF Init, TypeOK, NewConversation, Row, Statuses
  <2>2. Init => RequestsChecked BY DEF Init, RequestsChecked, At, Idle
  <2>3. Init => ConvertedHasUser BY DEF Init, ConvertedHasUser, NewConversation
  <2> QED BY <2>1, <2>2, <2>3 DEF RInv
<1>2. ASSUME RInv, [Next]_vars,
             conv.status = "CONVERTED_TO_TICKET" /\ Written
      PROVE  \E r \in Requests : /\ req'[r] # req[r]
                                 /\ ~At(r, "idle")
                                 /\ req[r].first.status # "CONVERTED_TO_TICKET"
  <2>1. PICK r \in Requests : Moves(r) /\ Harmless(r)
    BY <1>2, StepMoves DEF Begin, Written
  <2> QED BY <1>2, <2>1 DEF Moves, Harmless, BeganBefore
<1>3. RInv /\ [Next]_vars =>
        [conv.status = "CONVERTED_TO_TICKET" /\ Written =>
           \E r \in Requests : /\ req'[r] # req[r]
                               /\ ~At(r, "idle")
                               /\ req[r].first.status # "CONVERTED_TO_TICKET"]_vars
  BY <1>2
<1> QED BY <1>1, <1>3, RInvStep, PTL DEF Spec, OnlyEarlierRequestsWrite

(***************************************************************************)
(* One request at a time. While no two have been in flight together, what  *)
(* a request read last is the committed conversation whenever it is about  *)
(* to write it, and one that has posted is not in a converted one.         *)
(***************************************************************************)
AtMostOne == \A r, s \in Requests : r = s \/ At(r, "idle") \/ At(s, "idle")

Current(r) ==
  /\ req[r].phase \in {"begun", "answering", "drafting"} => req[r].row = conv
  /\ req[r].phase \in {"posted", "answering", "linked", "drafting"} =>
       conv.status # "CONVERTED_TO_TICKET"

TicketAgrees ==
  /\ conv.status = "CONVERTED_TO_TICKET" <=> ticket # NULL
  /\ ticket # NULL => /\ conv.draft = NULL
                      /\ conv.user # NULL /\ ticket.client = conv.user

Serial == ~overlapped => /\ AtMostOne /\ TicketAgrees
                         /\ \A r \in Requests : ~At(r, "idle") => Current(r)

\* The request that ends leaves nobody in flight.
LEMMA EndSerial ==
  ASSUME TypeOK, AtMostOne, NEW r \in Requests, ~At(r, "idle"), End(r)
  PROVE  \A q \in Requests : At(q, "idle")'
BY EndKeeps DEF AtMostOne, At

\* The request that goes on is the only one.
LEMMA AloneSerial ==
  ASSUME AtMostOne, NEW r \in Requests, ~At(r, "idle"),
         \A q \in Requests : q # r => req'[q] = req[q], Current(r)'
  PROVE  \A q \in Requests : ~At(q, "idle")' => Current(q)'
<1> SUFFICES ASSUME NEW q \in Requests, q # r PROVE At(q, "idle")'
  OBVIOUS
<1> QED BY DEF AtMostOne, At

\* What the conversation is after an answer over the committed row.
LEMMA AnswerSerial ==
  ASSUME TypeOK, NEW r \in Requests, req[r].phase \in {"answering", "drafting"}, Current(r),
         TicketAgrees, NEW status \in Statuses \ {"CONVERTED_TO_TICKET"}, NEW draft,
         NEW contextChanged, Answer(r, status, draft, contextChanged)
  PROVE  /\ Current(r)' /\ TicketAgrees'
         /\ conv'.user = conv.user /\ ticket' = NULL
         /\ \A q \in Requests : q # r => req'[q] = req[q]
<1>1. req[r] \in InFlight BY RequestType DEF At
<1>2. req'[r].phase = "answered" BY <1>1 DEF Answer, InFlight, TypeOK
<1>3. Current(r)' BY <1>2 DEF Current
<1>4. conv.status # "CONVERTED_TO_TICKET" /\ req[r].row = conv BY DEF Current
<1>5. conv'.status = Column(req[r].row.status, status, conv.status) /\ conv'.user = conv.user
  BY DEF Answer, TypeOK, Row
<1>6. conv'.status # "CONVERTED_TO_TICKET" BY <1>4, <1>5 DEF Column
<1>7. ticket = NULL /\ ticket' = NULL BY <1>4 DEF TicketAgrees, Answer
<1>8. \A q \in Requests : q # r => req'[q] = req[q] BY DEF Answer, TypeOK
<1> QED BY <1>3, <1>5, <1>6, <1>7, <1>8 DEF TicketAgrees

\* A step while nothing has overlapped, but for the request that makes it so.
Orderly ==
  /\ TicketAgrees'
  /\ \A r \in Requests : ~At(r, "idle")' => Current(r)'
  /\ conv.user # NULL => conv'.user = conv.user
  /\ ticket' # NULL => ticket'.client = conv'.user

LEMMA SerialStep ==
  ASSUME TypeOK, AtMostOne, TicketAgrees, [Next]_vars,
         \A r \in Requests : ~At(r, "idle") => Current(r)
  PROVE  Orderly
<1>1. CASE UNCHANGED vars BY <1>1 DEF vars, Orderly, TicketAgrees, At, Current
<1>2. ASSUME NEW r \in Requests, NEW actor \in Users \cup {NULL}, Begin(r, actor)
      PROVE  Orderly
  <2>1. \A q \in Requests : q # r => req'[q] = req[q] BY <1>2 DEF Begin, TypeOK
  <2>2. req'[r].phase = "begun" /\ req'[r].row = conv BY <1>2 DEF Begin, TypeOK
  <2>3. UNCHANGED <<conv, ticket>> BY <1>2 DEF Begin
  <2> QED BY <2>1, <2>2, <2>3 DEF Orderly, TicketAgrees, At, Current
<1>3. ASSUME NEW r \in Requests,
             \/ Rollback(r) \/ Announce(r)
             \/ \E payload \in Payloads : Recover(r, payload)
      PROVE  Orderly
  <2>1. ~At(r, "idle") /\ End(r) /\ UNCHANGED <<conv, ticket>>
    BY <1>3 DEF Rollback, Announce, Recover, At
  <2> QED BY <2>1, EndSerial DEF Orderly, TicketAgrees
<1>4. ASSUME NEW r \in Requests, PostMessage(r) PROVE Orderly
  <2>1. At(r, "begun") /\ ~At(r, "idle") /\ Advance(r, "posted") /\ UNCHANGED <<conv, ticket>>
    BY <1>4 DEF PostMessage, At
  <2>2. req[r] \in InFlight BY <2>1, RequestType
  <2>3. req'[r].phase = "posted" BY <2>1, <2>2 DEF Advance, InFlight, TypeOK
  <2>4. \A q \in Requests : q # r => req'[q] = req[q] BY <2>1 DEF Advance, TypeOK
  <2>5. conv.status # "CONVERTED_TO_TICKET"
    BY <1>4, <2>1 DEF PostMessage, MessageAllowed, Current, At
  <2>6. Current(r)' BY <2>1, <2>3, <2>5 DEF Current
  <2> QED BY <2>1, <2>4, <2>6, AloneSerial DEF Orderly, TicketAgrees
<1>5. ASSUME NEW r \in Requests, ReadToAnswer(r) \/ ReadToDraft(r) PROVE Orderly
  <2>1. ~At(r, "idle") /\ req[r].phase \in {"posted", "linked"}
    BY <1>5 DEF ReadToAnswer, ReadToDraft, At
  <2>2. PICK phase \in {"answering", "drafting"} : Reread(r, phase)
    BY <1>5 DEF ReadToAnswer, ReadToDraft
  <2>3. req[r] \in InFlight BY <2>1, RequestType
  <2>4. req'[r].row = conv /\ UNCHANGED <<conv, ticket>>
    BY <2>2, <2>3 DEF Reread, InFlight, TypeOK
  <2>5. \A q \in Requests : q # r => req'[q] = req[q] BY <2>2 DEF Reread, TypeOK
  <2>6. conv.status # "CONVERTED_TO_TICKET" BY <2>1 DEF Current
  <2>7. Current(r)' BY <2>4, <2>6 DEF Current
  <2> QED BY <2>1, <2>4, <2>5, <2>7, AloneSerial DEF Orderly, TicketAgrees
<1>6. ASSUME NEW r \in Requests, LinkToDraft(r) PROVE Orderly
  <2>1. ~At(r, "idle") /\ At(r, "answering") BY <1>6 DEF LinkToDraft, At
  <2>2. Current(r) BY <2>1
  <2>3. conv.user = NULL /\ conv.status # "CONVERTED_TO_TICKET" /\ ticket = NULL
    BY <1>6, <2>1, <2>2 DEF Current, LinkToDraft, At, TicketAgrees
  <2>4. conv'.status = conv.status /\ ticket' = ticket BY <1>6 DEF LinkToDraft, TypeOK, Row
  <2>5. req[r] \in InFlight BY <2>1, RequestType
  <2>6. req'[r].phase = "linked" BY <1>6, <2>5 DEF LinkToDraft, Advance, InFlight, TypeOK
  <2>7. \A q \in Requests : q # r => req'[q] = req[q] BY <1>6 DEF LinkToDraft, Advance, TypeOK
  <2>8. Current(r)' BY <2>3, <2>4, <2>6 DEF Current
  <2> QED BY <2>1, <2>3, <2>4, <2>7, <2>8, AloneSerial DEF Orderly, TicketAgrees
<1>7. ASSUME NEW r \in Requests, AnswerDraft(r) \/ AnswerQuestion(r) PROVE Orderly
  <2>1. ~At(r, "idle") /\ req[r].phase \in {"answering", "drafting"}
    BY <1>7 DEF AnswerDraft, AnswerQuestion, At
  <2>2. \E status \in Statuses \ {"CONVERTED_TO_TICKET"} : \E draft, contextChanged :
          Answer(r, status, draft, contextChanged)
    BY <1>7 DEF AnswerDraft, AnswerQuestion, Statuses
  <2>3. Current(r) BY <2>1
  <2> QED BY <2>1, <2>2, <2>3, AnswerSerial, AloneSerial DEF Orderly
<1>8. ASSUME NEW r \in Requests, LinkUser(r) PROVE Orderly
  <2>1. ~At(r, "idle") /\ At(r, "begun") /\ End(r) /\ ticket' = ticket BY <1>8 DEF LinkUser, At
  <2>2. req[r].row = conv BY <2>1 DEF Current, At
  <2>3. conv.user # NULL => conv'.user = conv.user
    BY <1>8, <2>2 DEF LinkUser, Authorized, Column, TypeOK, Row
  <2>4. conv'.status = conv.status /\ conv'.draft = conv.draft
    BY <1>8 DEF LinkUser, TypeOK, Row
  <2> QED BY <2>1, <2>3, <2>4, EndSerial DEF Orderly, TicketAgrees
<1>9. ASSUME NEW r \in Requests, Escalate(r) PROVE Orderly
  <2>1. ~At(r, "idle") /\ At(r, "begun") /\ End(r) /\ ticket' = ticket BY <1>9 DEF Escalate, At
  <2>2. conv.status # "CONVERTED_TO_TICKET" /\ ticket = NULL
    BY <1>9, <2>1 DEF Escalate, Current, At, TicketAgrees
  <2>3. conv'.status = "ESCALATED" /\ conv'.user = conv.user BY <1>9 DEF Escalate, TypeOK, Row
  <2> QED BY <2>1, <2>2, <2>3, EndSerial DEF Orderly, TicketAgrees
<1>10. ASSUME NEW r \in Requests, NEW contextChanged \in BOOLEAN, Reset(r, contextChanged)
       PROVE  Orderly
  <2>1. ~At(r, "idle") /\ At(r, "begun") /\ End(r) /\ ticket' = ticket BY <1>10 DEF Reset, At
  <2>2. conv.status # "CONVERTED_TO_TICKET" /\ ticket = NULL
    BY <1>10, <2>1 DEF Reset, ResetAllowed, Current, At, TicketAgrees
  <2>3. conv'.status = Column(req[r].row.status, "ACTIVE", conv.status) /\ conv'.user = conv.user
    BY <1>10 DEF Reset, TypeOK, Row
  <2>4. conv'.status # "CONVERTED_TO_TICKET" BY <2>2, <2>3 DEF Column
  <2> QED BY <2>1, <2>2, <2>3, <2>4, EndSerial DEF Orderly, TicketAgrees
<1>11. ASSUME NEW r \in Requests, NEW payload \in Payloads, Convert(r, payload)
       PROVE  Orderly
  <2>1. ~At(r, "idle") /\ End(r) BY <1>11 DEF Convert, At
  <2>2. conv.user \in Users BY <1>11 DEF Convert, TypeOK, Row
  <2>3. ticket' # NULL /\ ticket'.client = conv.user
    BY <1>11, <2>2, NoTicketIsNull DEF Convert, Ticket
  <2>4. /\ conv'.status = "CONVERTED_TO_TICKET" /\ conv'.draft = NULL
        /\ conv'.user = conv.user /\ conv.user # NULL
    BY <1>11 DEF Convert, TypeOK, Row
  <2> QED BY <2>1, <2>3, <2>4, EndSerial DEF Orderly, TicketAgrees
<1> QED BY <1>1, <1>2, <1>3, <1>4, <1>5, <1>6, <1>7, <1>8, <1>9, <1>10, <1>11 DEF Next

historyVars == <<vars, overlapped, miscounted>>

LEMMA SerialHolds == HistorySpec => [](TypeOK /\ Serial)
<1>1. HistoryInit => TypeOK /\ Serial
  <2>1. HistoryInit => TypeOK BY DEF HistoryInit, Init, TypeOK, NewConversation, Row, Statuses
  <2>2. HistoryInit => Serial
    BY DEF HistoryInit, Init, NewConversation, Serial, AtMostOne, TicketAgrees, At, Idle
  <2> QED BY <2>1, <2>2
<1>2. ASSUME TypeOK, Serial, [HistoryNext]_historyVars PROVE TypeOK' /\ Serial'
  <2>1. [Next]_vars BY <1>2 DEF HistoryNext, historyVars
  <2>2. TypeOK' BY <1>2, <2>1, TypeStep
  <2>3. CASE UNCHANGED historyVars
    BY <1>2, <2>2, <2>3 DEF historyVars, vars, Serial, AtMostOne, TicketAgrees, At, Current
  <2>4. ASSUME HistoryNext, ~overlapped' PROVE Serial'
    <3>1. ~overlapped BY <2>4 DEF HistoryNext
    <3>2. AtMostOne' BY <2>4 DEF HistoryNext, AtMostOne, At
    <3>3. Orderly BY <1>2, <2>1, <3>1, SerialStep DEF Serial
    <3> QED BY <3>2, <3>3 DEF Serial, Orderly
  <2> QED BY <1>2, <2>2, <2>3, <2>4 DEF Serial
<1> QED BY <1>1, <1>2, PTL DEF HistorySpec, historyVars

\* While no requests overlapped, the conversation is converted exactly when its ticket
\* exists, and holds no draft then.
THEOREM Converted == HistorySpec => []ConvertedIffTicket
<1>1. TypeOK /\ Serial => ConvertedIffTicket BY DEF Serial, TicketAgrees, ConvertedIffTicket
<1> QED BY <1>1, SerialHolds, PTL

\* While no requests overlapped, a conversation keeps its client, and the ticket is his.
THEOREM StableClient == HistorySpec => ClientIsStable
<1>1. ASSUME TypeOK, Serial, [HistoryNext]_historyVars, ~overlapped
      PROVE  /\ conv.user # NULL => conv'.user = conv.user
             /\ ticket' # NULL => ticket'.client = conv'.user
  <2>1. [Next]_vars BY <1>1 DEF HistoryNext, historyVars
  <2> QED BY <1>1, <2>1, SerialStep DEF Serial, Orderly
<1>2. TypeOK /\ Serial /\ [HistoryNext]_historyVars =>
        [~overlapped => /\ conv.user # NULL => conv'.user = conv.user
                        /\ ticket' # NULL => ticket'.client = conv'.user]_vars
  BY <1>1
<1> QED BY <1>2, SerialHolds, PTL DEF HistorySpec, historyVars, ClientIsStable

(***************************************************************************)
(* The turn limit. A request that read the conversation below the limit    *)
(* may still add a turn; so may no other. The turns and those requests     *)
(* together never exceed what the last one that began could make of them.  *)
(***************************************************************************)
MayAdd == {r \in Requests : /\ req[r].phase \in Phases \ {"answered"}
                            /\ req[r].first.turns < MaxTurns}

Accounted == ~miscounted => conv.turns + Cardinality(MayAdd) <= MaxTurns + Cardinality(Requests) - 1

\* Whoever is past the check read the conversation below the limit.
CheckedTurns == \A r \in Requests :
  /\ At(r, "begun") => req[r].row = req[r].first
  /\ req[r].phase \in {"posted", "answering", "linked", "drafting"} => r \in MayAdd

LEMMA MayAddFinite ==
  ASSUME NEW S, S \subseteq Requests
  PROVE  IsFiniteSet(S) /\ Cardinality(S) \in Nat /\ Cardinality(S) <= Cardinality(Requests)
         /\ Cardinality(Requests) \in Nat
<1>1. IsFiniteSet(Requests) BY ConversationAssumption
<1> QED BY <1>1, FS_Subset, FS_CardinalityType

\* Fewer requests may add to the same turns.
LEMMA FewerMayAdd ==
  ASSUME TypeOK, Accounted, ~miscounted' => ~miscounted, conv'.turns = conv.turns,
         MayAdd' \subseteq MayAdd
  PROVE  Accounted'
<1>1. Cardinality(MayAdd') <= Cardinality(MayAdd)
  BY MayAddFinite, FS_Subset DEF MayAdd
<1>2. Cardinality(MayAdd) \in Nat /\ Cardinality(MayAdd') \in Nat /\ Cardinality(Requests) \in Nat
  BY MayAddFinite DEF MayAdd
<1>3. conv.turns \in Nat /\ MaxTurns \in Nat BY ConversationAssumption DEF TypeOK, Row
<1> QED BY <1>1, <1>2, <1>3 DEF Accounted

\* A request that ends adds nothing any more.
LEMMA EndTurns ==
  ASSUME TypeOK, NEW r \in Requests, End(r)
  PROVE  MayAdd' \subseteq MayAdd \ {r}
<1>1. req'[r].phase = "idle" /\ \A q \in Requests : q # r => req'[q] = req[q] BY EndKeeps
<1>2. "idle" \notin Phases BY DEF Phases
<1> QED BY <1>1, <1>2 DEF MayAdd

\* A request that goes on keeps what it began with.
GoesOn(r) ==
  /\ r \in MayAdd /\ req'[r].phase \in {"posted", "answering", "linked", "drafting"}
  /\ req'[r].first = req[r].first
  /\ \A q \in Requests : q # r => req'[q] = req[q]

LEMMA GoesOnTurns ==
  ASSUME CheckedTurns, NEW r \in Requests, GoesOn(r)
  PROVE  MayAdd' = MayAdd /\ CheckedTurns'
<1>1. MayAdd' = MayAdd BY DEF GoesOn, MayAdd, Phases
<1>2. r \in MayAdd' BY <1>1 DEF GoesOn
<1> QED BY <1>1, <1>2 DEF CheckedTurns, GoesOn, At

TInv == TypeOK /\ CheckedTurns /\ Accounted

LEMMA EndKeepsChecked ==
  ASSUME TypeOK, CheckedTurns, NEW r \in Requests, End(r)
  PROVE  CheckedTurns'
<1>1. req'[r].phase = "idle" /\ \A q \in Requests : q # r => req'[q] = req[q] BY EndKeeps
<1> QED BY <1>1 DEF CheckedTurns, MayAdd, At

\* An answer is a turn of one that may add it, or it miscounts.
LEMMA AnswerTurns ==
  ASSUME TInv, NEW r \in Requests, req[r].phase \in {"answering", "drafting"},
         NEW status, NEW draft, NEW contextChanged, Answer(r, status, draft, contextChanged),
         miscounted' = (miscounted \/ \E q \in Requests : Miscounts(q))
  PROVE  CheckedTurns' /\ Accounted'
<1> USE DEF TInv
<1>1. req[r] \in InFlight BY RequestType DEF At
<1>2. req'[r].phase = "answered" BY <1>1 DEF Answer, InFlight, TypeOK
<1>3. \A q \in Requests : q # r => req'[q] = req[q] BY DEF Answer, TypeOK
<1>4. r \in MayAdd BY DEF CheckedTurns
<1>5. MayAdd' = MayAdd \ {r} BY <1>2, <1>3 DEF MayAdd
<1>6. CheckedTurns' BY <1>2, <1>3, <1>5 DEF CheckedTurns, At
<1>7. SUFFICES ASSUME ~miscounted' PROVE Accounted'
  BY <1>6 DEF Accounted
<1>8. req[r].row.turns = conv.turns BY <1>2, <1>7 DEF Miscounts, At
<1>9. conv'.turns = conv.turns + 1 BY <1>8 DEF Answer, TypeOK, Row
<1>10. Cardinality(MayAdd') = Cardinality(MayAdd) - 1
  BY <1>4, <1>5, MayAddFinite, FS_RemoveElement DEF MayAdd
<1>11. Cardinality(MayAdd) \in Nat /\ Cardinality(Requests) \in Nat
  BY MayAddFinite DEF MayAdd
<1>12. conv.turns \in Nat /\ MaxTurns \in Nat BY ConversationAssumption DEF TypeOK, Row
<1>13. ~miscounted BY <1>7
<1> QED BY <1>9, <1>10, <1>11, <1>12, <1>13 DEF Accounted

LEMMA TurnStep ==
  ASSUME TInv, Next, miscounted' = (miscounted \/ \E r \in Requests : Miscounts(r))
  PROVE  CheckedTurns' /\ Accounted'
<1> USE DEF TInv
<1>1. ASSUME \A r \in Requests : ~At(r, "answered")' \/ At(r, "answered")
      PROVE  ~miscounted' => ~miscounted
  <2>1. \A r \in Requests : ~Miscounts(r) BY <1>1 DEF Miscounts
  <2> QED BY <2>1
<1>2. ASSUME NEW r \in Requests, NEW actor \in Users \cup {NULL}, Begin(r, actor)
      PROVE  CheckedTurns' /\ Accounted'
  <2>1. \A q \in Requests : q # r => req'[q] = req[q] BY <1>2 DEF Begin, TypeOK
  <2>2. /\ req'[r].phase = "begun" /\ req'[r].row = conv /\ req'[r].first = conv
        /\ UNCHANGED conv
    BY <1>2 DEF Begin, TypeOK
  <2>3. CheckedTurns' BY <2>1, <2>2 DEF CheckedTurns, MayAdd, At
  <2>4. ~miscounted' => ~miscounted BY <1>1, <2>1, <2>2 DEF At
  <2>5. CASE conv.turns < MaxTurns
    <3>1. Cardinality(MayAdd') \in Nat /\ Cardinality(MayAdd') <= Cardinality(Requests)
          /\ Cardinality(Requests) \in Nat
      BY MayAddFinite DEF MayAdd
    <3>2. conv.turns \in Nat /\ MaxTurns \in Nat BY ConversationAssumption DEF TypeOK, Row
    <3> QED BY <2>2, <2>3, <2>5, <3>1, <3>2 DEF Accounted
  <2>6. CASE ~(conv.turns < MaxTurns)
    <3>1. r \notin MayAdd' BY <2>2, <2>6 DEF MayAdd
    <3>2. MayAdd' \subseteq MayAdd BY <2>1, <3>1 DEF MayAdd
    <3> QED BY <2>2, <2>3, <2>4, <3>2, FewerMayAdd
  <2> QED BY <2>5, <2>6
<1>3. ASSUME NEW r \in Requests, End(r), conv'.turns = conv.turns
      PROVE  CheckedTurns' /\ Accounted'
  <2>1. ~miscounted' => ~miscounted BY <1>1, <1>3, EndKeeps DEF At
  <2>2. MayAdd' \subseteq MayAdd BY <1>3, EndTurns
  <2> QED BY <1>3, <2>1, <2>2, FewerMayAdd, EndKeepsChecked
<1>4. ASSUME NEW r \in Requests, GoesOn(r), conv'.turns = conv.turns
      PROVE  CheckedTurns' /\ Accounted'
  <2>1. ~miscounted' => ~miscounted BY <1>1, <1>4 DEF GoesOn, At
  <2> QED BY <1>4, <2>1, GoesOnTurns, FewerMayAdd
<1>5. ASSUME NEW r \in Requests,
             \/ Rollback(r) \/ Announce(r) \/ LinkUser(r) \/ Escalate(r)
             \/ \E payload \in Payloads : Convert(r, payload) \/ Recover(r, payload)
      PROVE  CheckedTurns' /\ Accounted'
  <2>1. End(r) BY <1>5 DEF Rollback, Announce, LinkUser, Escalate, Convert, Recover
  <2>2. conv'.turns = conv.turns
    BY <1>5 DEF Rollback, Announce, LinkUser, Escalate, Convert, Recover, TypeOK, Row
  <2> QED BY <1>3, <2>1, <2>2
<1>6. ASSUME NEW r \in Requests, PostMessage(r) PROVE CheckedTurns' /\ Accounted'
  <2>1. req[r] \in InFlight BY <1>6, RequestType DEF PostMessage, At
  <2>2. /\ req'[r].phase = "posted" /\ req'[r].first = req[r].first
        /\ \A q \in Requests : q # r => req'[q] = req[q]
    BY <1>6, <2>1 DEF PostMessage, Advance, InFlight, TypeOK
  <2>3. r \in MayAdd
    BY <1>6 DEF PostMessage, WithinTurns, CheckedTurns, MayAdd, Phases, At
  <2> QED BY <1>4, <1>6, <2>2, <2>3 DEF GoesOn, PostMessage
<1>7. ASSUME NEW r \in Requests, ReadToAnswer(r) \/ ReadToDraft(r)
      PROVE  CheckedTurns' /\ Accounted'
  <2>1. req[r].phase \in {"posted", "linked"} BY <1>7 DEF ReadToAnswer, ReadToDraft, At
  <2>2. PICK phase \in {"answering", "drafting"} : Reread(r, phase)
    BY <1>7 DEF ReadToAnswer, ReadToDraft
  <2>3. req[r] \in InFlight BY <2>1, RequestType DEF At
  <2>4. /\ req'[r].phase = phase /\ req'[r].first = req[r].first
        /\ \A q \in Requests : q # r => req'[q] = req[q]
        /\ UNCHANGED conv
    BY <2>2, <2>3 DEF Reread, InFlight, TypeOK
  <2>5. r \in MayAdd BY <2>1 DEF CheckedTurns
  <2> QED BY <1>4, <2>4, <2>5 DEF GoesOn
<1>8. ASSUME NEW r \in Requests, LinkToDraft(r) PROVE CheckedTurns' /\ Accounted'
  <2>1. req[r].phase = "answering" BY <1>8 DEF LinkToDraft, At
  <2>2. req[r] \in InFlight BY <2>1, RequestType DEF At
  <2>3. /\ req'[r].phase = "linked" /\ req'[r].first = req[r].first
        /\ \A q \in Requests : q # r => req'[q] = req[q]
    BY <1>8, <2>2 DEF LinkToDraft, Advance, InFlight, TypeOK
  <2>4. conv'.turns = conv.turns BY <1>8 DEF LinkToDraft, TypeOK, Row
  <2>5. r \in MayAdd BY <2>1 DEF CheckedTurns
  <2> QED BY <1>4, <2>3, <2>4, <2>5 DEF GoesOn
<1>9. ASSUME NEW r \in Requests, AnswerDraft(r) \/ AnswerQuestion(r)
      PROVE  CheckedTurns' /\ Accounted'
  <2>1. req[r].phase \in {"answering", "drafting"} BY <1>9 DEF AnswerDraft, AnswerQuestion
  <2>2. \E status, draft, contextChanged : Answer(r, status, draft, contextChanged)
    BY <1>9 DEF AnswerDraft, AnswerQuestion
  <2> QED BY <2>1, <2>2, AnswerTurns
<1>10. ASSUME NEW r \in Requests, NEW contextChanged \in BOOLEAN, Reset(r, contextChanged)
       PROVE  CheckedTurns' /\ Accounted'
  <2>1. End(r) /\ conv'.turns = Column(req[r].row.turns, 0, conv.turns)
    BY <1>10 DEF Reset, TypeOK, Row
  <2>2. CASE conv'.turns = conv.turns BY <1>3, <2>1, <2>2
  <2>3. CASE conv'.turns = 0
    <3>1. MayAdd' \subseteq Requests \ {r} BY <2>1, EndTurns DEF MayAdd
    <3>2. Cardinality(Requests \ {r}) = Cardinality(Requests) - 1
      BY MayAddFinite, FS_RemoveElement
    <3>3. Cardinality(MayAdd') <= Cardinality(Requests \ {r})
      BY <3>1, MayAddFinite, FS_Subset
    <3>4. Cardinality(MayAdd') \in Nat /\ Cardinality(Requests) \in Nat
      BY <3>1, MayAddFinite
    <3>5. MaxTurns \in Nat BY ConversationAssumption
    <3>6. Accounted' BY <2>3, <3>2, <3>3, <3>4, <3>5 DEF Accounted
    <3> QED BY <2>1, <3>6, EndKeepsChecked
  <2> QED BY <2>1, <2>2, <2>3 DEF Column
<1> QED BY <1>2, <1>5, <1>6, <1>7, <1>8, <1>9, <1>10 DEF Next

\* However many requests overlap, as long as each answer counts from the committed turns
\* the limit is passed by at most the other requests in flight.
THEOREM TurnsBounded == HistorySpec => []TurnLimitSlack
<1>1. HistoryInit => TInv
  <2>1. HistoryInit => TypeOK BY DEF HistoryInit, Init, TypeOK, NewConversation, Row, Statuses
  <2>2. ASSUME HistoryInit PROVE MayAdd = {} /\ CheckedTurns
    BY <2>2 DEF HistoryInit, Init, MayAdd, CheckedTurns, At, Idle, Phases
  <2>3. ASSUME HistoryInit PROVE Accounted
    <3>1. conv.turns = 0 BY <2>3 DEF HistoryInit, Init, NewConversation
    <3>2. Cardinality(MayAdd) = 0 BY <2>2, <2>3, FS_EmptySet
    <3>3. Cardinality(Requests) \in Nat BY MayAddFinite
    <3>4. MaxTurns \in Nat \ {0} BY ConversationAssumption
    <3> QED BY <3>1, <3>2, <3>3, <3>4 DEF Accounted
  <2> QED BY <2>1, <2>2, <2>3 DEF TInv
<1>2. ASSUME TInv, [HistoryNext]_historyVars PROVE TInv'
  <2>1. [Next]_vars BY <1>2 DEF HistoryNext, historyVars
  <2>2. TypeOK' BY <1>2, <2>1, TypeStep DEF TInv
  <2>3. CASE UNCHANGED historyVars
    BY <1>2, <2>2, <2>3 DEF historyVars, vars, TInv, CheckedTurns, Accounted, MayAdd, At
  <2>4. CASE HistoryNext BY <1>2, <2>2, <2>4, TurnStep DEF HistoryNext, TInv
  <2> QED BY <1>2, <2>3, <2>4
<1>3. ASSUME TInv PROVE TurnLimitSlack
  <2>1. Cardinality(MayAdd) \in Nat /\ Cardinality(Requests) \in Nat
    BY MayAddFinite DEF MayAdd
  <2>2. conv.turns \in Nat /\ MaxTurns \in Nat
    BY <1>3, ConversationAssumption DEF TInv, TypeOK, Row
  <2> QED BY <1>3, <2>1, <2>2 DEF TInv, Accounted, TurnLimitSlack
<1> QED BY <1>1, <1>2, <1>3, PTL DEF HistorySpec, historyVars

=============================================================================
