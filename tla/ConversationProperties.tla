----------------------- MODULE ConversationProperties -----------------------
(***************************************************************************)
(* What a conversation and its conversion must get right.                  *)
(***************************************************************************)
EXTENDS Conversation

\* Every variable keeps its type.
TypeOK ==
  /\ conv \in Row
  /\ messages \in [user: Nat, bot: Nat]
  /\ notices \subseteq Keys
  /\ ticket \in Ticket \cup {NULL}
  /\ granted \subseteq Grants
  /\ req \in [Requests -> InFlight \cup {Idle}]

(***************************************************************************)
(* Concurrent requests.                                                    *)
(***************************************************************************)
Written == conv' # conv \/ messages' # messages

\* Only a request that had read the conversation before it was converted still adds
\* a message to it or brings it back to another status: whoever comes later is
\* refused.
OnlyEarlierRequestsWrite ==
  [][conv.status = "CONVERTED_TO_TICKET" /\ Written =>
       \E r \in Requests : /\ req'[r] # req[r]
                           /\ ~At(r, "idle")
                           /\ req[r].first.status # "CONVERTED_TO_TICKET"]_vars

\* However many conversions race or are retried, one ticket is made and every
\* success is answered with it.
Promise == INSTANCE Conversion
ImplementsConversion == Promise!Spec

(***************************************************************************)
(* What holds only until requests disturb each other. Two history          *)
(* variables say whether any two have been in flight together, and whether *)
(* an answer has been counted from a number of turns that was not the      *)
(* committed one any more.                                                 *)
(***************************************************************************)
CONSTANT OverlapResets   \* bound: whether it is still reset once requests have overlapped

VARIABLES overlapped, miscounted

HistoryInit == Init /\ overlapped = FALSE /\ miscounted = FALSE

\* r commits its answer over a count it has not read.
Miscounts(r) == ~At(r, "answered") /\ At(r, "answered")' /\ req[r].row.turns # conv.turns

HistoryNext ==
  /\ Next
  /\ overlapped' = (overlapped \/ \E r, s \in Requests :
                                     /\ r # s
                                     /\ "idle" \notin {req'[r].phase, req'[s].phase})
  /\ miscounted' = (miscounted \/ \E r \in Requests : Miscounts(r))
  /\ overlapped' /\ ~OverlapResets =>
       \A r \in Requests, contextChanged \in BOOLEAN : ~Reset(r, contextChanged)

HistorySpec == HistoryInit /\ [][HistoryNext]_<<vars, overlapped, miscounted>>

\* The turns pass the limit by no more than the other requests in flight, resets or
\* not, as long as every answer counts from the committed number: the check and the
\* increment read it in different transactions. Once one sets the count back, three
\* requests can pass the limit any number of times.
TurnLimitSlack == ~miscounted => conv.turns <= MaxTurns + Cardinality(Requests) - 1

\* A conversation is CONVERTED_TO_TICKET exactly when its ticket exists, and
\* then it holds no draft that a second conversion could confirm.
ConvertedIffTicket ==
  ~overlapped =>
    /\ conv.status = "CONVERTED_TO_TICKET" <=> ticket # NULL
    /\ ticket # NULL => conv.draft = NULL

\* A conversation linked to a client stays that client's, and its ticket too.
ClientIsStable ==
  [][~overlapped =>
       /\ conv.user # NULL => conv'.user = conv.user
       /\ ticket' # NULL => ticket'.client = conv'.user]_vars

=============================================================================
