------------------------- MODULE DialogueProperties -------------------------
(***************************************************************************)
(* What the chatbot must not forget, mix up or repeat.                     *)
(***************************************************************************)
EXTENDS Dialogue

\* Every variable keeps its type.
DialogueTypeOK ==
  /\ active \subseteq Categories
  /\ usable \subseteq Library
  /\ conv \in Conversation
  /\ last \in Reply

\* A draft that is not finished misses every field it complains about and the field
\* the bot asks for: filling in what is missing always ends it. A ready one misses
\* nothing, though the categories change between the messages.
DraftIsNeverStuck ==
  LET d == conv.draft IN
  d # NULL =>
    /\ d.errors \subseteq Missing(d)
    /\ d.status = "COLLECTING" => AskedFor(d) \in Missing(d)
    /\ d.status = "READY_FOR_CONFIRMATION" => Missing(d) = {}

\* An option, or a code alone, is resolved only against the latest reply: anything
\* said in between, a reset or an unfinished draft included, takes the menu and the
\* question that lacked its code away.
ContextIsTheLatest ==
  /\ conv.menu # <<>> => conv.menu = last.options
  /\ conv.query => last.code

\* The search asks for clarification no more often than it may before it answers or
\* offers a ticket, whatever other branches do to the same counter.
ClarificationsAreBounded == last.asked <= MaxClarifications

\* An ordinal gets the option shown in that place, unless one shown before it was
\* withdrawn meanwhile: the place is counted among the options that are left.
OrdinalNeedsAllShown ==
  [][last' # last /\ last'.picked # 0 =>
       LET n == last'.picked IN
       \/ last'.answered = conv.menu[n]
       \/ \E i \in 1 .. n : conv.menu[i] \notin usable]_dialogue

Stage ==
  CASE conv.draft = NULL -> "none"
    [] conv.draft # NULL ->
         CASE conv.draft.status = "COLLECTING" -> "collecting"
           [] conv.draft.status = "READY_FOR_CONFIRMATION" -> "ready"
           [] conv.draft.status = "CANCELLED" -> "cancelled"
           [] conv.draft.status = "INACTIVE" -> "inactive"

\* Whatever is said, the draft goes only through the stages a client may rely on.
Lifecycle == INSTANCE DraftLifecycle
               WITH stage <- Stage, converted <- conv.status = "CONVERTED_TO_TICKET"
ImplementsLifecycle == Lifecycle!Spec

=============================================================================
