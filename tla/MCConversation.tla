--------------------------- MODULE MCConversation ---------------------------
EXTENDS ConversationProperties, TLC

Symmetry == Permutations(Users) \cup Permutations(Payloads) \cup Permutations(Requests)
=============================================================================
