--------------------------- MODULE MCAttachments ---------------------------
EXTENDS AttachmentProperties, TLC

Symmetry == Permutations(Keys) \cup Permutations(Requests)
============================================================================
