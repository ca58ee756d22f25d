-------------------------- MODULE MCNotifications --------------------------
EXTENDS NotificationProperties, TLC

Symmetry == Permutations(Requests)
=============================================================================
