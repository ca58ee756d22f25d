--------------------------- MODULE DraftLifecycle ---------------------------
(***************************************************************************)
(* What a client may rely on about the draft of a conversation, whatever   *)
(* is said in it: a draft comes to be in progress before it can be         *)
(* cancelled, only no draft or a ready one is converted, and a converted   *)
(* conversation never has a draft again.                                   *)
(***************************************************************************)
VARIABLES stage, converted

Init == stage = "none" /\ converted = FALSE

Begin ==
  /\ ~converted /\ stage \in {"none", "cancelled"}
  /\ stage' \in {"collecting", "ready"}
  /\ UNCHANGED converted

Change ==
  /\ ~converted /\ stage \in {"collecting", "ready"}
  /\ stage' \in {"collecting", "ready", "cancelled"}
  /\ UNCHANGED converted

Clear == ~converted /\ stage' = "none" /\ UNCHANGED converted

Convert == ~converted /\ stage \in {"none", "ready"} /\ stage' = "none" /\ converted' = TRUE

Next == Begin \/ Change \/ Clear \/ Convert

Spec == Init /\ [][Next]_<<stage, converted>>

=============================================================================
