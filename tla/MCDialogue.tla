----------------------------- MODULE MCDialogue -----------------------------
(***************************************************************************)
(* One message of each sort the branches and the draft tell apart.         *)
(***************************************************************************)
EXTENDS DialogueProperties

CONSTANTS c1, c2, a1

Plainly(kinds) ==
  [kinds |-> kinds, labelled |-> {}, names |-> {}, priorities |-> 0, fits |-> {},
   incident |-> FALSE, about |-> "none", pick |-> 0, title |-> NULL]

Words(fits) == [Plainly({}) EXCEPT !.fits = fits]

Labelling(labelled, fits) == [Words(fits) EXCEPT !.labelled = labelled]

SomeMessages ==
  {Plainly({kind}) : kind \in Kinds \ {"start"}}
    \cup {Plainly({"start", "advisor"}), Plainly({"start", "cancel"}), Plainly({"start"}),
          [Plainly({"start"}) EXCEPT !.incident = TRUE]}
    \cup {[Plainly({}) EXCEPT !.about = about] : about \in About \ {"none"}}
    \cup {[Plainly({}) EXCEPT !.pick = n, !.fits = Texts] : n \in 1 .. 2}
    \cup {[Plainly({}) EXCEPT !.title = a1, !.fits = Texts]}
    \cup {Words(fits) : fits \in SUBSET Texts}
    \cup {[Words(Texts) EXCEPT !.names = {c1}], [Words(Texts) EXCEPT !.names = {c1, c2}],
          [Words(Texts) EXCEPT !.priorities = 2]}
    \cup {Labelling({"subject"}, fits) : fits \in {{}, {"subject"}}}
    \cup {Labelling({"category", "priority"}, {}),
          [Labelling({"category", "description"}, {"description"}) EXCEPT !.names = {c2}],
          [Labelling({"priority"}, {}) EXCEPT !.priorities = 1, !.names = {c1}]}

=============================================================================
