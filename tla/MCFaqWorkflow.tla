--------------------------- MODULE MCFaqWorkflow ---------------------------
EXTENDS FaqProperties, TLC

CONSTANTS f1, f2

MCFaqs == {f1, f2}

\* One article goes through the workflow, the other is there to be duplicated.
MCMaxVersion == (f1 :> 3) @@ (f2 :> 1)

Symmetry == Permutations(Requests)
============================================================================
