------------------------ MODULE MCCatalogPublication ------------------------
(* Constants for TLC: how many events of each kind a run allows. *)
EXTENDS CatalogPublication, TLC

Limits(change, pass, fail, write, oneshot, crash) ==
    [change |-> change, pass |-> pass, fail |-> fail, write |-> write,
     oneshot |-> oneshot, crash |-> crash]

PublicationBudget == Limits(1, 2, 1, 1, 1, 1)
AnswerBudget == Limits(1, 2, 1, 2, 0, 0)

ItemSymmetry == Permutations(Items)
=============================================================================
