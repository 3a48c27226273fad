--------------------------- MODULE MCKitchenQueue ---------------------------
(* Two tickets with one item each, in which one completion is enough.      *)
EXTENDS KitchenQueue, TLC

MCRequired == [i \in Items |-> 1]
Symmetry == Permutations(Workers) \cup Permutations(Tickets) \cup Permutations(Items)
=============================================================================
