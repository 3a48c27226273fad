--------------------------- MODULE MCKitchenWork ---------------------------
(* Two items of which one takes two completions, two cooks, two sessions.  *)
(* Sessions, cooks and deliveries are interchangeable.                                 *)
EXTENDS KitchenWork, TLC

CONSTANTS i1, i2

MCRequired == i1 :> 2 @@ i2 :> 1
Symmetry == Permutations(Sessions) \cup Permutations(Cooks) \cup Permutations(Deliveries)
=============================================================================
