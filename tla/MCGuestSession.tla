--------------------------- MODULE MCGuestSession ---------------------------
(* Small instances of GuestSession for TLC.                                *)
EXTENDS GuestSession, TLC

(* Calls, operations and evidence are interchangeable; the actors and the  *)
(* sessions named after them are permuted together.                        *)
Symmetry == Permutations(Requests) \cup Permutations(Operations) \cup Permutations(Evidence)
=============================================================================
