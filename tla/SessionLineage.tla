--------------------------- MODULE SessionLineage ---------------------------
(***************************************************************************)
(* What the guest sessions of a store promise, without credentials,        *)
(* versions, operations or clocks.                                         *)
(*                                                                         *)
(* A session starts live, either by itself or in the place of a live one   *)
(* that is gone in the same step, and a session that is gone stays so.     *)
(* Hence of all the sessions descending from one entry at most one is      *)
(* live.                                                                   *)
(***************************************************************************)
CONSTANTS
  Sessions,  \* session references
  None       \* no session

VARIABLES
  standing,  \* standing[s]: "none" before s, then "live", then "gone"
  parent     \* parent[s]: the session s took the place of, or None

Init ==
  /\ standing = [s \in Sessions |-> "none"]
  /\ parent = [s \in Sessions |-> None]

(* A guest is admitted.                                                    *)
Enter(s) ==
  /\ standing[s] = "none"
  /\ standing' = [standing EXCEPT ![s] = "live"]
  /\ UNCHANGED parent

(* Session t takes the place of s.                                         *)
Replace(s, t) ==
  /\ standing[s] = "live"
  /\ standing[t] = "none"
  /\ standing' = [standing EXCEPT ![s] = "gone", ![t] = "live"]
  /\ parent' = [parent EXCEPT ![t] = s]

(* Session s is revoked.                                                   *)
End(s) ==
  /\ standing[s] = "live"
  /\ standing' = [standing EXCEPT ![s] = "gone"]
  /\ UNCHANGED parent

Next ==
  \/ \E s \in Sessions : Enter(s) \/ End(s)
  \/ \E s, t \in Sessions : Replace(s, t)

Spec == Init /\ [][Next]_<<standing, parent>>
-----------------------------------------------------------------------------
(* A family is a session together with sessions that each took the place   *)
(* of a member: as much of a lineage as one cares to look at.              *)
Started == {s \in Sessions : standing[s] # "none"}
Families ==
  {F \in SUBSET Started : \E first \in F : \A s \in F \ {first} : parent[s] \in F}

(* Of a session and all that descend from it one at most is live, however  *)
(* long the lineage and wherever it branches.                              *)
OneIsLive ==
  \A F \in Families :
    \A s, t \in F : standing[s] = "live" /\ standing[t] = "live" => s = t
=============================================================================
