------------------------------ MODULE Kitchen ------------------------------
(* The order items of a kitchen ticket and the cooks who work on them.     *)
EXTENDS Naturals

CONSTANTS
  Items,    \* order items of a ticket, one work item each
  Cooks,    \* named operators
  Required  \* Required[i]: the quantity of item i that must be completed

NoItem == "nothing"
NoCook == "nobody"

ASSUME RequiredAssumption == Required \in [Items -> Nat \ {0}]
ASSUME ItemsAssumption == Items # {} /\ NoItem \notin Items
ASSUME CooksAssumption == NoCook \notin Cooks
=============================================================================
