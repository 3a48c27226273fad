---------------------------- MODULE TerminalTruth ----------------------------
(***************************************************************************)
(* What Payment promises of the terminal facts it records, whoever records *)
(* them: a webhook, the reconciliation job, the watchdog of a terminal, or *)
(* the job that refunds a payment whose order cannot be fulfilled.         *)
(*                                                                         *)
(* A payment has one such fact at most, the first evidence recorded of it, *)
(* of something that had happened at the provider by then; what happens    *)
(* there afterwards no longer changes the fact.                            *)
(***************************************************************************)
CONSTANTS
  Payments,  \* payments whose terminal outcome is to be recorded
  Evidence,  \* what can be recorded of a payment
  None       \* nothing recorded yet

VARIABLES
  backed,  \* backed[p]: the evidence that the provider stands behind
  fact     \* fact[p]: the terminal fact of p, or None

Init ==
  /\ backed \in [Payments -> SUBSET Evidence]
  /\ fact = [p \in Payments |-> None]

(* Something happens to p at the provider.                                 *)
Happens(p) ==
  /\ \E more \in SUBSET Evidence : backed' = [backed EXCEPT ![p] = @ \cup more]
  /\ UNCHANGED fact

(* Its first evidence to be recorded is the fact.                          *)
Record(p) ==
  /\ fact[p] = None
  /\ \E f \in backed[p] : fact' = [fact EXCEPT ![p] = f]
  /\ UNCHANGED backed

Next == \E p \in Payments : Happens(p) \/ Record(p)

Spec == Init /\ [][Next]_<<backed, fact>>
=============================================================================
