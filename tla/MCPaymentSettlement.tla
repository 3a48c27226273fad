------------------------ MODULE MCPaymentSettlement ------------------------
(* Small instances of PaymentSettlement. *)
EXTENDS PaymentSettlement, TLC

CONSTANTS o1, o2

\* Two customer commands for one prepared order, as after a lost page.
OnePreparation == [o \in Operations |-> o1]

\* Two independent payments.
TwoPreparations == [o \in Operations |-> o]

AnySettlement == [o \in Operations |-> Terminal]

\* One payment fails and may be captured later, the other is captured.
MixedSettlement ==
  [o \in Operations |-> IF o = o1 THEN {"Captured", "Failed"} ELSE {"Captured"}]

ProcessSymmetry == Permutations(Callers) \cup Permutations(Runners)
=============================================================================
