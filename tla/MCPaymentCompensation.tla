------------------------ MODULE MCPaymentCompensation ------------------------
(* A small instance of PaymentCompensation. *)
EXTENDS PaymentCompensation, TLC
=============================================================================
