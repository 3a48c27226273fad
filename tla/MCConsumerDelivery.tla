------------------------ MODULE MCConsumerDelivery ------------------------
(* A small instance of ConsumerDelivery: two concurrent executions. *)
EXTENDS ConsumerDelivery, TLC
=============================================================================
