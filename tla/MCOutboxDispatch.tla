-------------------------- MODULE MCOutboxDispatch --------------------------
(* Small instances of OutboxDispatch: one event, two events of two aggregates, *)
(* and two events of one aggregate.                                            *)
EXTENDS OutboxDispatch

CONSTANTS a1, a2

SoleEvent == <<a1>>
TwoSingles == <<a1, a2>>
OneAggregate == <<a1, a1>>
=============================================================================
