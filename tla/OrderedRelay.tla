---------------------------- MODULE OrderedRelay ----------------------------
(***************************************************************************)
(* What the outbox promises its consumers, with no leases, workers or      *)
(* retries: events of one aggregate reach the transport for the first time *)
(* in the order they were appended, an event counts as published only once *)
(* the transport has it, and only an unpublished event may be given up to  *)
(* let later ones pass.                                                    *)
(***************************************************************************)
EXTENDS Integers

CONSTANTS NumEvents, Aggregates, AggregateOf

VARIABLES recorded, handed, published, released

rvars == <<recorded, handed, published, released>>

Predecessors(e) == {f \in 1..(e - 1) : AggregateOf[f] = AggregateOf[e]}

RelayInit ==
  /\ recorded = 0
  /\ handed = {}
  /\ published = {}
  /\ released = {}

Record ==
  /\ recorded < NumEvents
  /\ recorded' = recorded + 1
  /\ UNCHANGED <<handed, published, released>>

\* The first handoff of an event; a repeated one is a stuttering step.
Handoff(e) ==
  /\ Predecessors(e) \subseteq handed \cup released
  /\ handed' = handed \cup {e}
  /\ UNCHANGED <<recorded, published, released>>

Confirm(e) ==
  /\ e \in handed \ released
  /\ published' = published \cup {e}
  /\ UNCHANGED <<recorded, handed, released>>

GiveUp(e) ==
  /\ e \notin published
  /\ released' = released \cup {e}
  /\ UNCHANGED <<recorded, handed, published>>

RelayNext ==
  \/ Record
  \/ \E e \in 1..recorded : Handoff(e) \/ Confirm(e) \/ GiveUp(e)

RelaySpec == RelayInit /\ [][RelayNext]_rvars
=============================================================================
