--------------------------- MODULE KitchenHistory ---------------------------
(***************************************************************************)
(* What the kitchen promises to those who read its history.                *)
(*                                                                         *)
(* The kitchen keeps an append-only record of what was done to each order  *)
(* item of each ticket.  Whoever projects that record (the store queue)    *)
(* checks it fact by fact before believing it: versions without a gap, one *)
(* accept, a start and every completion by the accepting cook, quantities  *)
(* that add up, at most one readiness.  This module states the histories   *)
(* that pass that check as a state machine; KitchenWork is shown to        *)
(* produce nothing else and KitchenQueue reads nothing else.               *)
(***************************************************************************)
EXTENDS Kitchen, Sequences

CONSTANT Tickets  \* kitchen tickets of one store

VARIABLES
  log,    \* the facts of the store in the order they were committed
  stage   \* stage[t][i]: where order item i of ticket t stands

vars == <<log, stage>>

Kinds == {"Created", "Accepted", "Started", "Progress", "Completed", "CompletedReady", "Ready"}
Facts == [ticket : Tickets, item : Items \cup {NoItem}, kind : Kinds,
          cook : Cooks \cup {NoCook}, done : Nat]
Phases == {"Absent", "Queued", "Accepted", "InProgress", "Completed", "Ready"}
Stages == [phase : Phases, cook : Cooks \cup {NoCook}, done : Nat]

Fact(t, i, kind, c, q) == [ticket |-> t, item |-> i, kind |-> kind, cook |-> c, done |-> q]
At(phase, c, q) == [phase |-> phase, cook |-> c, done |-> q]

Init ==
  /\ log = <<>>
  /\ stage = [t \in Tickets |-> [i \in Items |-> At("Absent", NoCook, 0)]]

(* A ticket is created once, with every item queued. *)
Create(t) ==
  /\ \A i \in Items : stage[t][i].phase = "Absent"
  /\ log' = Append(log, Fact(t, NoItem, "Created", NoCook, 0))
  /\ stage' = [stage EXCEPT ![t] = [i \in Items |-> At("Queued", NoCook, 0)]]

(* Item i of ticket t moves on and the move is recorded with its operator. *)
Moves(t, i, kind, c, next) ==
  /\ log' = Append(log, Fact(t, i, kind, c, next.done))
  /\ stage' = [stage EXCEPT ![t][i] = next]

Accept(t, i, c) ==
  /\ stage[t][i].phase = "Queued"
  /\ Moves(t, i, "Accepted", c, At("Accepted", c, 0))

Start(t, i) ==
  /\ stage[t][i].phase = "Accepted"
  /\ Moves(t, i, "Started", stage[t][i].cook, At("InProgress", stage[t][i].cook, 0))

Progress(t, i, q) ==
  /\ stage[t][i].phase = "InProgress"
  /\ stage[t][i].done + q < Required[i]
  /\ Moves(t, i, "Progress", stage[t][i].cook,
           At("InProgress", stage[t][i].cook, stage[t][i].done + q))

(* The last of the quantity completes the item; with the expo disabled the *)
(* item is ready by the same fact.                                         *)
Complete(t, i) ==
  /\ stage[t][i].phase = "InProgress"
  /\ LET c == stage[t][i].cook
     IN \/ Moves(t, i, "Completed", c, At("Completed", c, Required[i]))
        \/ Moves(t, i, "CompletedReady", c, At("Ready", c, Required[i]))

MarkReady(t, i) ==
  /\ stage[t][i].phase = "Completed"
  /\ Moves(t, i, "Ready", NoCook, At("Ready", stage[t][i].cook, stage[t][i].done))

Next ==
  \E t \in Tickets :
    \/ Create(t)
    \/ \E i \in Items :
         \/ \E c \in Cooks : Accept(t, i, c)
         \/ Start(t, i)
         \/ \E q \in 1 .. Required[i] : Progress(t, i, q)
         \/ Complete(t, i)
         \/ MarkReady(t, i)

Spec == Init /\ [][Next]_vars
=============================================================================
