----------------------------- MODULE HandledOnce -----------------------------
(***************************************************************************)
(* What a consumer promises of one event, with no executions, leases,      *)
(* clocks or inbox: the effect is committed at most once; a handling that  *)
(* failed is owed again until it is met, which takes the effect, or given  *)
(* up, which takes a report; and a report leaves the operators' hands only *)
(* by their decision, as recovered only once the retry they asked for is   *)
(* met.                                                                    *)
(***************************************************************************)
EXTENDS Integers

VARIABLES
  effects,  \* how often the effect was committed
  duty,     \* "none", "owed", "met" or "failed"
  report    \* what became of the report to the operators

hvars == <<effects, duty, report>>

HandledInit == effects = 0 /\ duty = "none" /\ report = "none"

TakeEffect ==
  /\ effects = 0
  /\ effects' = 1
  /\ UNCHANGED <<duty, report>>

\* A failure is to be tried again, also one that is heard of only after
\* another execution has met the duty or given it up.
Owe ==
  /\ duty' = "owed"
  /\ UNCHANGED <<effects, report>>

Meet ==
  /\ duty = "owed"
  /\ effects = 1
  /\ duty' = "met"
  /\ UNCHANGED <<effects, report>>

\* A duty is given up, or a delivery that never became one.
GiveUp ==
  /\ duty' \in {duty, "failed"}
  /\ report' = IF report = "none" THEN "open" ELSE report
  /\ UNCHANGED effects

AskAgain ==
  /\ report = "open"
  /\ duty = "failed"
  /\ duty' = "owed"
  /\ report' = "retry_scheduled"
  /\ UNCHANGED effects

Discard ==
  /\ report = "open"
  /\ report' = "discarded"
  /\ UNCHANGED <<effects, duty>>

Recover ==
  /\ report = "retry_scheduled"
  /\ duty = "met"
  /\ report' = "recovered"
  /\ UNCHANGED <<effects, duty>>

Release ==
  /\ report = "discarded"
  /\ report' = "released"
  /\ UNCHANGED <<effects, duty>>

HandledNext ==
  TakeEffect \/ Owe \/ Meet \/ GiveUp \/ AskAgain \/ Discard \/ Recover \/ Release

HandledSpec == HandledInit /\ [][HandledNext]_hvars

\* What the actions come to: nothing is closed that is not accounted for.
Accounted ==
  /\ effects \in {0, 1}
  /\ duty = "met" => effects = 1
  /\ duty = "failed" => report # "none"
  /\ report = "recovered" => effects = 1
=============================================================================
