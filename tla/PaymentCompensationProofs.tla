---------------------- MODULE PaymentCompensationProofs ----------------------
(***************************************************************************)
(* Proofs about PaymentCompensation for any number of runs, any captured   *)
(* amount and any number of faults.                                        *)
(***************************************************************************)
EXTENDS PaymentCompensation, TLAPS

AfterCase == Steps \ {"Idle", "Lease", "Case"}

\* The case a run goes on with is the case as it stands, as long as no later run
\* has won the lease.  A run that has read a confirmed case finds the fact too.
Read(w) ==
  /\ runs[w].at \in AfterCase /\ Fenced(w) => runs[w].current = case
  /\ runs[w].at \in AfterCase /\ runs[w].current.refund = "ProviderConfirmed" =>
       /\ refund # "None"
       /\ runs[w].at \in {"Refund", "Reconcile", "Commit"}
       /\ At(w, "Reconcile") => Confirmed(w)
  /\ At(w, "Commit") => \/ runs[w].current.state = "Closed"
                        \/ runs[w].current.refund \in Dispositions

ReadInv == \A w \in Workers : Read(w)

\* A run takes a refund for confirmed only when it is full, and settles the case
\* on it only when the fact is recorded.
Found(w) ==
  /\ At(w, "Compose") => refunded = Captured /\ runs[w].evidence \in Evidence
  /\ runs[w].at \in {"Phase", "Reconcile"} /\ Confirmed(w) => refund # "None"

FoundInv == \A w \in Workers : Found(w)

\* The case says no more than what the fact and the receipt back.
RecordInv ==
  /\ RefundFactIsTrue
  /\ case.refund = "ProviderConfirmed" => refund # "None"
  /\ case.operations # "None" => case.operations = receipt
  /\ ClosedIsSettled

\* The action a run acts on is the permanent one.
Acts(w) ==
  /\ At(w, "Decide") => action # NoAction /\ runs[w].amount = action.amount
  /\ runs[w].at \in {"Decide", "LookAgain", "Phase"} => runs[w].phase \in Phases
  /\ At(w, "Compose") /\ runs[w].next # "None" => runs[w].phase \in Phases
  /\ At(w, "Phase") => runs[w].next \in Phases

\* Its amount is all that is ever asked for, and backed if it is paid in person.
ActionInv ==
  /\ action.phase = "None" => action = NoAction
  /\ requested # {} => action # NoAction
  /\ OneRefundAsked
  /\ inPerson.claimed => inPerson.status # "None"
  /\ InPersonIsBacked
  /\ \A w \in Workers : Acts(w)

CompensationInv ==
  /\ TypeOK
  /\ ReadInv
  /\ FoundInv
  /\ RecordInv
  /\ ActionInv
-----------------------------------------------------------------------------

\* The initial state is well-typed.
LEMMA TypeInit == ASSUME Init PROVE TypeOK
BY ConstantsAssumption DEF Init, TypeOK, NoCase, Case, NoAction, NoRun, Run, Steps, Amounts,
                           Dispositions, Unconfirmed

\* A run that has not begun is a run.
LEMMA NoRunTyped == NoRun \in Run
BY ConstantsAssumption DEF NoRun, Run, NoCase, Case, Steps, Amounts, Dispositions, Unconfirmed

\* Where a run goes when it settles the case.
LEMMA SettlesRun ==
  ASSUME TypeOK, NEW w \in Workers, NEW says \in Dispositions, Settles(w, says)
  PROVE  /\ runs' \in [Workers -> Run]
         /\ runs'[w].at = "Reconcile"
         /\ runs'[w].current = runs[w].current
         /\ runs'[w].says = says
         /\ \A v \in Workers \ {w} : runs'[v] = runs[v]
<1> DEFINE run == [NoRun EXCEPT !.at = "Reconcile", !.current = runs[w].current, !.says = says]
<1>1. runs[w].current \in Case
  BY DEF TypeOK, Run
<1>2. /\ run \in Run
      /\ run.at = "Reconcile"
      /\ run.current = runs[w].current
      /\ run.says = says
  BY <1>1, NoRunTyped DEF Run, Steps
<1>3. runs' = [runs EXCEPT ![w] = run]
  BY DEF Settles
<1> QED BY <1>2, <1>3 DEF TypeOK

\* Where a run goes when it has a phase to record, or has it recorded already.
LEMMA RecordsRun ==
  ASSUME TypeOK, NEW w \in Workers, NEW next \in Phases, NEW says \in Dispositions,
         RecordThen(w, next, says)
  PROVE  /\ runs' \in [Workers -> Run]
         /\ runs'[w].at \in {"Phase", "Reconcile"}
         /\ runs'[w].at = "Phase" => runs'[w].phase = runs[w].phase /\ runs'[w].next = next
         /\ runs'[w].current = runs[w].current
         /\ runs'[w].says = says
         /\ \A v \in Workers \ {w} : runs'[v] = runs[v]
<1>1. CASE runs[w].phase = next
  BY <1>1, SettlesRun DEF RecordThen
<1>2. CASE runs[w].phase # next
  <2> DEFINE run == [NoRun EXCEPT !.at = "Phase", !.current = runs[w].current,
                       !.phase = runs[w].phase, !.next = next, !.says = says]
  <2>1. runs[w].current \in Case /\ runs[w].phase \in Phases \cup {"None"}
    BY DEF TypeOK, Run
  <2>2. /\ run \in Run
        /\ run.at = "Phase"
        /\ run.phase = runs[w].phase
        /\ run.next = next
        /\ run.current = runs[w].current
        /\ run.says = says
    BY <2>1, NoRunTyped DEF Run, Steps
  <2>3. runs' = [runs EXCEPT ![w] = run]
    BY <1>2 DEF RecordThen
  <2> QED BY <2>2, <2>3 DEF TypeOK
<1> QED BY <1>1, <1>2

\* Where a run goes when it sees the full refund.
LEMMA SeesRun ==
  ASSUME TypeOK, NEW w \in Workers, NEW next \in Phases \cup {"None"}, SeesFull(w, next)
  PROVE  /\ runs' \in [Workers -> Run]
         /\ runs'[w].at = "Compose"
         /\ runs'[w].evidence \in Evidence
         /\ runs'[w].phase = runs[w].phase
         /\ runs'[w].next = next
         /\ runs'[w].current = runs[w].current
         /\ \A v \in Workers \ {w} : runs'[v] = runs[v]
<1> PICK e \in Evidence :
      runs' = [runs EXCEPT ![w] = [NoRun EXCEPT !.at = "Compose",
                 !.current = runs[w].current, !.phase = runs[w].phase,
                 !.evidence = e, !.next = next]]
  BY DEF SeesFull
<1> DEFINE run == [NoRun EXCEPT !.at = "Compose", !.current = runs[w].current,
                     !.phase = runs[w].phase, !.evidence = e, !.next = next]
<1>1. runs[w].current \in Case /\ runs[w].phase \in Phases \cup {"None"}
  BY DEF TypeOK, Run
<1>2. /\ run \in Run
      /\ run.at = "Compose"
      /\ run.evidence = e
      /\ run.phase = runs[w].phase
      /\ run.next = next
      /\ run.current = runs[w].current
  BY <1>1, NoRunTyped DEF Run, Steps
<1>3. runs' = [runs EXCEPT ![w] = run]
  OBVIOUS
<1> QED BY <1>2, <1>3 DEF TypeOK

\* How a run ends.
LEMMA LeavesRun ==
  ASSUME TypeOK, NEW w \in Workers, Leave(w)
  PROVE  /\ runs' \in [Workers -> Run]
         /\ runs'[w] = NoRun
         /\ \A v \in Workers \ {w} : runs'[v] = runs[v]
         /\ lease' \in [run : Workers \cup {"None"}, live : BOOLEAN]
         /\ lease'.run = lease.run
BY NoRunTyped DEF Leave, TypeOK

\* A found disposition and a phase are what the definitions say.
LEMMA Words ==
  /\ Unconfirmed \subseteq Dispositions
  /\ {"InPersonActionRequired", "RefundPending", "ReconciliationRequired",
      "AwaitingProviderConfirmation", "ProviderConfirmed"} \subseteq Dispositions
  /\ {"Claimed", "InvocationUnknown", "ProviderPending", "ProviderConfirmed"} \subseteq Phases
  /\ "ProviderConfirmed" \notin Unconfirmed
BY DEF Dispositions, Unconfirmed, Phases

\* Every step of a run keeps every variable in its type.
LEMMA TypeRun ==
  ASSUME TypeOK, ReadInv, FoundInv, ActionInv, NEW w \in Workers, Begin(w) \/ Step(w)
  PROVE  TypeOK'
<1> USE ConstantsAssumption DEF outside, records
<1>0. runs[w] \in Run
  BY DEF TypeOK
<1>1. CASE Begin(w)
  BY <1>0, <1>1 DEF Begin, TypeOK, Run, Steps
<1>2. CASE WinLease(w)
  BY <1>0, <1>2 DEF WinLease, TypeOK, Run, Steps
<1>3. CASE MissLease(w)
  BY <1>3, NoRunTyped DEF MissLease, TypeOK
<1>4. CASE Superseded(w) \/ ObservedTooLate(w) \/ Overtaken(w) \/ ReceiptUnfit(w)
  <2>1. Leave(w)
    BY <1>4 DEF Superseded, ObservedTooLate, Overtaken, ReceiptUnfit
  <2> QED BY <1>4, <2>1, LeavesRun
          DEF Superseded, ObservedTooLate, Overtaken, ReceiptUnfit, TypeOK
<1>5. CASE OpenCase(w)
  <2>1. case' \in Case
    BY <1>5 DEF OpenCase, TypeOK, Case
  <2>2. [runs[w] EXCEPT !.at = "Refund", !.current = case'] \in Run
    BY <1>0, <2>1 DEF Run, Steps
  <2>3. runs' = [runs EXCEPT ![w] = [runs[w] EXCEPT !.at = "Refund", !.current = case']]
    BY <1>5 DEF OpenCase
  <2>4. runs' \in [Workers -> Run]
    BY <2>2, <2>3 DEF TypeOK
  <2> QED BY <1>5, <2>1, <2>4 DEF OpenCase, TypeOK
<1>6. CASE ResolveRefund(w)
  <2>1. runs' \in [Workers -> Run]
    <3>1. CASE refund = "None"
      BY <1>0, <1>6, <3>1 DEF ResolveRefund, TypeOK, Run, Steps
    <3> QED BY <1>6, <3>1, SettlesRun, Words DEF ResolveRefund
  <2> QED BY <1>6, <2>1 DEF ResolveRefund, TypeOK
<1>7. CASE Look(w)
  <2>1. runs' \in [Workers -> Run]
    <3>1. CASE SeesFull(w, "None")
      BY <3>1, SeesRun
    <3>2. CASE runs' = [runs EXCEPT ![w].at = "Choose", ![w].truth = refunded]
      <4>1. "Choose" \in Steps /\ refunded \in Amounts
        BY DEF Steps, TypeOK
      <4>2. [runs[w] EXCEPT !.at = "Choose", !.truth = refunded] \in Run
        BY <1>0, <4>1 DEF Run
      <4> QED BY <3>2, <4>2 DEF TypeOK
    <3> QED BY <1>7, <3>1, <3>2 DEF Look
  <2> QED BY <1>7, <2>1 DEF Look, TypeOK
<1>8. CASE LookInVain(w) \/ LackEvidence(w) \/ Wait(w)
  <2>1. runs' \in [Workers -> Run]
    BY <1>8, SettlesRun, Words DEF LookInVain, LackEvidence, Wait
  <2> QED BY <1>8, <2>1 DEF LookInVain, LackEvidence, Wait, TypeOK
<1>9. CASE ResolveAction(w)
  <2>1. runs' \in [Workers -> Run]
    <3>1. CASE action = NoAction
      BY <1>0, <1>9, <3>1 DEF ResolveAction, TypeOK, Run, Steps
    <3>2. CASE action # NoAction
      <4>1. "Decide" \in Steps /\ action.phase \in Phases \cup {"None"} /\ action.amount \in Amounts
        BY DEF Steps, TypeOK
      <4>2. [runs[w] EXCEPT !.at = "Decide", !.phase = action.phase,
                            !.amount = action.amount] \in Run
        BY <1>0, <4>1 DEF Run
      <4> QED BY <1>9, <3>2, <4>2 DEF ResolveAction, TypeOK
    <3> QED BY <3>1, <3>2
  <2> QED BY <1>9, <2>1 DEF ResolveAction, TypeOK
<1>10. CASE ClaimEvidence(w)
  BY <1>10 DEF ClaimEvidence, TypeOK
<1>11. CASE ClaimAction(w) \/ ClaimTaken(w)
  <2>1. Remaining(w) \in Amounts
    BY <1>0 DEF Remaining, Run, Amounts
  <2>2. runs' \in [Workers -> Run]
    BY <1>0, <1>11, <2>1 DEF ClaimAction, ClaimTaken, TypeOK, Run, Steps, Phases
  <2>3. action' \in [phase : Phases \cup {"None"}, amount : Amounts]
    BY <1>11, <2>1 DEF ClaimAction, ClaimTaken, TypeOK, Phases
  <2> QED BY <1>11, <2>2, <2>3 DEF ClaimAction, ClaimTaken, TypeOK
<1>12. CASE AwaitReader(w) \/ FindPart(w)
  <2>1. runs' \in [Workers -> Run]
    BY <1>12, RecordsRun, Words DEF AwaitReader, FindPart
  <2> QED BY <1>12, <2>1 DEF AwaitReader, FindPart, TypeOK
<1>13. CASE CallProvider(w)
  <2>1. runs' \in [Workers -> Run]
    <3>1. 0 \in Amounts /\ "LookAgain" \in Steps
      BY DEF Amounts, Steps
    <3>2. [runs[w] EXCEPT !.at = "LookAgain", !.truth = 0] \in Run
      BY <1>0, <3>1 DEF Run
    <3> QED BY <1>13, <3>2 DEF CallProvider, TypeOK
  <2>2. requested' \subseteq Amounts
    BY <1>0, <1>13 DEF CallProvider, TypeOK, Run
  <2> QED BY <1>13, <2>1, <2>2 DEF CallProvider, TypeOK
<1>14. CASE LookAgain(w)
  <2>1. runs' \in [Workers -> Run]
    BY <1>14, SeesRun, RecordsRun, Words DEF LookAgain
  <2> QED BY <1>14, <2>1 DEF LookAgain, TypeOK
<1>15. CASE LookAgainInVain(w)
  <2>1. runs' \in [Workers -> Run]
    BY <1>15, RecordsRun, Words DEF LookAgainInVain
  <2> QED BY <1>15, <2>1 DEF LookAgainInVain, TypeOK
<1>16. CASE Compose(w)
  <2>1. runs' \in [Workers -> Run]
    <3>1. runs[w].next \in Phases \cup {"None"}
      BY <1>0 DEF Run
    <3> QED BY <1>16, <3>1, SettlesRun, RecordsRun, Words DEF Compose
  <2>2. refund' \in Evidence \cup {"None"}
    BY <1>16 DEF Compose, FoundInv, Found, TypeOK
  <2> QED BY <1>16, <2>1, <2>2 DEF Compose, TypeOK
<1>17. CASE RecordPhase(w)
  <2>1. runs' \in [Workers -> Run]
    BY <1>0, <1>17, SettlesRun DEF RecordPhase, Run
  <2>2. action' \in [phase : Phases \cup {"None"}, amount : Amounts]
    BY <1>0, <1>17 DEF RecordPhase, TypeOK, Run
  <2> QED BY <1>17, <2>1, <2>2 DEF RecordPhase, TypeOK
<1>18. CASE Reconcile(w)
  <2>1. Reconciled(w) \in Case
    BY <1>0 DEF Reconciled, Run, Case, TypeOK, Dispositions
  <2>2. runs' \in [Workers -> Run]
    <3>1. "Commit" \in Steps /\ NoRun.says \in Dispositions
      BY DEF Steps, NoRun, Dispositions, Unconfirmed
    <3>2. ASSUME NEW current \in Case
          PROVE  [runs[w] EXCEPT !.at = "Commit", !.says = NoRun.says,
                                 !.current = current] \in Run
      BY <1>0, <3>1 DEF Run
    <3>3. CASE runs[w].current.state = "Closed"
      <4>1. runs[w].current \in Case
        BY <1>0 DEF Run
      <4>2. runs' = [runs EXCEPT ![w] = [runs[w] EXCEPT !.at = "Commit", !.says = NoRun.says,
                                                        !.current = runs[w].current]]
        BY <1>18, <3>3 DEF Reconcile
      <4> QED BY <3>2, <4>1, <4>2 DEF TypeOK
    <3>4. CASE runs[w].current.state # "Closed"
      <4>1. runs' = [runs EXCEPT ![w] = [runs[w] EXCEPT !.at = "Commit", !.says = NoRun.says,
                                                        !.current = Reconciled(w)]]
        BY <1>18, <3>4 DEF Reconcile
      <4> QED BY <2>1, <3>2, <4>1 DEF TypeOK
    <3> QED BY <3>3, <3>4
  <2> QED BY <1>18, <2>1, <2>2 DEF Reconcile, TypeOK
<1>19. CASE Commit(w)
  <2>1. result' \in Unconfirmed \cup {"None", "AwaitingOperationsReconciliation", "Closed"}
    BY <1>0, <1>19 DEF Commit, Status, ReadInv, Read, Dispositions
  <2> QED BY <1>19, <2>1, LeavesRun DEF Commit, TypeOK
<1> QED BY <1>1, <1>2, <1>3, <1>4, <1>5, <1>6, <1>7, <1>8, <1>9, <1>10, <1>11, <1>12, <1>13,
           <1>14, <1>15, <1>16, <1>17, <1>18, <1>19 DEF Step

\* Every step keeps every variable in its type.
LEMMA TypeStep ==
  ASSUME TypeOK, ReadInv, FoundInv, ActionInv, [Next]_vars PROVE TypeOK'
<1> USE ConstantsAssumption DEF outside, records, vars
<1>1. CASE UNCHANGED vars
  BY <1>1 DEF TypeOK
<1>2. ASSUME NEW w \in Workers, RunDies(w) PROVE TypeOK'
  BY <1>2, NoRunTyped DEF RunDies, TypeOK
<1>3. CASE LeaseLapses
  <2>1. lease' \in [run : Workers \cup {"None"}, live : BOOLEAN]
    BY <1>3 DEF LeaseLapses, TypeOK
  <2>2. faults' \in 0..MaxFaults
    BY <1>3 DEF LeaseLapses, TypeOK
  <2> QED BY <1>3, <2>1, <2>2 DEF LeaseLapses, TypeOK
<1>4. ASSUME NEW a \in Amounts, ProviderApplies(a) \/ RefundedElsewhere(a) PROVE TypeOK'
  <2>1. refunded' \in Amounts
    BY <1>4 DEF ProviderApplies, RefundedElsewhere, TypeOK, Amounts
  <2> QED BY <1>4, <2>1 DEF ProviderApplies, RefundedElsewhere, TypeOK
<1>5. CASE PresentEvidence
  <2>1. Captured - refunded \in Amounts
    BY DEF TypeOK, Amounts
  <2> QED BY <1>5, <2>1 DEF PresentEvidence, TypeOK
<1>6. CASE EvidenceExpires
  BY <1>6 DEF EvidenceExpires, TypeOK
<1>7. ASSUME NEW e \in Evidence, OperationsReconcile(e) PROVE TypeOK'
  BY <1>7 DEF OperationsReconcile, TypeOK
<1> QED BY <1>1, <1>2, <1>3, <1>4, <1>5, <1>6, <1>7, TypeRun DEF Next
-----------------------------------------------------------------------------

\* The steps of a run between reading the case and writing it.
Between(w) ==
  \/ ResolveRefund(w) \/ Look(w) \/ LookInVain(w)
  \/ ResolveAction(w) \/ ClaimEvidence(w) \/ LackEvidence(w) \/ ClaimAction(w) \/ ClaimTaken(w)
  \/ AwaitReader(w) \/ CallProvider(w) \/ FindPart(w) \/ Wait(w)
  \/ LookAgain(w) \/ LookAgainInVain(w) \/ Compose(w) \/ RecordPhase(w)

\* The steps that end a run without a word.
Ends(w) ==
  \/ MissLease(w) \/ Superseded(w) \/ ObservedTooLate(w) \/ Overtaken(w) \/ ReceiptUnfit(w)
  \/ RunDies(w)

Ran(w) == Begin(w) \/ Step(w) \/ RunDies(w)

\* The steps of a run, by what they do with the case.
LEMMA StepsOfRun ==
  ASSUME NEW w \in Workers, Ran(w)
  PROVE  \/ Begin(w) \/ WinLease(w) \/ OpenCase(w) \/ Between(w)
         \/ Reconcile(w) \/ Commit(w) \/ Ends(w)
BY DEF Ran, Step, Between, Ends

\* A run that ends forgets everything.
LEMMA EndsRun ==
  ASSUME TypeOK, NEW w \in Workers, Ends(w)
  PROVE  /\ runs'[w] = NoRun
         /\ \A v \in Workers \ {w} : runs'[v] = runs[v]
         /\ lease'.run = lease.run
         /\ UNCHANGED <<outside, requested, records>>
<1>1. CASE MissLease(w)
  BY <1>1 DEF MissLease, TypeOK
<1>2. CASE RunDies(w)
  BY <1>2 DEF RunDies, TypeOK
<1>3. CASE Superseded(w) \/ ObservedTooLate(w) \/ Overtaken(w) \/ ReceiptUnfit(w)
  BY <1>3, LeavesRun DEF Superseded, ObservedTooLate, Overtaken, ReceiptUnfit
<1> QED BY <1>1, <1>2, <1>3 DEF Ends

\* No other step takes a run to one that calls the provider or records.
LEMMA NotBetween ==
  ASSUME TypeOK, NEW w \in Workers, Ran(w), ~Between(w)
  PROVE  runs'[w].at \in {"Idle", "Lease", "Case", "Refund", "Commit"}
<1>0. runs[w] \in Run
  BY DEF TypeOK
<1>1. CASE Begin(w) \/ WinLease(w)
  BY <1>0, <1>1 DEF Begin, WinLease, TypeOK, Run
<1>2. CASE OpenCase(w)
  BY <1>0, <1>2 DEF OpenCase, TypeOK, Run
<1>3. CASE Reconcile(w)
  BY <1>0, <1>3 DEF Reconcile, TypeOK, Run
<1>4. CASE Ends(w) \/ Commit(w)
  <2>1. runs'[w] = NoRun
    BY <1>4, EndsRun, LeavesRun DEF Commit
  <2> QED BY <2>1 DEF NoRun
<1> QED BY <1>1, <1>2, <1>3, <1>4, StepsOfRun

\* What holds of a run after a step between reading the case and writing it.
Kept(w) ==
  /\ runs[w].at \in AfterCase \ {"Reconcile", "Commit"}
  /\ runs'[w].at \in AfterCase \ {"Refund", "Commit"}
  /\ runs'[w].current = runs[w].current
  /\ At(w, "Refund") =>
       \/ refund = "None"
       \/ runs'[w].at = "Reconcile" /\ runs'[w].says = "ProviderConfirmed"
  /\ \A v \in Workers \ {w} : runs'[v] = runs[v]
  /\ UNCHANGED <<lease, case, result>>
  /\ refund # "None" => refund' = refund
  /\ Found(w)' /\ Acts(w)'

LEMMA BetweenKeeps ==
  ASSUME TypeOK, FoundInv, ActionInv, NEW w \in Workers, Between(w)
  PROVE  Kept(w)
<1> USE DEF outside, records, At, Found, Acts, Confirmed, Kept, AfterCase, Steps
<1>0. runs[w] \in Run /\ Found(w) /\ Acts(w)
  BY DEF TypeOK, FoundInv, ActionInv
<1>1. CASE ResolveRefund(w)
  <2>1. CASE refund = "None"
    BY <1>0, <1>1, <2>1 DEF ResolveRefund, TypeOK, Run
  <2>2. CASE refund # "None"
    BY <1>1, <2>2, SettlesRun, Words DEF ResolveRefund
  <2> QED BY <2>1, <2>2
<1>2. CASE Look(w)
  <2>1. CASE Full(refunded) /\ SeesFull(w, "None")
    BY <1>2, <2>1, SeesRun DEF Look, Full
  <2>2. CASE ~Full(refunded) /\ runs' = [runs EXCEPT ![w].at = "Choose", ![w].truth = refunded]
    BY <1>0, <1>2, <2>2 DEF Look, TypeOK, Run
  <2> QED BY <1>2, <2>1, <2>2 DEF Look
<1>3. CASE LookInVain(w) \/ LackEvidence(w) \/ Wait(w)
  BY <1>3, SettlesRun, Words DEF LookInVain, LackEvidence, NeedsEvidence, Wait
<1>4. CASE ResolveAction(w)
  <2>1. CASE action = NoAction
    BY <1>0, <1>4, <2>1 DEF ResolveAction, TypeOK, Run
  <2>2. CASE action # NoAction
    <3>1. action.phase \in Phases
      BY <2>2 DEF ActionInv, TypeOK
    <3> QED BY <1>0, <1>4, <2>2, <3>1 DEF ResolveAction, TypeOK, Run
  <2> QED BY <2>1, <2>2
<1>5. CASE ClaimEvidence(w)
  BY <1>0, <1>5 DEF ClaimEvidence, NeedsEvidence
<1>6. CASE ClaimAction(w) \/ ClaimTaken(w)
  <2>1. action' = [phase |-> "Claimed", amount |-> Remaining(w)]
    BY <1>6 DEF ClaimAction, ClaimTaken, SameClaim
  <2>2. action' # NoAction /\ action'.amount = Remaining(w)
    BY <2>1 DEF NoAction
  <2>3. /\ runs'[w].at = "Decide"
        /\ runs'[w].phase = "Claimed"
        /\ runs'[w].amount = Remaining(w)
        /\ runs'[w].current = runs[w].current
        /\ \A v \in Workers \ {w} : runs'[v] = runs[v]
    BY <1>0, <1>6 DEF ClaimAction, ClaimTaken, TypeOK, Run
  <2> QED BY <1>6, <2>2, <2>3 DEF ClaimAction, ClaimTaken, Phases
<1>7. CASE AwaitReader(w) \/ FindPart(w)
  BY <1>0, <1>7, RecordsRun, Words DEF AwaitReader, FindPart
<1>8. CASE CallProvider(w)
  BY <1>0, <1>8 DEF CallProvider, TypeOK, Run
<1>9. CASE LookAgain(w)
  <2>1. CASE Full(refunded) /\ SeesFull(w, "ProviderConfirmed")
    BY <1>0, <1>9, <2>1, SeesRun, Words DEF LookAgain, Full
  <2>2. CASE \/ RecordThen(w, "ProviderPending", "RefundPending")
             \/ RecordThen(w, "InvocationUnknown", "AwaitingProviderConfirmation")
    BY <1>0, <1>9, <2>2, RecordsRun, Words DEF LookAgain
  <2> QED BY <1>9, <2>1, <2>2 DEF LookAgain
<1>10. CASE LookAgainInVain(w)
  BY <1>0, <1>10, RecordsRun, Words DEF LookAgainInVain
<1>11. CASE Compose(w)
  <2>1. refund' # "None" /\ (refund # "None" => refund' = refund)
    BY <1>0, <1>11, ConstantsAssumption DEF Compose
  <2>2. runs[w].next \in Phases \cup {"None"}
    BY <1>0 DEF Run
  <2>3. CASE runs[w].next = "None"
    BY <1>11, <2>1, <2>3, SettlesRun, Words DEF Compose
  <2>4. CASE runs[w].next # "None"
    BY <1>0, <1>11, <2>1, <2>2, <2>4, RecordsRun, Words DEF Compose
  <2> QED BY <2>3, <2>4
<1>12. CASE RecordPhase(w)
  <2>1. runs[w].says \in Dispositions
    BY <1>0 DEF Run
  <2> QED BY <1>0, <1>12, <2>1, SettlesRun DEF RecordPhase
<1> QED BY <1>1, <1>2, <1>3, <1>4, <1>5, <1>6, <1>7, <1>8, <1>9, <1>10, <1>11, <1>12 DEF Between
-----------------------------------------------------------------------------

\* What is not a run changes neither runs nor Payment's records.
LEMMA OnlyRunsRecord ==
  ASSUME TypeOK, [Next]_vars, ~\E w \in Workers : Ran(w)
  PROVE  UNCHANGED <<requested, records, runs>> /\ lease'.run = lease.run
BY DEF Next, vars, records, Ran, LeaseLapses, ProviderApplies, RefundedElsewhere,
       PresentEvidence, EvidenceExpires, OperationsReconcile, TypeOK

\* A run changes nothing outside but the claim on the in-person evidence.
LEMMA RunsLeaveOutside ==
  ASSUME TypeOK, NEW w \in Workers, Ran(w)
  PROVE  /\ UNCHANGED <<method, refunded, applied, receipt>>
         /\ inPerson' \in {inPerson, [inPerson EXCEPT !.claimed = TRUE]}
         /\ inPerson' # inPerson => ClaimEvidence(w)
<1> USE DEF outside
<1>1. CASE Ends(w)
  BY <1>1, EndsRun
<1>2. CASE Between(w)
  BY <1>2 DEF Between, ResolveRefund, Look, LookInVain, ResolveAction, ClaimEvidence,
              LackEvidence, ClaimAction, ClaimTaken, AwaitReader, CallProvider, FindPart,
              Wait, LookAgain, LookAgainInVain, Compose, RecordPhase
<1>3. CASE Begin(w) \/ WinLease(w) \/ OpenCase(w) \/ Reconcile(w) \/ Commit(w)
  BY <1>3 DEF Begin, WinLease, OpenCase, Reconcile, Commit
<1> QED BY <1>1, <1>2, <1>3, StepsOfRun

\* What was refunded and what Operations has signed stays so.
LEMMA OutsideStays ==
  ASSUME TypeOK, [Next]_vars
  PROVE  /\ method' = method
         /\ refunded = Captured => refunded' = Captured
         /\ receipt # "None" => receipt' = receipt
<1>1. CASE \E w \in Workers : Ran(w)
  BY <1>1, RunsLeaveOutside
<1>2. ASSUME NEW a \in Amounts, ProviderApplies(a) \/ RefundedElsewhere(a)
      PROVE  /\ method' = method
             /\ refunded = Captured => refunded' = Captured
             /\ receipt' = receipt
  BY <1>2, ConstantsAssumption DEF ProviderApplies, RefundedElsewhere, TypeOK, Amounts
<1> QED BY <1>1, <1>2 DEF Next, vars, outside, Ran, LeaseLapses, PresentEvidence,
                          EvidenceExpires, OperationsReconcile

\* The recorded fact stays as it is.
LEMMA FactStays ==
  ASSUME TypeOK, FoundInv, ActionInv, [Next]_vars, refund # "None" PROVE refund' = refund
<1> USE DEF records
<1>1. ASSUME NEW w \in Workers, Ran(w) PROVE refund' = refund
  <2>1. CASE Between(w)
    BY <2>1, BetweenKeeps DEF Kept
  <2>2. CASE Ends(w)
    BY <2>2, EndsRun
  <2>3. CASE Begin(w) \/ WinLease(w) \/ OpenCase(w) \/ Reconcile(w) \/ Commit(w)
    BY <2>3 DEF Begin, WinLease, OpenCase, Reconcile, Commit
  <2> QED BY <1>1, <2>1, <2>2, <2>3, StepsOfRun
<1> QED BY <1>1, OnlyRunsRecord

\* A claimed action stays claimed, for its amount.
LEMMA ActionStays ==
  ASSUME TypeOK, ActionInv, [Next]_vars, action # NoAction
  PROVE  action' # NoAction /\ action'.amount = action.amount
<1> USE DEF records
<1>1. ASSUME NEW w \in Workers, Ran(w)
      PROVE  action' # NoAction /\ action'.amount = action.amount
  <2>1. CASE RecordPhase(w)
    <3>1. runs[w].next # "None"
      BY <2>1 DEF RecordPhase, ActionInv, Acts, Phases
    <3> QED BY <2>1, <3>1 DEF RecordPhase, TypeOK, NoAction
  <2>2. CASE Ends(w)
    BY <2>2, EndsRun
  <2>3. CASE ~RecordPhase(w) /\ ~Ends(w)
    <3>1. action' = action
      BY <1>1, <2>3 DEF Ran, Ends, Step, Begin, WinLease, OpenCase, ResolveRefund, Look,
             LookInVain, ResolveAction, ClaimEvidence, LackEvidence, ClaimAction, ClaimTaken,
             AwaitReader, CallProvider, FindPart, Wait, LookAgain, LookAgainInVain, Compose,
             Reconcile, Commit
    <3> QED BY <3>1
  <2> QED BY <2>1, <2>2, <2>3
<1> QED BY <1>1, OnlyRunsRecord
-----------------------------------------------------------------------------

\* Whoever is not the acting run, and whose fence is the newest, sees the case as
\* it was.
LEMMA OthersKeep ==
  ASSUME TypeOK, FoundInv, ActionInv, NEW w \in Workers, Ran(w), NEW v \in Workers \ {w}
  PROVE  /\ runs'[v] = runs[v]
         /\ Fenced(v)' => Fenced(v) /\ case' = case
<1> USE DEF Fenced, records
<1>1. CASE Ends(w)
  BY <1>1, EndsRun
<1>2. CASE Between(w)
  BY <1>2, BetweenKeeps DEF Kept
<1>3. CASE Begin(w) \/ WinLease(w)
  BY <1>3 DEF Begin, WinLease, TypeOK
<1>4. CASE OpenCase(w)
  BY <1>4 DEF OpenCase, TypeOK
<1>5. CASE Reconcile(w)
  BY <1>5 DEF Reconcile, TypeOK
<1>6. CASE Commit(w)
  BY <1>6, LeavesRun DEF Commit
<1> QED BY <1>1, <1>2, <1>3, <1>4, <1>5, <1>6, StepsOfRun

\* A run that writes the case has read it as it stands, and writes what it holds.
LEMMA ReconcileWrites ==
  ASSUME TypeOK, ReadInv, FoundInv, NEW w \in Workers, Reconcile(w)
  PROVE  /\ runs'[w].at = "Commit"
         /\ \/ /\ runs[w].current.state = "Closed"
               /\ case' = case
               /\ runs'[w].current = runs[w].current
            \/ /\ runs[w].current.state # "Closed"
               /\ Fenced(w) /\ runs[w].current = case
               /\ case' = Reconciled(w)
               /\ runs'[w].current = Reconciled(w)
         /\ Reconciled(w).refund \in Dispositions
         /\ Reconciled(w).refund = "ProviderConfirmed" =>
              refund # "None" /\ (receipt # "None" => receipt = refund)
         /\ UNCHANGED <<lease, refund, result, action, receipt>>
<1>0. runs[w] \in Run
  BY DEF TypeOK
<1>1. At(w, "Reconcile") /\ runs[w].at \in AfterCase
  BY DEF Reconcile, At, AfterCase, Steps
<1>2. Reconciled(w).refund =
        IF runs[w].current.refund = "ProviderConfirmed" THEN "ProviderConfirmed"
        ELSE runs[w].says
  BY DEF Reconciled
<1>3. Reconciled(w).refund \in Dispositions
  BY <1>0, <1>2, Words DEF Run
<1>4. Reconciled(w).refund = "ProviderConfirmed" => Confirmed(w) /\ refund # "None"
  BY <1>1, <1>2 DEF ReadInv, Read, FoundInv, Found, Confirmed, At
<1>5. ReceiptFits(w)
  BY DEF Reconcile
<1>6. runs[w].current.state # "Closed" => Fenced(w) /\ runs[w].current = case
  BY <1>1 DEF Reconcile, ReadInv, Read
<1>7. CASE runs[w].current.state = "Closed"
  <2>1. runs'[w].at = "Commit" /\ runs'[w].current = runs[w].current
    BY <1>0, <1>7 DEF Reconcile, TypeOK, Run
  <2> QED BY <1>3, <1>4, <1>5, <1>7, <2>1 DEF Reconcile, ReceiptFits, outside
<1>8. CASE runs[w].current.state # "Closed"
  <2>1. runs'[w].at = "Commit" /\ runs'[w].current = Reconciled(w)
    BY <1>0, <1>8 DEF Reconcile, TypeOK, Run
  <2> QED BY <1>3, <1>4, <1>5, <1>6, <1>8, <2>1 DEF Reconcile, ReceiptFits, outside
<1> QED BY <1>7, <1>8

\* Every step keeps ReadInv.
LEMMA ReadStep ==
  ASSUME TypeOK, ReadInv, FoundInv, RecordInv, ActionInv, [Next]_vars PROVE ReadInv'
<1> USE DEF records
<1>0. refund # "None" => refund' # "None"
  BY FactStays
<1>1. ASSUME NEW w \in Workers, Ran(w), NEW v \in Workers \ {w} PROVE Read(v)'
  BY <1>0, <1>1, OthersKeep DEF ReadInv, Read, At, Confirmed
<1>2. ASSUME NEW w \in Workers, Ran(w) PROVE Read(w)'
  <2>0. runs[w] \in Run /\ Read(w)
    BY DEF TypeOK, ReadInv
  <2>1. runs'[w].at \notin AfterCase => Read(w)'
    BY DEF Read, At, AfterCase, Steps
  <2>2. CASE Begin(w) \/ WinLease(w) \/ Ends(w) \/ Commit(w)
    <3>1. Ends(w) \/ Commit(w) => runs'[w] = NoRun
      BY EndsRun, LeavesRun DEF Commit
    <3>2. runs'[w].at \notin AfterCase
      BY <2>0, <2>2, <3>1 DEF Begin, WinLease, NoRun, AfterCase, TypeOK, Run
    <3> QED BY <2>1, <3>2
  <2>3. CASE OpenCase(w)
    <3>1. runs'[w].at = "Refund" /\ runs'[w].current = case'
      BY <2>0, <2>3 DEF OpenCase, TypeOK, Run
    <3>2. case'.refund = case.refund /\ refund' = refund
      BY <2>3 DEF OpenCase, TypeOK, Case
    <3> QED BY <3>1, <3>2 DEF Read, At, RecordInv
  <2>4. CASE Between(w)
    <3>1. Kept(w)
      BY <2>4, BetweenKeeps
    <3>2. runs'[w].current.refund = "ProviderConfirmed" => At(w, "Refund") /\ refund # "None"
      BY <2>0, <3>1 DEF Kept, Read, At
    <3> QED BY <1>0, <2>0, <3>1, <3>2 DEF Kept, Read, Fenced, At, Confirmed
  <2>5. CASE Reconcile(w)
    <3>1. /\ runs[w].at = "Reconcile" /\ runs'[w].at = "Commit"
          /\ lease' = lease /\ refund' = refund
      BY <2>5, ReconcileWrites DEF Reconcile, At
    <3>2. CASE /\ runs[w].current.state = "Closed"
               /\ case' = case
               /\ runs'[w].current = runs[w].current
      BY <2>0, <3>1, <3>2 DEF Read, Fenced, At, AfterCase, Steps
    <3>3. CASE case' = Reconciled(w) /\ runs'[w].current = Reconciled(w)
      <4>1. /\ Reconciled(w).refund \in Dispositions
            /\ Reconciled(w).refund = "ProviderConfirmed" => refund # "None"
        BY <2>5, ReconcileWrites
      <4>2. runs'[w].current = case'
        BY <3>3
      <4> QED BY <3>1, <3>3, <4>1, <4>2 DEF Read, At
    <3> QED BY <2>5, <3>2, <3>3, ReconcileWrites
  <2> QED BY <1>2, <2>2, <2>3, <2>4, <2>5, StepsOfRun
<1>3. CASE \E w \in Workers : Ran(w)
  BY <1>1, <1>2, <1>3 DEF ReadInv
<1>4. CASE ~\E w \in Workers : Ran(w)
  BY <1>4, OnlyRunsRecord DEF ReadInv, Read, Fenced, At, Confirmed
<1> QED BY <1>3, <1>4

\* Every step keeps FoundInv.
LEMMA FoundStep ==
  ASSUME TypeOK, FoundInv, ActionInv, [Next]_vars PROVE FoundInv'
<1>0. /\ refund # "None" => refund' # "None"
      /\ refunded = Captured => refunded' = Captured
  BY FactStays, OutsideStays
<1>1. ASSUME NEW w \in Workers, Ran(w), NEW v \in Workers \ {w} PROVE Found(v)'
  BY <1>0, <1>1, OthersKeep DEF FoundInv, Found, At, Confirmed
<1>2. ASSUME NEW w \in Workers, Ran(w) PROVE Found(w)'
  <2>1. CASE Between(w)
    BY <2>1, BetweenKeeps DEF Kept
  <2>2. CASE ~Between(w)
    <3>1. runs'[w].at \notin {"Compose", "Phase", "Reconcile"}
      BY <1>2, <2>2, NotBetween
    <3> QED BY <3>1 DEF Found, At
  <2> QED BY <2>1, <2>2
<1>3. CASE \E w \in Workers : Ran(w)
  BY <1>1, <1>2, <1>3 DEF FoundInv
<1>4. CASE ~\E w \in Workers : Ran(w)
  BY <1>0, <1>4, OnlyRunsRecord DEF FoundInv, Found, At, Confirmed
<1> QED BY <1>3, <1>4

\* What Payment has recorded stays as NothingIsUndone wants it.
LEMMA RecordsStay ==
  ASSUME TypeOK, ReadInv, FoundInv, RecordInv, ActionInv, [Next]_vars
  PROVE  /\ refund # "None" => refund' = refund
         /\ case.refund = "ProviderConfirmed" => case'.refund = "ProviderConfirmed"
         /\ case.operations # "None" => case'.operations = case.operations
         /\ case.state = "Closed" => case' = case
         /\ result = "Closed" => result' = result
<1> USE DEF records
<1>0. refund # "None" => refund' = refund
  BY FactStays
<1>1. ASSUME NEW w \in Workers, Ran(w)
      PROVE  /\ case.refund = "ProviderConfirmed" => case'.refund = "ProviderConfirmed"
             /\ case.operations # "None" => case'.operations = case.operations
             /\ case.state = "Closed" => case' = case
             /\ result = "Closed" => result' = result
  <2>1. CASE OpenCase(w)
    BY <2>1 DEF OpenCase, TypeOK, Case
  <2>2. CASE Reconcile(w)
    <3>1. CASE case' = case
      BY <2>2, <3>1, ReconcileWrites
    <3>2. CASE case' # case
      <4>1. /\ case' = Reconciled(w)
            /\ runs[w].current = case
            /\ case.state # "Closed"
            /\ UNCHANGED result
        BY <2>2, <3>2, ReconcileWrites
      <4>2. /\ Reconciled(w).operations = receipt
            /\ case.refund = "ProviderConfirmed" => Reconciled(w).refund = "ProviderConfirmed"
        BY <4>1 DEF Reconciled
      <4> QED BY <4>1, <4>2 DEF RecordInv
    <3> QED BY <3>1, <3>2
  <2>3. CASE Commit(w)
    <3>1. Fenced(w) /\ runs[w].at \in AfterCase
      BY <2>3 DEF Commit, At, AfterCase, Steps
    <3>2. runs[w].current = case
      BY <3>1 DEF ReadInv, Read
    <3> QED BY <2>3, <3>2 DEF Commit, Status, RecordInv, ClosedIsSettled
  <2>4. CASE Between(w)
    BY <2>4, BetweenKeeps DEF Kept
  <2>5. CASE Begin(w) \/ WinLease(w) \/ Ends(w)
    BY <2>5, EndsRun DEF Begin, WinLease
  <2> QED BY <1>1, <2>1, <2>2, <2>3, <2>4, <2>5, StepsOfRun
<1> QED BY <1>0, <1>1, OnlyRunsRecord

\* Every step keeps RecordInv.
LEMMA RecordStep ==
  ASSUME TypeOK, ReadInv, FoundInv, RecordInv, ActionInv, [Next]_vars PROVE RecordInv'
<1> USE DEF records
<1>0. /\ refunded = Captured => refunded' = Captured
      /\ receipt # "None" => receipt' = receipt
  BY OutsideStays
<1>1. RefundFactIsTrue'
  <2>1. CASE refund' = refund
    BY <1>0, <2>1 DEF RecordInv, RefundFactIsTrue
  <2>2. CASE refund' # refund
    <3>1. PICK w \in Workers : Ran(w)
      BY <2>2, OnlyRunsRecord
    <3>2. Compose(w)
      BY <2>2, <3>1, StepsOfRun, EndsRun
         DEF Begin, WinLease, OpenCase, Reconcile, Commit, Between, ResolveRefund, Look,
             LookInVain, ResolveAction, ClaimEvidence, LackEvidence, ClaimAction, ClaimTaken,
             AwaitReader, CallProvider, FindPart, Wait, LookAgain, LookAgainInVain, RecordPhase
    <3> QED BY <1>0, <3>2 DEF Compose, FoundInv, Found, RefundFactIsTrue
  <2> QED BY <2>1, <2>2
<1>2. CASE case' = case
  <2>1. result' = "Closed" => case.state = "Closed"
    <3>1. CASE result' = result
      BY <3>1 DEF RecordInv, ClosedIsSettled
    <3>2. CASE \E w \in Workers : Commit(w)
      <4>1. PICK w \in Workers : Commit(w)
        BY <3>2
      <4>2. runs[w].current = case
        BY <4>1 DEF Commit, At, AfterCase, Steps, ReadInv, Read
      <4>3. case.refund # "Closed"
        BY DEF TypeOK, Case, Dispositions, Unconfirmed
      <4> QED BY <4>1, <4>2, <4>3 DEF Commit, Status
    <3>3. CASE ~\E w \in Workers : Commit(w)
      <4>1. ASSUME NEW w \in Workers, Ran(w) PROVE result' = result
        BY <3>3, <4>1, StepsOfRun, EndsRun, BetweenKeeps
           DEF Begin, WinLease, OpenCase, Reconcile, Kept
      <4> QED BY <3>1, <4>1, OnlyRunsRecord
    <3> QED BY <3>2, <3>3
  <2>2. refund # "None" => refund' = refund
    BY FactStays
  <2> QED BY <1>0, <1>1, <1>2, <2>1, <2>2, ConstantsAssumption
          DEF RecordInv, ClosedIsSettled, TypeOK, Case
<1>3. CASE case' # case
  <2>1. PICK w \in Workers : OpenCase(w) \/ Reconcile(w)
    <3>1. PICK w \in Workers : Ran(w)
      BY <1>3, OnlyRunsRecord
    <3> QED BY <1>3, <3>1, StepsOfRun, EndsRun, BetweenKeeps DEF Begin, WinLease, Commit, Kept
  <2>2. CASE OpenCase(w)
    <3>1. /\ case.state = "None"
          /\ case'.state = "Open"
          /\ case'.refund = case.refund
          /\ case'.operations = case.operations
      BY <1>3, <2>2 DEF OpenCase, TypeOK, Case
    <3>2. UNCHANGED <<outside, refund, result>>
      BY <2>2 DEF OpenCase
    <3> QED BY <1>1, <3>1, <3>2 DEF RecordInv, ClosedIsSettled, outside
  <2>3. CASE Reconcile(w)
    <3>1. /\ case' = Reconciled(w)
          /\ runs[w].current = case
          /\ case.state # "Closed"
          /\ UNCHANGED <<refund, result, receipt>>
      BY <1>3, <2>3, ReconcileWrites
    <3>2. /\ Reconciled(w).operations = receipt
          /\ Reconciled(w).state = "Closed" =>
               Reconciled(w).refund = "ProviderConfirmed" /\ receipt # "None"
      BY DEF Reconciled
    <3> QED BY <1>1, <2>3, <3>1, <3>2, ReconcileWrites DEF RecordInv, ClosedIsSettled
  <2> QED BY <2>1, <2>2, <2>3
<1> QED BY <1>2, <1>3

\* Every step keeps ActionInv.
LEMMA ActionStep ==
  ASSUME TypeOK, FoundInv, ActionInv, [Next]_vars PROVE ActionInv'
<1> USE DEF records, outside
<1>0. /\ action # NoAction => action' # NoAction /\ action'.amount = action.amount
      /\ method' = method
  BY ActionStays, OutsideStays
<1>1. action'.phase = "None" => action' = NoAction
  <2>1. CASE action' = action
    BY <2>1 DEF ActionInv
  <2>2. ASSUME NEW w \in Workers, Ran(w), action' # action PROVE action'.phase # "None"
    <3>1. ClaimAction(w) \/ RecordPhase(w)
      BY <2>2, StepsOfRun, EndsRun
         DEF Begin, WinLease, OpenCase, Reconcile, Commit, Between, ResolveRefund, Look,
             LookInVain, ResolveAction, ClaimEvidence, LackEvidence, ClaimTaken,
             AwaitReader, CallProvider, FindPart, Wait, LookAgain, LookAgainInVain, Compose
    <3>2. CASE RecordPhase(w)
      BY <3>2 DEF RecordPhase, TypeOK, ActionInv, Acts, Phases
    <3> QED BY <3>1, <3>2 DEF ClaimAction
  <2> QED BY <2>1, <2>2, OnlyRunsRecord
<1>2. /\ requested' # {} => action' # NoAction
      /\ OneRefundAsked'
  <2>1. CASE requested' = requested
    BY <1>0, <2>1 DEF ActionInv, OneRefundAsked
  <2>2. CASE \E w \in Workers : CallProvider(w)
    <3>1. PICK w \in Workers : CallProvider(w)
      BY <2>2
    <3>2. action # NoAction /\ runs[w].amount = action.amount /\ method = "OnlineCard"
      BY <3>1 DEF CallProvider, ActionInv, Acts
    <3> QED BY <1>0, <3>1, <3>2 DEF CallProvider, ActionInv, OneRefundAsked
  <2>3. CASE ~\E w \in Workers : CallProvider(w)
    <3>1. ASSUME NEW w \in Workers, Ran(w) PROVE requested' = requested
      BY <2>3, <3>1, StepsOfRun, EndsRun
         DEF Begin, WinLease, OpenCase, Reconcile, Commit, Between, ResolveRefund, Look,
             LookInVain, ResolveAction, ClaimEvidence, LackEvidence, ClaimAction, ClaimTaken,
             AwaitReader, FindPart, Wait, LookAgain, LookAgainInVain, Compose, RecordPhase
    <3> QED BY <2>1, <3>1, OnlyRunsRecord
  <2> QED BY <2>2, <2>3
<1>3. /\ inPerson.claimed => inPerson'.claimed /\ inPerson'.amount = inPerson.amount
      /\ inPerson'.claimed => inPerson'.status # "None"
  <2>1. CASE inPerson' = inPerson
    BY <2>1 DEF ActionInv
  <2>2. ASSUME NEW w \in Workers, ClaimEvidence(w)
        PROVE  /\ inPerson'.claimed /\ inPerson'.amount = inPerson.amount
               /\ inPerson'.status # "None"
    BY <2>2 DEF ClaimEvidence, Usable, TypeOK
  <2>3. CASE PresentEvidence
    BY <2>3 DEF PresentEvidence, ActionInv
  <2>4. CASE EvidenceExpires
    BY <2>4 DEF EvidenceExpires, TypeOK
  <2>5. ASSUME NEW w \in Workers, Ran(w) PROVE inPerson' = inPerson \/ ClaimEvidence(w)
    BY <2>5, RunsLeaveOutside
  <2> QED BY <2>1, <2>2, <2>3, <2>4, <2>5
          DEF Next, vars, Ran, LeaseLapses, ProviderApplies, RefundedElsewhere, OperationsReconcile
<1>4. InPersonIsBacked'
  <2>1. CASE action # NoAction
    BY <1>0, <1>3, <2>1 DEF ActionInv, InPersonIsBacked
  <2>2. CASE action = NoAction /\ action' # NoAction
    <3>1. \E w \in Workers : ClaimAction(w)
      <4>1. PICK w \in Workers : Ran(w)
        BY <2>2, OnlyRunsRecord
      <4>2. ~RecordPhase(w)
        BY <2>2 DEF RecordPhase, ActionInv, Acts, At, NoAction, Phases
      <4>3. action' # action
        BY <2>2
      <4>4. ClaimAction(w)
        BY <4>1, <4>2, <4>3, StepsOfRun, EndsRun
           DEF Begin, WinLease, OpenCase, Reconcile, Commit, Between, ResolveRefund, Look,
               LookInVain, ResolveAction, ClaimEvidence, LackEvidence, ClaimTaken,
               AwaitReader, CallProvider, FindPart, Wait, LookAgain, LookAgainInVain, Compose
      <4> QED BY <4>4
    <3>2. PICK w \in Workers : ClaimAction(w)
      BY <3>1
    <3>3. action'.amount = Remaining(w)
      BY <3>2 DEF ClaimAction
    <3> QED BY <1>0, <3>2, <3>3 DEF ClaimAction, Usable, InPersonIsBacked
  <2> QED BY <2>1, <2>2 DEF InPersonIsBacked
<1>5. \A w \in Workers : Acts(w)'
  <2>1. ASSUME NEW w \in Workers, Ran(w), NEW v \in Workers \ {w} PROVE Acts(v)'
    BY <1>0, <2>1, OthersKeep DEF ActionInv, Acts, At
  <2>2. ASSUME NEW w \in Workers, Ran(w) PROVE Acts(w)'
    <3>1. CASE Between(w)
      BY <3>1, BetweenKeeps DEF Kept
    <3>2. CASE ~Between(w)
      <4>1. runs'[w].at \notin {"Decide", "LookAgain", "Compose", "Phase"}
        BY <2>2, <3>2, NotBetween
      <4> QED BY <4>1 DEF Acts, At
    <3> QED BY <3>1, <3>2
  <2>3. CASE \E w \in Workers : Ran(w)
    BY <2>1, <2>2, <2>3
  <2>4. CASE ~\E w \in Workers : Ran(w)
    BY <2>4, OnlyRunsRecord DEF ActionInv, Acts, At
  <2> QED BY <2>3, <2>4
<1> QED BY <1>1, <1>2, <1>3, <1>4, <1>5 DEF ActionInv
-----------------------------------------------------------------------------

\* Before the first run the invariant holds.
LEMMA CompensationInit == ASSUME Init PROVE CompensationInv
<1>1. TypeOK
  BY TypeInit
<1>2. \A w \in Workers : runs[w] = NoRun
  BY DEF Init
<1>3. ReadInv /\ FoundInv /\ \A w \in Workers : Acts(w)
  BY <1>2 DEF ReadInv, Read, FoundInv, Found, Acts, At, NoRun, AfterCase
<1>4. RecordInv
  BY DEF Init, RecordInv, RefundFactIsTrue, ClosedIsSettled, NoCase
<1>5. ActionInv
  BY <1>3 DEF Init, ActionInv, OneRefundAsked, InPersonIsBacked
<1> QED BY <1>1, <1>3, <1>4, <1>5 DEF CompensationInv

\* The invariant is inductive.
LEMMA CompensationStep == ASSUME CompensationInv, [Next]_vars PROVE CompensationInv'
BY TypeStep, ReadStep, FoundStep, RecordStep, ActionStep DEF CompensationInv

\* Every reachable state satisfies the invariant.
THEOREM CompensationCorrect == Spec => []CompensationInv
<1>1. Init => CompensationInv
  BY CompensationInit
<1>2. CompensationInv /\ [Next]_vars => CompensationInv'
  BY CompensationStep
<1> QED BY <1>1, <1>2, PTL DEF Spec

\* Every variable keeps its type.
THEOREM TypeCorrect == Spec => []TypeOK
BY CompensationCorrect, PTL DEF CompensationInv

\* Runs that overlap, die and are repeated ask the provider for one refund, that
\* of the permanent action, and never for a card that was present.
THEOREM AtMostOneRefund == Spec => []OneRefundAsked
<1>1. CompensationInv => OneRefundAsked
  BY DEF CompensationInv, ActionInv
<1> QED BY <1>1, CompensationCorrect, PTL

\* A recorded refund fact is one the provider has made in full.
THEOREM RefundsAreTrue == Spec => []RefundFactIsTrue
<1>1. CompensationInv => RefundFactIsTrue
  BY DEF CompensationInv, RecordInv
<1> QED BY <1>1, CompensationCorrect, PTL

\* A closed case has the refund and Operations' receipt for it.
THEOREM ClosureIsSettled == Spec => []ClosedIsSettled
<1>1. CompensationInv => ClosedIsSettled
  BY DEF CompensationInv, RecordInv
<1> QED BY <1>1, CompensationCorrect, PTL

\* A refund in person rests on evidence claimed for its amount.
THEOREM EvidenceIsClaimed == Spec => []InPersonIsBacked
<1>1. CompensationInv => InPersonIsBacked
  BY DEF CompensationInv, ActionInv
<1> QED BY <1>1, CompensationCorrect, PTL

\* No late write of an overtaken run takes back what is recorded.
THEOREM RecordsAreFinal == Spec => NothingIsUndone
<1>1. CompensationInv /\ [Next]_vars =>
        [/\ refund # "None" => refund' = refund
         /\ case.refund = "ProviderConfirmed" => case'.refund = "ProviderConfirmed"
         /\ case.operations # "None" => case'.operations = case.operations
         /\ case.state = "Closed" => case' = case
         /\ result = "Closed" => result' = result]_vars
  BY RecordsStay DEF CompensationInv
<1> QED BY <1>1, CompensationCorrect, PTL DEF Spec, NothingIsUndone

\* The provider goes on with its refunds while the fact stands, and a run that
\* records the fact leaves the provider alone.
LEMMA TruthSteps ==
  ASSUME CompensationInv, [Next]_vars
  PROVE  \/ refund' = refund
         \/ refund = "None" /\ refunded' = refunded
<1>1. CASE \E w \in Workers : Ran(w)
  BY <1>1, FactStays, RunsLeaveOutside DEF CompensationInv
<1>2. CASE ~\E w \in Workers : Ran(w)
  BY <1>2, OnlyRunsRecord DEF CompensationInv, records
<1> QED BY <1>1, <1>2

\* The job keeps the promise of TerminalTruth: of runs that overtake each other
\* the first to record the refund is right, and is not overruled.
THEOREM TruthRefinement == Spec => ImplementsTruth
<1>1. ASSUME Init PROVE Promise!Init
  BY <1>1 DEF Init, Backed, FactOf, Promise!Init
<1>2. ASSUME CompensationInv, CompensationInv', [Next]_vars
      PROVE  [Promise!Next]_<<Backed, FactOf>>
  <2>1. refunded = Captured => refunded' = Captured
    BY <1>2, OutsideStays DEF CompensationInv
  <2>2. CASE refund' = refund
    <3>1. FactOf' = FactOf
      BY <2>2 DEF FactOf
    <3>2. CASE (refunded' = Captured) = (refunded = Captured)
      BY <3>1, <3>2 DEF Backed
    <3>3. CASE refunded # Captured /\ refunded' = Captured
      <4>1. Backed' = [Backed EXCEPT ![Payment] = @ \cup Evidence]
        BY <3>3 DEF Backed
      <4> QED BY <3>1, <4>1 DEF Promise!Happens, Promise!Next
    <3> QED BY <2>1, <3>2, <3>3
  <2>3. CASE refund' # refund
    <3>1. refund = "None" /\ refunded' = refunded
      BY <1>2, <2>3, TruthSteps
    <3>2. refund' \in Evidence /\ refunded' = Captured
      BY <1>2, <2>3, <3>1 DEF CompensationInv, TypeOK, RecordInv, RefundFactIsTrue
    <3>3. Backed' = Backed /\ refund' \in Backed[Payment]
      BY <3>1, <3>2 DEF Backed
    <3>4. FactOf[Payment] = "None" /\ FactOf' = [FactOf EXCEPT ![Payment] = refund']
      BY <3>1 DEF FactOf
    <3> QED BY <3>3, <3>4 DEF Promise!Record, Promise!Next
  <2> QED BY <2>2, <2>3
<1> QED
  BY <1>1, <1>2, CompensationCorrect, PTL DEF Spec, ImplementsTruth, Promise!Spec
=============================================================================
