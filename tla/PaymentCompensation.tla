------------------------- MODULE PaymentCompensation -------------------------
(***************************************************************************)
(* The compensation of one captured payment whose order cannot be          *)
(* fulfilled: the job payment-paid-without-fulfillable-compensation:v1.    *)
(* A run wins a fenced lease, opens the Critical case, asks the provider   *)
(* what is refunded, claims one permanent refund action, calls the         *)
(* provider, asks again, records the refund with its PaymentRefunded       *)
(* event, and closes the case once Operations has reconciled it too.       *)
(* Runs overlap when a lease lapses and die between any two of their       *)
(* calls; only the writes to Payment's own records carry the fence.        *)
(*                                                                         *)
(* Scopes, digests of unchanging content and versions of the source agree: *)
(* their mismatches are refusals that change no state, as are denied       *)
(* authorizations.  Cases of different payments share nothing.             *)
(***************************************************************************)
EXTENDS Integers, FiniteSets

(* Definitions named Slip... are plausible bugs that stand beside the correct *)
(* definition following them; no action uses them.                            *)

CONSTANTS
  Workers,   \* runs of the job that can be under way at the same time
  Captured,  \* the captured amount
  Evidence,  \* digests of retrievals that show the full refund
  MaxFaults  \* bound on runs that die and leases that lapse under a live run

ASSUME ConstantsAssumption ==
  /\ Captured \in Nat \ {0}
  /\ "None" \notin Evidence
  /\ MaxFaults \in Nat

VARIABLES
  method,    \* originalPaymentMethod; TerminalCard is treated as OnlineCard
  refunded,  \* the provider's cumulative refundedAmount
  requested, \* amounts refundPayment was asked for under the action's key
  applied,   \* those of them that took effect
  inPerson,  \* the Interac in-person evidence, and whether it is claimed
  receipt,   \* refund evidence the Operations reconciliation receipt names
  lease,     \* the run that won it last, and whether it still holds
  case,      \* PaymentCompensationCase
  action,    \* PaymentCompensationActionReceipt
  refund,    \* evidence of the recorded refund fact and PaymentRefunded event
  result,    \* status of the committed operation record
  runs,      \* what each run is doing
  faults

outside == <<method, refunded, applied, inPerson, receipt>>
records == <<case, action, refund, result>>
vars == <<outside, requested, lease, records, runs, faults>>

Amounts == 0..Captured
Phases == {"Claimed", "InvocationUnknown", "ProviderPending", "ProviderConfirmed"}
NoAction == [phase |-> "None", amount |-> 0]

Unconfirmed == {"InPersonActionRequired", "RefundPending", "ReconciliationRequired",
                "AwaitingProviderConfirmation"}
Dispositions == Unconfirmed \cup {"ProviderConfirmed"}

Case == [state : {"None", "Open", "Closed"},
         refund : Dispositions \cup {"NotStarted"},
         operations : Evidence \cup {"None"}]
NoCase == [state |-> "None", refund |-> "NotStarted", operations |-> "None"]

\* The calls of a run, each named for what it waits to do.
Steps == {"Idle", "Lease", "Case", "Refund", "Look", "Choose", "Claim", "Decide",
          "LookAgain", "Compose", "Phase", "Reconcile", "Commit"}

\* current, truth, phase and amount are what the run has read; next is the
\* phase it is to record and says the disposition it found.
Run == [at : Steps, current : Case, truth : Amounts, evidence : Evidence \cup {"None"},
        phase : Phases \cup {"None"}, amount : Amounts,
        next : Phases \cup {"None"}, says : Dispositions]
NoRun == [at |-> "Idle", current |-> NoCase, truth |-> 0, evidence |-> "None",
          phase |-> "None", amount |-> 0, next |-> "None",
          says |-> "ReconciliationRequired"]

TypeOK ==
  /\ method \in {"OnlineCard", "TerminalInterac"}
  /\ refunded \in Amounts
  /\ requested \subseteq Amounts
  /\ applied \subseteq Amounts
  /\ inPerson \in [status : {"None", "Fresh", "Expired"}, amount : Amounts, claimed : BOOLEAN]
  /\ receipt \in Evidence \cup {"None"}
  /\ lease \in [run : Workers \cup {"None"}, live : BOOLEAN]
  /\ case \in Case
  /\ action \in [phase : Phases \cup {"None"}, amount : Amounts]
  /\ refund \in Evidence \cup {"None"}
  /\ result \in Unconfirmed \cup {"None", "AwaitingOperationsReconciliation", "Closed"}
  /\ runs \in [Workers -> Run]
  /\ faults \in 0..MaxFaults

Init ==
  /\ method \in {"OnlineCard", "TerminalInterac"}
  /\ refunded = 0
  /\ requested = {}
  /\ applied = {}
  /\ inPerson = [status |-> "None", amount |-> 0, claimed |-> FALSE]
  /\ receipt = "None"
  /\ lease = [run |-> "None", live |-> FALSE]
  /\ case = NoCase
  /\ action = NoAction
  /\ refund = "None"
  /\ result = "None"
  /\ runs = [w \in Workers |-> NoRun]
  /\ faults = 0
-----------------------------------------------------------------------------
(* Beginning and end of a run: execute.                                     *)

At(w, step) == runs[w].at = step

\* Slip: the repositories ignore the fence.
SlipFenced(w) == TRUE

\* The fence of the run is the newest one: no later run has won the lease.
Fenced(w) == lease.run = w

\* Only a closed operation is replayed; any other is taken up again.
Replayed == result = "Closed"

Begin(w) ==
  /\ At(w, "Idle")
  /\ ~Replayed
  /\ runs' = [runs EXCEPT ![w].at = "Lease"]
  /\ UNCHANGED <<outside, requested, lease, records, faults>>

WinLease(w) ==
  /\ At(w, "Lease")
  /\ ~lease.live
  /\ lease' = [run |-> w, live |-> TRUE]
  /\ runs' = [runs EXCEPT ![w].at = "Case"]
  /\ UNCHANGED <<outside, requested, records, faults>>

MissLease(w) ==
  /\ At(w, "Lease")
  /\ lease.live
  /\ runs' = [runs EXCEPT ![w] = NoRun]
  /\ UNCHANGED <<outside, requested, lease, records, faults>>

\* The run goes on to the case; what else it has read no longer matters.
Settles(w, says) ==
  runs' = [runs EXCEPT ![w] = [NoRun EXCEPT !.at = "Reconcile",
                                            !.current = runs[w].current, !.says = says]]

\* The finally block: releasing a superseded fence releases nothing.
Leave(w) ==
  /\ lease' = [lease EXCEPT !.live = @ /\ ~Fenced(w)]
  /\ runs' = [runs EXCEPT ![w] = NoRun]

RunDies(w) ==
  /\ ~At(w, "Idle")
  /\ faults < MaxFaults
  /\ faults' = faults + 1
  /\ runs' = [runs EXCEPT ![w] = NoRun]
  /\ UNCHANGED <<outside, requested, lease, records>>

\* Only under a slow run is the lapse a fault: a lease left behind always lapses.
LeaseLapses ==
  /\ lease.live
  /\ lease' = [lease EXCEPT !.live = FALSE]
  /\ \/ \E w \in Workers : Fenced(w) /\ runs[w].at \in {"Idle", "Lease"} /\ UNCHANGED faults
     \/ faults < MaxFaults /\ faults' = faults + 1
  /\ UNCHANGED <<outside, requested, records, runs>>

\* A repository refuses the write of a run whose fence is superseded.
Superseded(w) ==
  /\ runs[w].at \in {"Case", "Claim", "Compose", "Phase", "Reconcile", "Commit"}
  /\ ~Fenced(w)
  /\ Leave(w)
  /\ UNCHANGED <<outside, requested, records, faults>>
-----------------------------------------------------------------------------
(* resolveCase, resolveRefundComposition and the first retrieval            *)

OpenCase(w) ==
  /\ At(w, "Case")
  /\ case.state = "None" => Fenced(w)
  /\ case' = IF case.state = "None" THEN [case EXCEPT !.state = "Open"] ELSE case
  /\ runs' = [runs EXCEPT ![w].at = "Refund", ![w].current = case']
  /\ UNCHANGED <<outside, requested, lease, action, refund, result, faults>>

ResolveRefund(w) ==
  /\ At(w, "Refund")
  /\ IF refund = "None" THEN runs' = [runs EXCEPT ![w].at = "Look"]
     ELSE Settles(w, "ProviderConfirmed")
  /\ UNCHANGED <<outside, requested, lease, records, faults>>

\* Slip: any refund counts as the full one.
SlipFull(amount) == amount > 0

Full(amount) == amount = Captured

\* retrieveProvider refuses what is observed after the lease has expired.
CanObserve(w) == Fenced(w) /\ lease.live

SeesFull(w, next) ==
  \E e \in Evidence :
    runs' = [runs EXCEPT ![w] = [NoRun EXCEPT !.at = "Compose",
               !.current = runs[w].current, !.phase = runs[w].phase,
               !.evidence = e, !.next = next]]

Look(w) ==
  /\ At(w, "Look")
  /\ CanObserve(w)
  /\ \/ Full(refunded) /\ SeesFull(w, "None")
     \/ /\ ~Full(refunded)
        /\ runs' = [runs EXCEPT ![w].at = "Choose", ![w].truth = refunded]
  /\ UNCHANGED <<outside, requested, lease, records, faults>>

\* A Failure, or a payment the provider does not report as Captured.
LookInVain(w) ==
  /\ At(w, "Look")
  /\ Settles(w, "ReconciliationRequired")
  /\ UNCHANGED <<outside, requested, lease, records, faults>>

ObservedTooLate(w) ==
  /\ At(w, "Look")
  /\ ~CanObserve(w)
  /\ Leave(w)
  /\ UNCHANGED <<outside, requested, records, faults>>
-----------------------------------------------------------------------------
(* resolveOrClaimAction, claimInteracEvidence                               *)

Remaining(w) == Captured - runs[w].truth

ResolveAction(w) ==
  /\ At(w, "Choose")
  /\ runs' = IF action = NoAction
             THEN [runs EXCEPT ![w].at = "Claim"]
             ELSE [runs EXCEPT ![w].at = "Decide", ![w].phase = action.phase,
                               ![w].amount = action.amount]
  /\ UNCHANGED <<outside, requested, lease, records, faults>>

\* Evidence once claimed for the action stays good after it expires.
Usable(w) ==
  /\ inPerson.amount = Remaining(w)
  /\ inPerson.claimed \/ inPerson.status = "Fresh"

NeedsEvidence(w) == method = "TerminalInterac" /\ At(w, "Claim")

ClaimEvidence(w) ==
  /\ NeedsEvidence(w)
  /\ Fenced(w)
  /\ Usable(w)
  /\ ~inPerson.claimed
  /\ inPerson' = [inPerson EXCEPT !.claimed = TRUE]
  /\ UNCHANGED <<method, refunded, applied, receipt>>
  /\ UNCHANGED <<requested, lease, records, runs, faults>>

LackEvidence(w) ==
  /\ NeedsEvidence(w)
  /\ ~Usable(w)
  /\ Settles(w, "InPersonActionRequired")
  /\ UNCHANGED <<outside, requested, lease, records, faults>>

\* The amount, and with it the provider's idempotency key, is fixed here.
ClaimAction(w) ==
  /\ At(w, "Claim")
  /\ Fenced(w)
  /\ action = NoAction
  /\ method = "TerminalInterac" => inPerson.claimed /\ Usable(w)
  /\ action' = [phase |-> "Claimed", amount |-> Remaining(w)]
  /\ runs' = [runs EXCEPT ![w].at = "Decide", ![w].phase = "Claimed",
                          ![w].amount = Remaining(w)]
  /\ UNCHANGED <<outside, requested, lease, case, refund, result, faults>>

\* Slip: any claimed action will do.
SlipSameClaim(w) == action.phase = "Claimed"

SameClaim(w) == action = [phase |-> "Claimed", amount |-> Remaining(w)]

\* The claim of an overtaken run finds an action that is exactly its own.
ClaimTaken(w) ==
  /\ At(w, "Claim")
  /\ SameClaim(w)
  /\ runs' = [runs EXCEPT ![w].at = "Decide", ![w].phase = "Claimed",
                          ![w].amount = Remaining(w)]
  /\ UNCHANGED <<outside, requested, lease, records, faults>>
-----------------------------------------------------------------------------
(* executeClaimed: what to do about the action                              *)

\* claimedBalance: what was refunded when the action was claimed.
ClaimedBalance(w) == Captured - runs[w].amount

\* Slip: a refund once asked for is not asked for again.
SlipMayRetry(w) == runs[w].phase = "Claimed"

MayRetry(w) == runs[w].phase \in {"Claimed", "InvocationUnknown"}

RecordThen(w, next, says) ==
  IF runs[w].phase = next THEN Settles(w, says)
  ELSE runs' = [runs EXCEPT ![w] = [NoRun EXCEPT !.at = "Phase",
                  !.current = runs[w].current, !.phase = runs[w].phase,
                  !.next = next, !.says = says]]

\* An in-person refund is made at the reader; the job only waits for it.
AwaitReader(w) ==
  /\ At(w, "Decide")
  /\ method = "TerminalInterac"
  /\ runs[w].phase # "ProviderConfirmed"
  /\ RecordThen(w, "ProviderPending", "AwaitingProviderConfirmation")
  /\ UNCHANGED <<outside, requested, lease, records, faults>>

\* The provider deduplicates by the action's key.  The call may be lost on its
\* way, and its reply is never the truth.
CallProvider(w) ==
  /\ At(w, "Decide")
  /\ method = "OnlineCard"
  /\ runs[w].truth = ClaimedBalance(w)
  /\ MayRetry(w)
  /\ requested' \in {requested, requested \cup {runs[w].amount}}
  /\ runs' = [runs EXCEPT ![w].at = "LookAgain", ![w].truth = 0]
  /\ UNCHANGED <<outside, lease, records, faults>>

\* Someone else has refunded a part since the claim.
FindPart(w) ==
  /\ At(w, "Decide")
  /\ method = "OnlineCard"
  /\ runs[w].phase # "ProviderConfirmed"
  /\ runs[w].truth > ClaimedBalance(w)
  /\ RecordThen(w, "ProviderPending", "RefundPending")
  /\ UNCHANGED <<outside, requested, lease, records, faults>>

Wait(w) ==
  /\ At(w, "Decide")
  /\ method = "OnlineCard"
  /\ runs[w].phase = "ProviderPending"
  /\ runs[w].truth = ClaimedBalance(w)
  /\ Settles(w, "AwaitingProviderConfirmation")
  /\ UNCHANGED <<outside, requested, lease, records, faults>>

\* A newer run has confirmed the refund, or claimed it after a later look.
Overtaken(w) ==
  /\ At(w, "Decide")
  /\ \/ runs[w].phase = "ProviderConfirmed"
     \/ method = "OnlineCard" /\ runs[w].truth < ClaimedBalance(w)
  /\ Leave(w)
  /\ UNCHANGED <<outside, requested, records, faults>>

LookAgain(w) ==
  /\ At(w, "LookAgain")
  /\ CanObserve(w)
  /\ \/ Full(refunded) /\ SeesFull(w, "ProviderConfirmed")
     \/ /\ ~Full(refunded)
        /\ refunded > ClaimedBalance(w)
        /\ RecordThen(w, "ProviderPending", "RefundPending")
     \/ /\ ~Full(refunded)
        /\ refunded = ClaimedBalance(w)
        /\ RecordThen(w, "InvocationUnknown", "AwaitingProviderConfirmation")
  /\ UNCHANGED <<outside, requested, lease, records, faults>>

LookAgainInVain(w) ==
  /\ At(w, "LookAgain")
  /\ RecordThen(w, "InvocationUnknown", "AwaitingProviderConfirmation")
  /\ UNCHANGED <<outside, requested, lease, records, faults>>
-----------------------------------------------------------------------------
(* ensureRefund, recordActionPhase, reconcileCase, commitResult             *)

\* The fact and its event are one append; a recorded one is left alone.
Compose(w) ==
  /\ At(w, "Compose")
  /\ refund = "None" => Fenced(w)
  /\ refund' = IF refund = "None" THEN runs[w].evidence ELSE refund
  /\ IF runs[w].next = "None"
     THEN Settles(w, "ProviderConfirmed")
     ELSE RecordThen(w, runs[w].next, "ProviderConfirmed")
  /\ UNCHANGED <<outside, requested, lease, case, action, result, faults>>

RecordPhase(w) ==
  /\ At(w, "Phase")
  /\ Fenced(w)
  /\ action.phase = runs[w].phase
  /\ action' = [action EXCEPT !.phase = runs[w].next]
  /\ Settles(w, runs[w].says)
  /\ UNCHANGED <<outside, requested, lease, case, refund, result, faults>>

Confirmed(w) == runs[w].says = "ProviderConfirmed"

\* Slip: Operations may reconcile whatever refund it saw.
SlipReceiptFits(w) == TRUE

\* A receipt must name the evidence of the recorded refund; before there is one
\* any authorized receipt is taken.
ReceiptFits(w) == receipt # "None" /\ Confirmed(w) => receipt = refund

Reconciled(w) ==
  LET now == runs[w].current
      refunds == IF now.refund = "ProviderConfirmed" THEN now.refund ELSE runs[w].says
  IN [state |-> IF refunds = "ProviderConfirmed" /\ receipt # "None" THEN "Closed" ELSE "Open",
      refund |-> refunds, operations |-> receipt]

\* A closed case is returned as it is.
Reconcile(w) ==
  /\ At(w, "Reconcile")
  /\ ReceiptFits(w)
  /\ runs[w].current.state # "Closed" => Fenced(w)
  /\ case' = IF runs[w].current.state = "Closed" THEN case ELSE Reconciled(w)
  /\ runs' = [runs EXCEPT ![w].at = "Commit", ![w].says = NoRun.says,
       ![w].current = IF runs[w].current.state = "Closed" THEN @ ELSE Reconciled(w)]
  /\ UNCHANGED <<outside, requested, lease, action, refund, result, faults>>

ReceiptUnfit(w) ==
  /\ At(w, "Reconcile")
  /\ ~ReceiptFits(w)
  /\ Leave(w)
  /\ UNCHANGED <<outside, requested, records, faults>>

Status(c) ==
  IF c.state = "Closed" THEN "Closed"
  ELSE IF c.refund = "ProviderConfirmed" THEN "AwaitingOperationsReconciliation"
  ELSE c.refund

Commit(w) ==
  /\ At(w, "Commit")
  /\ Fenced(w)
  /\ result' = Status(runs[w].current)
  /\ Leave(w)
  /\ UNCHANGED <<outside, requested, case, action, refund, faults>>
-----------------------------------------------------------------------------
(* The provider, the merchant's own refunds, the reader, Operations         *)

\* A request takes effect once, at any time after it was sent, if it still fits.
ProviderApplies(a) ==
  /\ a \in requested \ applied
  /\ refunded + a <= Captured
  /\ refunded' = refunded + a
  /\ applied' = applied \cup {a}
  /\ UNCHANGED <<method, inPerson, receipt, requested, lease, records, runs, faults>>

\* At the merchant's dashboard, or by a customer's card at the reader.
RefundedElsewhere(a) ==
  /\ a > 0
  /\ refunded + a <= Captured
  /\ refunded' = refunded + a
  /\ UNCHANGED <<method, applied, inPerson, receipt, requested, lease, records, runs, faults>>

\* Staff present evidence for what is not refunded yet, once (bound).
PresentEvidence ==
  /\ method = "TerminalInterac"
  /\ inPerson.status = "None"
  /\ ~Full(refunded)
  /\ inPerson' = [status |-> "Fresh", amount |-> Captured - refunded, claimed |-> FALSE]
  /\ UNCHANGED <<method, refunded, applied, receipt, requested, lease, records, runs, faults>>

EvidenceExpires ==
  /\ inPerson.status = "Fresh"
  /\ inPerson' = [inPerson EXCEPT !.status = "Expired"]
  /\ UNCHANGED <<method, refunded, applied, receipt, requested, lease, records, runs, faults>>

\* Operations may see the full refund before the job does, with evidence of their
\* own; once the fact is recorded they name its evidence.
OperationsReconcile(e) ==
  /\ case.state # "None"
  /\ Full(refunded)
  /\ receipt = "None"
  /\ refund # "None" => e = refund
  /\ receipt' = e
  /\ UNCHANGED <<method, refunded, applied, inPerson, requested, lease, records, runs, faults>>
-----------------------------------------------------------------------------
Step(w) ==
  \/ WinLease(w) \/ MissLease(w) \/ Superseded(w) \/ OpenCase(w) \/ ResolveRefund(w)
  \/ Look(w) \/ LookInVain(w) \/ ObservedTooLate(w)
  \/ ResolveAction(w) \/ ClaimEvidence(w) \/ LackEvidence(w) \/ ClaimAction(w)
  \/ ClaimTaken(w)
  \/ AwaitReader(w) \/ CallProvider(w) \/ FindPart(w) \/ Wait(w) \/ Overtaken(w)
  \/ LookAgain(w) \/ LookAgainInVain(w)
  \/ Compose(w) \/ RecordPhase(w) \/ Reconcile(w) \/ ReceiptUnfit(w) \/ Commit(w)

Next ==
  \/ \E w \in Workers : Begin(w) \/ Step(w) \/ RunDies(w)
  \/ LeaseLapses
  \/ \E a \in Amounts : ProviderApplies(a) \/ RefundedElsewhere(a)
  \/ PresentEvidence \/ EvidenceExpires
  \/ \E e \in Evidence : OperationsReconcile(e)

Spec == Init /\ [][Next]_vars

CallArrives(w) == CallProvider(w) /\ runs[w].amount \in requested'

\* The scheduler comes back to a case until its operation is closed, a run that
\* does not die goes on, a lease left behind lapses, and the provider neither
\* stays unreachable nor sits on a request for ever.
Fairness ==
  /\ \A w \in Workers :
       /\ WF_vars(Begin(w))
       /\ WF_vars(Step(w))
       /\ SF_vars(Look(w))
       /\ SF_vars(CallArrives(w))
  /\ WF_vars(LeaseLapses)
  /\ \A a \in Amounts : WF_vars(ProviderApplies(a))

FairSpec == Spec /\ Fairness
-----------------------------------------------------------------------------
\* Whatever runs overlap, die and retry, and whatever is refunded elsewhere in
\* the meantime, the provider is only ever asked for one refund, the one of the
\* permanent action, and never to refund a card that was present.
OneRefundAsked ==
  requested # {} => method = "OnlineCard" /\ requested = {action.amount}

\* PaymentRefunded and its fact are recorded only when the provider has returned
\* the whole captured amount, by whatever mixture of refunds.
RefundFactIsTrue == refund # "None" => refunded = Captured

\* The refund fact keeps the promise of TerminalTruth: the provider stands behind
\* evidence of a full refund once it has made one, whoever asked for its parts,
\* and the first run to record such evidence is not overruled by another.
Payment == "payment"
Backed == [p \in {Payment} |-> IF refunded = Captured THEN Evidence ELSE {}]
FactOf == [p \in {Payment} |-> refund]
Promise == INSTANCE TerminalTruth WITH
  Payments <- {Payment}, None <- "None", backed <- Backed, fact <- FactOf
ImplementsTruth == Promise!Spec

\* A closed case, and an operation that reports it closed, has both halves: the
\* recorded refund and a receipt of Operations for that very refund.
ClosedIsSettled ==
  /\ case.state = "Closed" =>
       refund # "None" /\ receipt = refund /\ case.operations = receipt
  /\ result = "Closed" => case.state = "Closed"

\* A late write of an overtaken run takes back nothing: not a confirmed refund, a
\* recorded fact, a closed case or a closed result, nor the reconciliation.
NothingIsUndone ==
  [][/\ refund # "None" => refund' = refund
     /\ case.refund = "ProviderConfirmed" => case'.refund = "ProviderConfirmed"
     /\ case.operations # "None" => case'.operations = case.operations
     /\ case.state = "Closed" => case' = case
     /\ result = "Closed" => result' = result]_vars

\* A refund in person rests on evidence claimed for exactly its amount, also if
\* the run died between the two claims and the evidence expired before the next.
InPersonIsBacked ==
  method = "TerminalInterac" /\ action # NoAction =>
    inPerson.claimed /\ inPerson.amount = action.amount

\* The job is done, or what it waits for is not its own to do: a receipt that
\* names the recorded refund, a customer at the reader, or the rest of a refund
\* of which someone else made a part after the action's amount was fixed.
AwaitsOthers ==
  \/ refund # "None" /\ receipt # refund
  \/ /\ refunded < Captured
     /\ method = "TerminalInterac" \/ Captured - action.amount < refunded

\* Through lost calls, silent retrievals, dead runs and lapsed leases, the money
\* is returned, recorded and the case closed, unless others leave it unfinished.
CompensationCompletes ==
  <>[]((case.state = "Closed" /\ result = "Closed") \/ AwaitsOthers)
=============================================================================
