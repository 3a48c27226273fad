-------------------------- MODULE PaymentSettlement --------------------------
(***************************************************************************)
(* How @rms/payment learns the terminal truth of an online card payment.   *)
(* A create call claims one intent per operation and preparation and asks  *)
(* the provider once; webhooks arrive repeatedly, late and in any order;   *)
(* the reconciliation job retrieves the provider's state and judges it     *)
(* against a snapshot taken when it claimed its candidates.  Webhooks and  *)
(* the job write the same append-only terminal fact.                       *)
(*                                                                         *)
(* Amounts and scopes agree: their mismatches are refusals that change no  *)
(* state.  So are denied authorizations, the kill switch, a replay of an   *)
(* operation, a repeated delivery and a run that loses its lease.          *)
(***************************************************************************)
EXTENDS Integers

(* Definitions named Slip... are plausible bugs that stand beside the correct *)
(* definition following them; no action uses them.                            *)

CONSTANTS
  Operations,     \* paymentOperationReference: one per customer command
  PreparationOf,  \* the Ordering preparation an operation pays for
  Callers,        \* create calls that can be under way at the same time
  Runners,        \* reconciliation runs that can be under way at the same time
  SettlesAs,      \* bound: the terminal statuses a payment may reach
  MaxFaults       \* bound on processes that die

ASSUME ConstantsAssumption ==
  /\ PreparationOf \in [Operations -> Operations]
  /\ SettlesAs \in [Operations -> SUBSET {"Captured", "Failed", "Cancelled"}]
  /\ MaxFaults \in Nat

VARIABLES
  intent,    \* payment_intent and its latest provider observation
  creates,   \* payment intents the provider created for an operation
  callers,   \* what each create call is doing
  provider,  \* the provider's status of the payment
  emitted,   \* the terminal webhook events the provider has sent
  receipts,  \* provider_webhook_record and its processing record
  fact,      \* payment_terminal_fact
  refused,   \* evidence answered with PAYMENT_TERMINAL_OUTCOME_CONFLICT
  runs,      \* what each reconciliation run is doing
  checked,   \* outcome of the latest committed payment_reconciliation_record
  exceptions, \* reasons of the Open payment_reconciliation_exceptions
  faults

creation == <<intent, creates, callers>>
outside == <<provider, emitted>>
truth == <<receipts, fact, refused>>
records == <<checked, exceptions>>
reconciliation == <<runs, records>>
vars == <<creation, outside, truth, reconciliation, faults>>

Terminal == {"Captured", "Failed", "Cancelled"}
Events == [op : Operations, status : Terminal]

\* "Created": a snapshot with the provider's reference is recorded.  "Failed":
\* a failure or Unknown is, which leaves Payment without that reference.
IntentStates == {"Absent", "Processing", "Created", "Failed"}
Call == [at : {"Admitted", "Calling", "Created", "Failed"}, op : Operations]
NoCall == [at |-> "Idle", op |-> "None"]

Evidence == [status : Terminal, source : {"VerifiedWebhook", "ProviderRetrieval"}]
NoFact == [status |-> "None", source |-> "None"]

Differences == {"TerminalConflict", "StateMismatch"}
Outcomes == {"Matched", "Healed", "Unresolved", "Unavailable"} \cup Differences

Look == [op : Operations, status : Terminal \cup {"Open"}]
NoLook == [op |-> "None", status |-> "None"]

\* basis is the internal status of the candidates when they were claimed.
Run == [open : BOOLEAN,
        basis : [Operations -> Terminal \cup {"Pending", "None"}],
        seen : Look \cup {NoLook},
        checks : [Operations -> Outcomes \cup {"None"}]]

Closed == [open |-> FALSE, basis |-> [o \in Operations |-> "None"],
           seen |-> NoLook, checks |-> [o \in Operations |-> "None"]]

TypeOK ==
  /\ intent \in [Operations -> IntentStates]
  /\ creates \in [Operations -> Nat]
  /\ callers \in [Callers -> Call \cup {NoCall}]
  /\ provider \in [Operations -> Terminal \cup {"None", "Open"}]
  /\ emitted \subseteq Events
  /\ receipts \in [Events -> {"None", "Accepted", "Completed"}]
  /\ fact \in [Operations -> Evidence \cup {NoFact}]
  /\ refused \subseteq Events
  /\ runs \in [Runners -> Run]
  /\ checked \in [Operations -> Outcomes \cup {"None"}]
  /\ exceptions \in [Operations -> SUBSET Differences]
  /\ faults \in 0..MaxFaults

Init ==
  /\ intent = [o \in Operations |-> "Absent"]
  /\ creates = [o \in Operations |-> 0]
  /\ callers = [c \in Callers |-> NoCall]
  /\ provider = [o \in Operations |-> "None"]
  /\ emitted = {}
  /\ receipts = [e \in Events |-> "None"]
  /\ fact = [o \in Operations |-> NoFact]
  /\ refused = {}
  /\ runs = [r \in Runners |-> Closed]
  /\ checked = [o \in Operations |-> "None"]
  /\ exceptions = [o \in Operations |-> {}]
  /\ faults = 0
-----------------------------------------------------------------------------
(* createPaymentIntentService.create.  A claimed intent is never asked for  *)
(* again: if its call dies it stays Processing.                             *)

\* The operation is new, admitted, and Ordering has prepared it.
Admit(c, o) ==
  /\ callers[c] = NoCall
  /\ intent[o] = "Absent"
  /\ callers' = [callers EXCEPT ![c] = [at |-> "Admitted", op |-> o]]
  /\ UNCHANGED <<intent, creates, outside, truth, reconciliation, faults>>

\* Slip: only the operation is unique, not the preparation.
SlipFreeToClaim(o) == intent[o] = "Absent"

\* The unique constraints of payment_intent, which include the operation's.
FreeToClaim(o) ==
  \A p \in Operations : PreparationOf[p] = PreparationOf[o] => intent[p] = "Absent"

Claim(c) ==
  /\ callers[c].at = "Admitted"
  /\ FreeToClaim(callers[c].op)
  /\ intent' = [intent EXCEPT ![callers[c].op] = "Processing"]
  /\ callers' = [callers EXCEPT ![c].at = "Calling"]
  /\ UNCHANGED <<creates, outside, truth, reconciliation, faults>>

\* Existing, or a violated constraint.
LosesClaim(c) ==
  /\ callers[c].at = "Admitted"
  /\ ~FreeToClaim(callers[c].op)
  /\ callers' = [callers EXCEPT ![c] = NoCall]
  /\ UNCHANGED <<intent, creates, outside, truth, reconciliation, faults>>

\* The provider does create the intent; its reply is a snapshot, or is lost or
\* malformed, which makes the outcome Unknown.  The provider's idempotency key
\* holds a fresh attempt reference, so it does not tell two calls apart.
ProviderCreates(c) ==
  /\ callers[c].at = "Calling"
  /\ creates' = [creates EXCEPT ![callers[c].op] = @ + 1]
  /\ provider' = [provider EXCEPT ![callers[c].op] = "Open"]
  /\ \E answer \in {"Created", "Failed"} :
       callers' = [callers EXCEPT ![c].at = answer]
  /\ UNCHANGED <<intent, emitted, truth, reconciliation, faults>>

ProviderRefuses(c) ==
  /\ callers[c].at = "Calling"
  /\ callers' = [callers EXCEPT ![c].at = "Failed"]
  /\ UNCHANGED <<intent, creates, outside, truth, reconciliation, faults>>

RecordObservation(c) ==
  /\ callers[c].at \in {"Created", "Failed"}
  /\ intent' = [intent EXCEPT ![callers[c].op] = callers[c].at]
  /\ callers' = [callers EXCEPT ![c] = NoCall]
  /\ UNCHANGED <<creates, outside, truth, reconciliation, faults>>

CallerDies(c) ==
  /\ faults < MaxFaults
  /\ callers[c] # NoCall
  /\ faults' = faults + 1
  /\ callers' = [callers EXCEPT ![c] = NoCall]
  /\ UNCHANGED <<intent, creates, outside, truth, reconciliation>>
-----------------------------------------------------------------------------
(* The provider.  A failed attempt may be repeated on the same intent.     *)

ProviderSettles(o, s) ==
  /\ provider[o] = "Open"
  /\ s \in SettlesAs[o]
  /\ provider' = [provider EXCEPT ![o] = s]
  /\ emitted' = emitted \cup {[op |-> o, status |-> s]}
  /\ UNCHANGED <<creation, truth, reconciliation, faults>>

CustomerTriesAgain(o) ==
  /\ provider[o] = "Failed"
  /\ provider' = [provider EXCEPT ![o] = "Open"]
  /\ UNCHANGED <<creation, emitted, truth, reconciliation, faults>>
-----------------------------------------------------------------------------
(* The terminal service, and the webhook inbox that calls it.              *)

\* Slip: a verified webhook replaces what the job retrieved.
SlipStands(o, f) ==
  \/ fact[o] = NoFact
  \/ fact[o].source = "ProviderRetrieval" /\ f.source = "VerifiedWebhook"

\* One fact per intent (unique constraint); a second one is accepted only if
\* sameFact finds the same evidence.  Every retrieval is new evidence, and the
\* completion of its receipt keeps a webhook from being recorded twice.
Stands(o, f) == fact[o] = NoFact

\* PaymentTerminalService.record: source.resolve needs the recorded reference.
Record(o, f) ==
  /\ intent[o] = "Created"
  /\ Stands(o, f)
  /\ fact' = [fact EXCEPT ![o] = f]

Conflict(o, f) == intent[o] = "Created" /\ ~Stands(o, f)

\* Every event is accepted independently of the others, in any order.
AcceptWebhook(e) ==
  /\ e \in emitted
  /\ receipts[e] = "None"
  /\ receipts' = [receipts EXCEPT ![e] = "Accepted"]
  /\ UNCHANGED <<creation, outside, fact, refused, reconciliation, faults>>

WebhookFact(e) == [status |-> e.status, source |-> "VerifiedWebhook"]

\* The mapper's effect and the completion commit together.
ProcessWebhook(e) ==
  /\ receipts[e] = "Accepted"
  /\ Record(e.op, WebhookFact(e))
  /\ receipts' = [receipts EXCEPT ![e] = "Completed"]
  /\ UNCHANGED <<creation, outside, refused, reconciliation, faults>>

\* The handler throws: nothing commits and the receipt can be replayed.
RollBack(e) == UNCHANGED receipts

WebhookRefused(e) ==
  /\ receipts[e] = "Accepted"
  /\ e \notin refused
  /\ Conflict(e.op, WebhookFact(e))
  /\ refused' = refused \cup {e}
  /\ RollBack(e)
  /\ UNCHANGED <<creation, outside, fact, reconciliation, faults>>
-----------------------------------------------------------------------------
(* PaymentReconciliationService.run, mode Operational *)

\* What the candidate source reports of a payment.
Internal(o) == IF fact[o] = NoFact THEN "Pending" ELSE fact[o].status

\* A candidate must carry the provider's reference, and no other run has
\* claimed it.
Selectable(o) ==
  /\ intent[o] = "Created"
  /\ \A r \in Runners : runs[r].open => runs[r].basis[o] = "None"

\* The lease is won, the run is new, and the candidates are claimed.
StartRun(r, candidates) ==
  /\ ~runs[r].open
  /\ candidates # {}
  /\ \A o \in candidates : Selectable(o)
  /\ runs' = [runs EXCEPT ![r] =
       [Closed EXCEPT !.open = TRUE,
                      !.basis = [o \in Operations |->
                        IF o \in candidates THEN Internal(o) ELSE "None"]]]
  /\ UNCHANGED <<creation, outside, truth, records, faults>>

\* The next candidate of the loop, in whatever order the source listed them.
Due(r, o) ==
  /\ runs[r].open
  /\ runs[r].seen = NoLook
  /\ runs[r].basis[o] # "None"
  /\ runs[r].checks[o] = "None"

Retrieve(r, o) ==
  /\ Due(r, o)
  /\ runs' = [runs EXCEPT ![r].seen = [op |-> o, status |-> provider[o]]]
  /\ UNCHANGED <<creation, outside, truth, records, faults>>

RetrievalFails(r, o) ==
  /\ Due(r, o)
  /\ runs' = [runs EXCEPT ![r].checks[o] = "Unavailable"]
  /\ UNCHANGED <<creation, outside, truth, records, faults>>

Basis(r) == runs[r].basis[runs[r].seen.op]
Looking(r) == runs[r].open /\ runs[r].seen # NoLook

Judged(r, outcome) ==
  [runs EXCEPT ![r].checks[runs[r].seen.op] = outcome, ![r].seen = NoLook]

\* The internal status is terminal and the provider says something else.
FindsDifference(r) ==
  /\ Looking(r)
  /\ Basis(r) \in Terminal
  /\ Basis(r) # runs[r].seen.status
  /\ runs' = Judged(r, IF runs[r].seen.status \in Terminal
                       THEN "TerminalConflict" ELSE "StateMismatch")
  /\ UNCHANGED <<creation, outside, truth, records, faults>>

Agrees(r) ==
  /\ Looking(r)
  /\ \/ /\ Basis(r) \in Terminal
        /\ Basis(r) = runs[r].seen.status
        /\ runs' = Judged(r, "Matched")
     \/ /\ Basis(r) = "Pending"
        /\ runs[r].seen.status = "Open"
        /\ runs' = Judged(r, "Unresolved")
  /\ UNCHANGED <<creation, outside, truth, records, faults>>

RetrievedFact(r) ==
  [status |-> runs[r].seen.status, source |-> "ProviderRetrieval"]

NeedsHealing(r) ==
  Looking(r) /\ Basis(r) = "Pending" /\ runs[r].seen.status \in Terminal

Heals(r) ==
  /\ NeedsHealing(r)
  /\ Record(runs[r].seen.op, RetrievedFact(r))
  /\ runs' = Judged(r, "Healed")
  /\ UNCHANGED <<creation, outside, receipts, refused, records, faults>>

\* Slip: a refused fact counts as healed.
SlipAfterRefusal(r) == Judged(r, "Healed")

\* The refusal aborts the run: the checks made so far are not recorded.
AfterRefusal(r) == [runs EXCEPT ![r] = Closed]

HealingRefused(r) ==
  /\ NeedsHealing(r)
  /\ Conflict(runs[r].seen.op, RetrievedFact(r))
  /\ refused' = refused \cup {runs[r].seen}
  /\ runs' = AfterRefusal(r)
  /\ UNCHANGED <<creation, outside, receipts, fact, records, faults>>

\* Slip: a payment with an open exception gets no second one.
SlipOpened(o, outcome) ==
  IF exceptions[o] = {} THEN {outcome} \cap Differences ELSE exceptions[o]

\* One open exception per payment and reason; an old one stays beside a new one.
Opened(o, outcome) == exceptions[o] \cup ({outcome} \cap Differences)

\* One transaction records the run, its checks and the exceptions.
CommitRun(r) ==
  /\ runs[r].open
  /\ runs[r].seen = NoLook
  /\ \A o \in Operations : ~Due(r, o)
  /\ checked' = [o \in Operations |->
       IF runs[r].checks[o] = "None" THEN checked[o] ELSE runs[r].checks[o]]
  /\ exceptions' = [o \in Operations |-> Opened(o, runs[r].checks[o])]
  /\ runs' = [runs EXCEPT ![r] = Closed]
  /\ UNCHANGED <<creation, outside, truth, faults>>

\* The process dies, a dependency or the commit fails, or the provider's status
\* is newer than the clock reading the run began with.  Healed facts remain.
RunDies(r) ==
  /\ faults < MaxFaults
  /\ runs[r].open
  /\ faults' = faults + 1
  /\ runs' = [runs EXCEPT ![r] = Closed]
  /\ UNCHANGED <<creation, outside, truth, records>>
-----------------------------------------------------------------------------
CallerNext ==
  \E c \in Callers :
    \/ \E o \in Operations : Admit(c, o)
    \/ Claim(c)
    \/ LosesClaim(c)
    \/ ProviderCreates(c)
    \/ ProviderRefuses(c)
    \/ RecordObservation(c)
    \/ CallerDies(c)

ProviderNext ==
  \E o \in Operations :
    \/ \E s \in Terminal : ProviderSettles(o, s)
    \/ CustomerTriesAgain(o)

WebhookNext ==
  \E e \in Events :
    \/ AcceptWebhook(e)
    \/ ProcessWebhook(e)
    \/ WebhookRefused(e)

RunNext ==
  \E r \in Runners :
    \/ \E candidates \in SUBSET Operations : StartRun(r, candidates)
    \/ \E o \in Operations : Retrieve(r, o) \/ RetrievalFails(r, o)
    \/ FindsDifference(r)
    \/ Agrees(r)
    \/ Heals(r)
    \/ HealingRefused(r)
    \/ CommitRun(r)
    \/ RunDies(r)

Next == CallerNext \/ ProviderNext \/ WebhookNext \/ RunNext

Spec == Init /\ [][Next]_vars

\* What operational selection has to come to: a payment without a terminal fact,
\* and one that was found mismatched and has an open exception.  A terminal fact
\* that no check ever questioned is not due, whatever the provider says by now.
AwaitsCheck(o) == fact[o] = NoFact \/ exceptions[o] # {}

\* The job is scheduled at most every 15 minutes and comes to every payment that
\* awaits a check; a run ends; the provider is not unreachable forever.
Fairness ==
  \A r \in Runners :
    /\ \A o \in Operations :
         /\ SF_vars(AwaitsCheck(o) /\ \E cs \in SUBSET Operations : o \in cs /\ StartRun(r, cs))
         /\ SF_vars(Retrieve(r, o))
    /\ WF_vars(FindsDifference(r) \/ Agrees(r) \/ Heals(r) \/ HealingRefused(r))
    /\ WF_vars(CommitRun(r))

FairSpec == Spec /\ Fairness
-----------------------------------------------------------------------------
\* However create calls race, die and are repeated, the provider creates at
\* most one payment for what Ordering prepared once.
OneChargePerPreparation ==
  \A o, p \in Operations :
    PreparationOf[o] = PreparationOf[p] /\ creates[o] > 0 /\ creates[p] > 0
      => o = p /\ creates[o] = 1

\* A fact states an outcome that the provider did reach, though the status was
\* retrieved or sent long before and has changed since.
FactIsProviderTruth ==
  \A o \in Operations :
    fact[o] # NoFact => [op |-> o, status |-> fact[o].status] \in emitted

\* Neither writer rewrites the terminal fact of the other.
FactIsFinal ==
  [][\A o \in Operations : fact[o] # NoFact => fact'[o] = fact[o]]_vars

\* The terminal facts of online payments keep the promise of TerminalTruth: of
\* webhooks and retrievals, in whatever order they come, the first is recorded,
\* of an outcome the provider has reached, and no later one changes it.
Backed ==
  [o \in Operations |-> {f \in Evidence : [op |-> o, status |-> f.status] \in emitted}]
Promise == INSTANCE TerminalTruth WITH Payments <- Operations, None <- NoFact, backed <- Backed
ImplementsTruth == Promise!Spec

\* A completed receipt is the evidence of the fact: completion hides neither a
\* refusal nor an effect of another event.
CompletedIsFact ==
  \A e \in Events : receipts[e] = "Completed" => fact[e.op] = WebhookFact(e)

\* What committed runs say is true of facts and provider, also when a webhook
\* was recorded between the snapshot, the retrieval and the judgement: Healed
\* was healed by a retrieval, Matched has a fact, and a TerminalConflict is a
\* contradiction with an outcome the provider did reach.
ChecksAreTrue ==
  \A o \in Operations :
    /\ checked[o] = "Healed" => fact[o].source = "ProviderRetrieval"
    /\ checked[o] = "Matched" => fact[o] # NoFact
    /\ "TerminalConflict" \in exceptions[o] =>
         /\ fact[o] # NoFact
         /\ \E e \in emitted : e.op = o /\ e.status # fact[o].status

\* What webhook receipts and reconciliation records say agrees with the fact and
\* the provider, whichever of the two came to a payment first.
RecordsAreTrue == CompletedIsFact /\ ChecksAreTrue

\* With every webhook lost and checks that fail or are aborted, reconciliation
\* (operationalCheck) does not leave a captured payment without a terminal fact;
\* and one whose recorded failure was once questioned, while the customer tried
\* again, does not stay with that exception: the capture opens a Critical one.
CaptureIsAccountedFor ==
  \A o \in Operations :
    /\ provider[o] = "Captured" /\ intent[o] = "Created" ~> fact[o] # NoFact
    /\ provider[o] = "Captured" /\ exceptions[o] # {} ~> "TerminalConflict" \in exceptions[o]
=============================================================================
