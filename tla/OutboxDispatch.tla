--------------------------- MODULE OutboxDispatch ---------------------------
(***************************************************************************)
(* The outbound half of @bop/eventing: the retained outbox table, the      *)
(* dispatch workers that claim rows under a lease and hand them to the     *)
(* transport, the scheduler that retries or dead-letters parked rows, and  *)
(* the operator commands on a dead letter.                                 *)
(*                                                                         *)
(* Events are numbered by recorded_at: event n is the n-th row appended.   *)
(* Producers append the events of one aggregate in version order, so among *)
(* the rows of an aggregate this is also the (aggregate_version, event_id) *)
(* order of the claim statement.  One dispatch scope (brand, store) is     *)
(* modelled.  Each SQL transaction is one step; calls to the transport,    *)
(* which no transaction covers, are separate steps.                        *)
(*                                                                         *)
(* A claim writes a fresh lease token and increments attempt_count, so the *)
(* number of the attempt names the token: 0 stands for NULL.               *)
(***************************************************************************)
EXTENDS Integers, FiniteSets

(* Definitions named Slip... are plausible bugs that stand beside the correct *)
(* definition following them; no action uses them.                            *)

CONSTANTS
  NumEvents,           \* bound on the rows appended
  Aggregates,          \* ordering keys (brand, aggregate type, aggregate id)
  AggregateOf,         \* the ordering key of each event
  Workers,             \* dispatcher processes
  MaxHandoffs,         \* retryPolicy.maximumActualHandoffs (8 in the code)
  BatchMaximum,        \* rows one claim statement takes (perScopeMaximum)
  AdapterConcurrency,  \* adapter calls a worker has open at once
  ParkedBatch,         \* rows one scheduler poll takes (25 in the code)
  MaxFaults            \* bound on crashes and failed settlement transactions

ASSUME ConstantsAssumption ==
  /\ NumEvents \in Nat
  /\ AggregateOf \in [1..NumEvents -> Aggregates]
  /\ MaxHandoffs \in Nat \ {0}
  /\ BatchMaximum \in Nat \ {0}
  /\ AdapterConcurrency \in Nat \ {0}
  /\ ParkedBatch \in Nat \ {0}
  /\ MaxFaults \in Nat

VARIABLES
  recorded,     \* how many rows have been appended
  attempt,      \* attempt_count of each row
  lease,        \* lease_token of each row, 0 for NULL
  expired,      \* rows whose lease_expires_at has passed
  error,        \* last_error_code of each row
  due,          \* rows whose available_at has passed
  pastHorizon,  \* rows recorded longer ago than maximumHorizonMs
  published,    \* rows with published_at set
  released,     \* rows with ordering_released_at set
  dead,         \* status of the dead-letter item of each event
  tasks,        \* deliveries each worker process holds in memory
  wire,         \* adapter calls whose effect on the transport is open
  handed,       \* events the transport has accepted at least once
  faults

claimVars == <<attempt, lease, expired>>
timeVars == <<due, pastHorizon>>
row == <<recorded, claimVars, error, timeVars, published, released>>
outside == <<wire, handed, faults>>
vars == <<row, dead, tasks, outside>>

Events == 1..NumEvents

\* The rows the claim statement's NOT EXISTS looks at: same key, smaller
\* (aggregate_version, event_id).
Earlier(e) == {f \in 1..(e - 1) : AggregateOf[f] = AggregateOf[e]}

\* last_error_code: TRANSPORT_TIMEOUT and TRANSPORT_UNAVAILABLE are the
\* retryable codes of the outbox path ("transient"), every other code is not.
Failures == {"transient", "rejected"}
NoError == "none"

DeadStatus == {"none", "open", "retry_scheduled", "discarded", "resolved"}

Answers == Failures \cup {"acknowledged"}
Task == [event : Events, token : 1..MaxHandoffs,
         phase : {"queued", "publishing"} \cup Answers]

TypeOK ==
  /\ recorded \in 0..NumEvents
  /\ attempt \in [Events -> 0..MaxHandoffs]
  /\ lease \in [Events -> 0..MaxHandoffs]
  /\ expired \subseteq Events
  /\ error \in [Events -> Failures \cup {NoError}]
  /\ due \subseteq Events
  /\ pastHorizon \subseteq Events
  /\ published \subseteq Events
  /\ released \subseteq Events
  /\ dead \in [Events -> DeadStatus]
  /\ tasks \in [Workers -> SUBSET Task]
  /\ wire \subseteq Events \X (1..MaxHandoffs)
  /\ handed \subseteq Events
  /\ faults \in 0..MaxFaults

Init ==
  /\ recorded = 0
  /\ attempt = [e \in Events |-> 0]
  /\ lease = [e \in Events |-> 0]
  /\ expired = {}
  /\ error = [e \in Events |-> NoError]
  /\ due = {}
  /\ pastHorizon = {}
  /\ published = {}
  /\ released = {}
  /\ dead = [e \in Events |-> "none"]
  /\ tasks = [w \in Workers |-> {}]
  /\ wire = {}
  /\ handed = {}
  /\ faults = 0

-----------------------------------------------------------------------------
(* Producers and the clock of the database. *)

\* appendEventInTransaction: available_at is now or later.
Append ==
  /\ recorded < NumEvents
  /\ recorded' = recorded + 1
  /\ due' \in {due, due \cup {recorded + 1}}
  /\ UNCHANGED <<claimVars, error, pastHorizon, published, released, dead,
                 tasks, outside>>

BecomeDue(e) ==
  /\ e \in (1..recorded) \ due
  /\ due' = due \cup {e}
  /\ UNCHANGED <<recorded, claimVars, error, pastHorizon, published, released,
                 dead, tasks, outside>>

LeaseExpires(e) ==
  /\ lease[e] # 0
  /\ e \notin expired
  /\ expired' = expired \cup {e}
  /\ UNCHANGED <<recorded, attempt, lease, error, timeVars, published,
                 released, dead, tasks, outside>>

\* recorded_at + maximumHorizonMs passes; no retry is scheduled beyond it.
HorizonPasses(e) ==
  /\ e \in (1..recorded) \ (pastHorizon \cup published)
  /\ pastHorizon' = pastHorizon \cup {e}
  /\ due' = due \cup {e}
  /\ UNCHANGED <<recorded, claimVars, error, published, released, dead, tasks,
                 outside>>

-----------------------------------------------------------------------------
(* OutboxDispatcher: claim, publish, settle. *)

WithinBudget(e) == attempt[e] < MaxHandoffs

\* Slip: an expired lease is not taken over.
SlipTakeover(e) == lease[e] = 0

Unleased(e) == lease[e] = 0 \/ e \in expired

\* Slip: a claimed predecessor no longer counts as ahead.
SlipClaimedHead(e) ==
  \A f \in Earlier(e) : f \in published \cup released \/ lease[f] # 0

Head(e) == Earlier(e) \subseteq published \cup released

Claimable(e) ==
  /\ e \in (1..recorded) \ published
  /\ error[e] = NoError
  /\ WithinBudget(e)
  /\ e \in due
  /\ Unleased(e)
  /\ Head(e)

NewTask(e) == [event |-> e, token |-> attempt[e] + 1, phase |-> "queued"]

\* runOnce claims one batch and waits for all of it before it claims again.
\* SKIP LOCKED and the order by available_at leave open which rows are taken.
Claim(w, batch) ==
  /\ tasks[w] = {}
  /\ batch # {}
  /\ Cardinality(batch) <= BatchMaximum
  /\ \A e \in batch : Claimable(e)
  /\ attempt' = [e \in Events |-> IF e \in batch THEN attempt[e] + 1
                                                 ELSE attempt[e]]
  /\ lease' = [e \in Events |-> IF e \in batch THEN attempt[e] + 1
                                               ELSE lease[e]]
  /\ expired' = expired \ batch
  /\ tasks' = [tasks EXCEPT ![w] = {NewTask(e) : e \in batch}]
  /\ UNCHANGED <<recorded, error, timeVars, published, released, dead,
                 outside>>

\* #publishOne calls the adapter as soon as a concurrency slot is free; the
\* lease is not looked at again.
StartPublish(w, t) ==
  /\ t \in tasks[w]
  /\ t.phase = "queued"
  /\ Cardinality({u \in tasks[w] : u.phase # "queued"}) < AdapterConcurrency
  /\ tasks' = [tasks EXCEPT ![w] =
                 (@ \ {t}) \cup {[t EXCEPT !.phase = "publishing"]}]
  /\ wire' = wire \cup {<<t.event, t.token>>}
  /\ UNCHANGED <<row, dead, handed, faults>>

\* The promise race of #publishOne: only a task still publishing hears of m.
Heard(m, answer) ==
  [w \in Workers |->
    {IF t.event = m[1] /\ t.token = m[2] /\ t.phase = "publishing"
       THEN [t EXCEPT !.phase = answer]
       ELSE t : t \in tasks[w]}]

\* The transport takes the event; the acknowledgement may be lost.
TransportAccepts(m) ==
  /\ m \in wire
  /\ wire' = wire \ {m}
  /\ handed' = handed \cup {m[1]}
  /\ \E answer \in {"acknowledged", "transient"} : tasks' = Heard(m, answer)
  /\ UNCHANGED <<row, dead, faults>>

TransportFails(m) ==
  /\ m \in wire
  /\ wire' = wire \ {m}
  /\ \E answer \in Failures : tasks' = Heard(m, answer)
  /\ UNCHANGED <<row, dead, handed, faults>>

TimedOut == "transient"

\* adapterTimeoutMs passes: the call stays open and may still take effect.
AdapterTimeout(w, t) ==
  /\ t \in tasks[w]
  /\ t.phase = "publishing"
  /\ tasks' = [tasks EXCEPT ![w] =
                 (@ \ {t}) \cup {[t EXCEPT !.phase = TimedOut]}]
  /\ UNCHANGED <<row, dead, outside>>

\* Slip: any claimant may settle.
SlipUnfenced(t) == t.event \notin published

Fenced(t) == lease[t.event] = t.token /\ t.event \notin published

Acknowledged(t) == t.phase = "acknowledged"

\* markOutboxPublished; without the lease it changes nothing (lost_lease).
MarkPublished(w, t) ==
  /\ t \in tasks[w]
  /\ Acknowledged(t)
  /\ tasks' = [tasks EXCEPT ![w] = @ \ {t}]
  /\ IF Fenced(t)
       THEN /\ published' = published \cup {t.event}
            /\ lease' = [lease EXCEPT ![t.event] = 0]
            /\ expired' = expired \ {t.event}
            /\ error' = [error EXCEPT ![t.event] = NoError]
       ELSE UNCHANGED <<published, lease, expired, error>>
  /\ UNCHANGED <<recorded, attempt, timeVars, released, dead, outside>>

\* markOutboxFailed: the row is parked with its error code.
MarkFailed(w, t) ==
  /\ t \in tasks[w]
  /\ t.phase \in Failures
  /\ tasks' = [tasks EXCEPT ![w] = @ \ {t}]
  /\ IF Fenced(t)
       THEN /\ lease' = [lease EXCEPT ![t.event] = 0]
            /\ expired' = expired \ {t.event}
            /\ error' = [error EXCEPT ![t.event] = t.phase]
       ELSE UNCHANGED <<lease, expired, error>>
  /\ UNCHANGED <<recorded, attempt, timeVars, published, released, dead,
                 outside>>

\* The settlement transaction fails: OUTBOX_DISPATCH_PERSISTENCE_FAILED.
SettlementFails(w, t) ==
  /\ faults < MaxFaults
  /\ t \in tasks[w]
  /\ t.phase \in Answers
  /\ tasks' = [tasks EXCEPT ![w] = @ \ {t}]
  /\ faults' = faults + 1
  /\ UNCHANGED <<row, dead, wire, handed>>

\* The process dies, or leaves after its drain deadline, and starts again.
Crash(w) ==
  /\ faults < MaxFaults
  /\ tasks[w] # {}
  /\ tasks' = [tasks EXCEPT ![w] = {}]
  /\ faults' = faults + 1
  /\ UNCHANGED <<row, dead, wire, handed>>

-----------------------------------------------------------------------------
(* OutboxRetryScheduler: decide on parked rows. *)

Parked(e) ==
  /\ e \in (1..recorded) \ published
  /\ lease[e] = 0
  /\ error[e] # NoError

\* resolveRetry on the outbox path.
Terminal(e) ==
  \/ error[e] = "rejected"
  \/ attempt[e] >= MaxHandoffs
  \/ e \in pastHorizon

Oldest(S, n) == {e \in S : Cardinality({f \in S : f < e}) < n}

PolledRows == Oldest({e \in Events : Parked(e) /\ e \notin released},
                     ParkedBatch)

\* scheduleParkedOutboxBatch: one transaction over the oldest parked rows.
\* An existing dead-letter item is left as it is (ON CONFLICT DO NOTHING).
SchedulePoll ==
  /\ PolledRows # {}
  /\ error' = [e \in Events |->
                 IF e \in PolledRows /\ ~Terminal(e) THEN NoError ELSE error[e]]
  /\ due' = {e \in due : e \notin PolledRows \/ Terminal(e)}
  /\ dead' = [e \in Events |->
                IF e \in PolledRows /\ Terminal(e) /\ dead[e] = "none"
                  THEN "open" ELSE dead[e]]
  /\ UNCHANGED <<recorded, claimVars, pastHorizon, published, released, tasks,
                 outside>>

-----------------------------------------------------------------------------
(* Operator commands on a dead letter.  An item reaches each status once, so *)
(* a command with a stale expected version is one whose status guard fails.  *)

\* Slip: a discarded item can be retried.
SlipRetryDiscarded(e) == dead[e] \in {"open", "discarded"}

Retriable(e) == dead[e] = "open"

\* applyDeadLetterCommand, action retry.
RetryDeadLetter(e) ==
  /\ Retriable(e)
  /\ Parked(e)
  /\ attempt[e] < MaxHandoffs
  /\ error' = [error EXCEPT ![e] = NoError]
  /\ due' = due \cup {e}
  /\ dead' = [dead EXCEPT ![e] = "retry_scheduled"]
  /\ UNCHANGED <<recorded, claimVars, pastHorizon, published, released, tasks,
                 outside>>

Discardable(e) == dead[e] = "open"

\* applyDeadLetterCommand, action discard.
DiscardDeadLetter(e) ==
  /\ Discardable(e)
  /\ dead' = [dead EXCEPT ![e] = "discarded"]
  /\ UNCHANGED <<row, tasks, outside>>

\* resolveDeadLetter, retry_completed.
ResolveRetried(e) ==
  /\ dead[e] = "retry_scheduled"
  /\ e \in published
  /\ dead' = [dead EXCEPT ![e] = "resolved"]
  /\ UNCHANGED <<row, tasks, outside>>

\* resolveDeadLetter, discard_released: later versions may pass.
ReleaseDiscarded(e) ==
  /\ dead[e] = "discarded"
  /\ e \notin published \cup released
  /\ error[e] # NoError
  /\ released' = released \cup {e}
  /\ dead' = [dead EXCEPT ![e] = "resolved"]
  /\ UNCHANGED <<recorded, claimVars, error, timeVars, published, tasks,
                 outside>>

-----------------------------------------------------------------------------
Clock(e) == BecomeDue(e) \/ LeaseExpires(e) \/ HorizonPasses(e)

Deliver(w) ==
  \E t \in tasks[w] : \/ StartPublish(w, t)
                      \/ AdapterTimeout(w, t)
                      \/ MarkPublished(w, t)
                      \/ MarkFailed(w, t)

Transport == \E m \in wire : TransportAccepts(m) \/ TransportFails(m)

Operator(e) == \/ RetryDeadLetter(e)
               \/ DiscardDeadLetter(e)
               \/ ResolveRetried(e)
               \/ ReleaseDiscarded(e)

Fault(w) == Crash(w) \/ \E t \in tasks[w] : SettlementFails(w, t)

ClaimSome(w) == \E batch \in SUBSET Events : Claim(w, batch)

Next ==
  \/ Append
  \/ \E e \in Events : Clock(e) \/ Operator(e)
  \/ \E w \in Workers : ClaimSome(w) \/ Deliver(w) \/ Fault(w)
  \/ Transport
  \/ SchedulePoll

Spec == Init /\ [][Next]_vars

\* Timers fire, a worker goes on with what it holds and keeps polling, and so
\* does the scheduler.  Producers, operators and the transport owe nothing.
Fairness ==
  /\ \A e \in Events : WF_vars(BecomeDue(e)) /\ WF_vars(LeaseExpires(e))
  /\ \A w \in Workers : WF_vars(Deliver(w)) /\ WF_vars(ClaimSome(w))
  /\ WF_vars(SchedulePoll)

FairSpec == Spec /\ Fairness
-----------------------------------------------------------------------------
(* Properties. *)

\* Rows of one aggregate are handed to the transport in version order: when
\* the transport holds an event, it holds every earlier one of its aggregate
\* that no operator released (claim predicate, fencing and release together).
FirstHandoffInOrder ==
  \A e \in handed : Earlier(e) \subseteq handed \cup released

\* published_at is written only for an event the transport took, whatever
\* timeouts, late answers and lost leases came before.
PublishedWasHanded == published \subseteq handed

\* Leases of two rows of an aggregate never overlap, expired ones included.
OneLeasePerAggregate ==
  \A e, f \in Events :
    lease[e] # 0 /\ lease[f] # 0 /\ AggregateOf[e] = AggregateOf[f] => e = f

\* A row whose dead letter waits for an operator, or was discarded, is retained
\* unpublished and parked, and no lease is open on it.
DeadLetterIsParked ==
  \A e \in Events : dead[e] \in {"open", "discarded"} => Parked(e)

\* Once discarded, or released after that, an event is never claimed, published
\* or put back into an operator's hands: no poll, late answer or replayed
\* command brings it back.
DiscardIsFinal ==
  [][\A e \in Events :
       dead[e] = "discarded" \/ e \in released
         => /\ attempt'[e] = attempt[e]
            /\ e \notin published'
            /\ dead'[e] \in {"discarded", "resolved"}]_vars

\* The eighth claim of the event ended without a word from its worker: the
\* claim statement does not take the row again and no poll sees it.
Stranded(e) ==
  /\ attempt[e] = MaxHandoffs
  /\ e \in expired
  /\ error[e] = NoError

\* Every appended event is published, or its fate (or that of an event before
\* it) is put into an operator's hands, or a lost worker stranded one of them.
EventsSettle ==
  \A e \in Events :
    e <= recorded
      ~> \/ e \in published
         \/ \E f \in Earlier(e) \cup {e} : dead[f] # "none" \/ Stranded(f)

\* The dispatcher implements the ordered relay, state for state.
Relay == INSTANCE OrderedRelay WITH
  recorded <- recorded, handed <- handed, published <- published, released <- released
ImplementsRelay == Relay!RelaySpec

-----------------------------------------------------------------------------
(* A claim of the documentation that the code does not keep. *)

\* "maximum/non-retryable work produces one metadata-only dead-letter record"
\* (WP-0033): an event at its last attempt is published or dead-lettered.
ExhaustedIsDeadLettered ==
  \A e \in Events :
    attempt[e] = MaxHandoffs ~> e \in published \/ dead[e] # "none"

=============================================================================
