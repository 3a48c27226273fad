-------------------------- MODULE ConsumerDelivery --------------------------
(***************************************************************************)
(* The inbound half of @bop/eventing and its worker: one consumer and one  *)
(* event.  The transport may deliver the event several times; a delivery   *)
(* runs the handler in one transaction with the inbox row; a failure is    *)
(* recorded in a second transaction, which schedules a retry or opens a    *)
(* dead letter; the retry scheduler claims due rows under a lease and      *)
(* delivers again; operators decide on dead letters.                       *)
(*                                                                         *)
(* Each transaction is one step.  Between them other executions run, leases *)
(* lapse and processes die.  The clock has coarse ticks: a retry delay is  *)
(* less than a tick or crosses one, a lease lapses at any time.            *)
(***************************************************************************)
EXTENDS Integers

(* Definitions named Slip... are plausible bugs that stand beside the correct *)
(* definition following them; no action uses them.                            *)

CONSTANTS
  Executors,      \* deliveries that can be under way at the same time
  MaxAttempts,    \* retryPolicy.maximumActualHandoffs (8 in the code)
  Horizon,        \* retryPolicy.maximumHorizonMs, in ticks
  MaxClock,       \* bound on the clock
  MaxDeliveries,  \* bound on the deliveries by the transport
  MaxFaults       \* bound on crashes and failed transactions

ASSUME ConstantsAssumption ==
  /\ MaxAttempts \in Nat \ {0}
  /\ Horizon \in Nat \ {0}
  /\ MaxClock \in Nat
  /\ MaxDeliveries \in Nat
  /\ MaxFaults \in Nat

VARIABLES
  now,        \* the clock
  inbox,      \* whether a completed consumer_inbox row exists
  applied,    \* how often the handler's effect was committed
  sched,      \* the row of consumer_retry_schedule
  holder,     \* executions whose lease token and version match that row
  lapsed,     \* lease_expires_at of that row has passed
  item,       \* status of the dead-letter item; "recovered" and "released"
              \* are status resolved with its two resolution kinds
  tasks,      \* what each execution is doing
  deliveries, \* how often the transport delivered the event
  latest,     \* when it did so last
  faults

control == <<sched, holder, lapsed>>
effect == <<inbox, applied>>
bounds == <<deliveries, latest, faults>>
vars == <<now, effect, control, item, tasks, bounds>>

\* Safe codes by what resolveRetry makes of them: "retryable" stands for
\* CONSUMER_TEMPORARY_FAILURE and AGGREGATE_ORDER_GAP, "unknown" for
\* COMMIT_OUTCOME_UNKNOWN, "rejected" for the others.
Codes == {"retryable", "rejected", "unknown"}
NoCode == "none"

Phases == {"idle", "loading", "running", "recheck", "recording", "processed"}

Task == [origin : {"transport", "retry"}, attempt : 0..MaxAttempts,
         deadline : Nat, phase : Phases, code : Codes \cup {NoCode}]

Idle == [origin |-> "transport", attempt |-> 0, deadline |-> 0,
         phase |-> "idle", code |-> NoCode]

SchedStates == {"none", "scheduled", "claimed", "completed", "dead_lettered"}
Schedule == [state : SchedStates, count : 0..MaxAttempts, available : Nat,
             deadline : Nat]
NoSchedule == [state |-> "none", count |-> 0, available |-> 0, deadline |-> 0]

ItemStatus == {"none", "open", "retry_scheduled", "discarded", "recovered",
               "released"}

\* The CHECKs of migration 0000_013 on the row are part of its type.
RowCheck(s) == /\ s.available <= s.deadline
               /\ s.state # "none" => s.count >= 1

TypeOK ==
  /\ now \in 0..MaxClock
  /\ inbox \in BOOLEAN
  /\ applied \in Nat
  /\ sched \in Schedule /\ RowCheck(sched)
  /\ holder \subseteq Executors
  /\ sched.state # "claimed" => holder = {}
  /\ lapsed \in BOOLEAN
  /\ item \in ItemStatus
  /\ tasks \in [Executors -> Task]
  /\ deliveries \in 0..MaxDeliveries
  /\ latest \in 0..MaxClock
  /\ faults \in 0..MaxFaults

Init ==
  /\ now = 0
  /\ inbox = FALSE
  /\ applied = 0
  /\ sched = NoSchedule
  /\ holder = {}
  /\ lapsed = FALSE
  /\ item = "none"
  /\ tasks = [x \in Executors |-> Idle]
  /\ deliveries = 0
  /\ latest = 0
  /\ faults = 0

Become(x, t) == tasks' = [tasks EXCEPT ![x] = t]

Failed(t, code) == [t EXCEPT !.phase = "recording", !.code = code]
-----------------------------------------------------------------------------
(* The clock of the worker and of the database. *)

Tick ==
  /\ now < MaxClock
  /\ now' = now + 1
  /\ UNCHANGED <<effect, control, item, tasks, bounds>>

LeaseLapses ==
  /\ sched.state = "claimed"
  /\ ~lapsed
  /\ lapsed' = TRUE
  /\ UNCHANGED <<now, effect, sched, holder, item, tasks, bounds>>

-----------------------------------------------------------------------------
(* ConsumerDeliveryWorker.deliver *)

\* registry.resolve: the consumer runs, or the event is rejected as attempt 0
\* (validation only, no handoff).  The answer depends on what is deployed.
Resolved(t, attempt) ==
  {[t EXCEPT !.phase = "running", !.attempt = attempt],
   Failed([t EXCEPT !.attempt = 0], "rejected")}

\* A delivery by the transport.  The horizon counts from its first attempt.
TransportDelivers(x) ==
  /\ tasks[x].phase = "idle"
  /\ deliveries < MaxDeliveries
  /\ now + Horizon <= MaxClock
  /\ deliveries' = deliveries + 1
  /\ latest' = now
  /\ \E t \in Resolved([Idle EXCEPT !.deadline = now + Horizon], 1) :
       Become(x, t)
  /\ UNCHANGED <<now, effect, control, item, faults>>

\* The worker heard that the transaction committed.
Succeeds(x) ==
  Become(x, IF tasks[x].origin = "retry"
              THEN [tasks[x] EXCEPT !.phase = "processed"] ELSE Idle)

\* Slip: the inbox row is not consulted.
SlipFirstSeen == TRUE

FirstSeen == ~inbox

Apply == /\ FirstSeen
         /\ inbox' = TRUE
         /\ applied' = applied + 1

\* consumeEventInTransaction commits: inbox row and handler effect together.
HandlerCommits(x) ==
  /\ tasks[x].phase \in {"running", "recheck"}
  /\ Apply
  /\ Succeeds(x)
  /\ UNCHANGED <<now, control, item, bounds>>

DuplicateCompleted(x) ==
  /\ tasks[x].phase \in {"running", "recheck"}
  /\ inbox
  /\ Succeeds(x)
  /\ UNCHANGED <<now, effect, control, item, bounds>>

\* The scope of the envelope is not the consumer's: the rejection is returned,
\* not thrown.  deliver records it only after a second transaction.
ScopeDenied(x) ==
  /\ \/ tasks[x].phase = "running" /\ Become(x, Idle)
     \/ tasks[x].phase = "recheck" /\ Become(x, Failed(tasks[x], "rejected"))
  /\ UNCHANGED <<now, effect, control, item, bounds>>

\* The handler refuses or the database fails: everything is rolled back.
HandlerRollsBack(x) ==
  /\ tasks[x].phase = "running"
  /\ \/ Become(x, Failed(tasks[x], "retryable"))
     \/ ~inbox /\ Become(x, Failed(tasks[x], "rejected"))
  /\ UNCHANGED <<now, effect, control, item, bounds>>

\* The reply to COMMIT is lost; deliver runs the same transaction once more.
CommitReplyLost(x) ==
  /\ tasks[x].phase = "running"
  /\ Apply \/ UNCHANGED effect
  /\ Become(x, [tasks[x] EXCEPT !.phase = "recheck"])
  /\ UNCHANGED <<now, control, item, bounds>>

\* Whatever the second transaction throws, the outcome stays unknown.
RecheckFails(x) ==
  /\ tasks[x].phase = "recheck"
  /\ Apply \/ UNCHANGED effect
  /\ Become(x, Failed(tasks[x], "unknown"))
  /\ UNCHANGED <<now, control, item, bounds>>

-----------------------------------------------------------------------------
(* recordConsumerFailureDecision, in a transaction of its own. *)

Final(t) ==
  \/ t.code = "rejected"
  \/ now >= t.deadline
  \/ t.code = "retryable" /\ t.attempt >= MaxAttempts

Row(t, state, available) ==
  [state |-> state, count |-> t.attempt, available |-> available,
   deadline |-> t.deadline]

\* Any row the statement writes is unclaimed and has a new version.
Write(s) == /\ RowCheck(s)
            /\ sched' = s
            /\ holder' = {}
            /\ lapsed' = FALSE

\* Slip: the row is closed but no item is opened.
SlipOpenItem == UNCHANGED item

\* An existing item is kept (ON CONFLICT DO NOTHING).
OpenItem == item' = IF item = "none" THEN "open" ELSE item

\* retry_scheduled, or reconciliation_required (available at once).
ScheduleRetry(x) ==
  LET t == tasks[x] IN
  /\ t.phase = "recording"
  /\ ~Final(t)
  /\ sched.state # "scheduled"
  /\ \E available \in {now} \cup (IF t.code = "unknown" THEN {} ELSE {now + 1}) :
       Write(Row(t, "scheduled", available))
  /\ Become(x, Idle)
  /\ UNCHANGED <<now, effect, item, bounds>>

\* dead_lettered; a validation-only rejection leaves the schedule alone, and an
\* existing row keeps its available_at.
DeadLetter(x) ==
  LET t == tasks[x] IN
  /\ t.phase = "recording"
  /\ Final(t)
  /\ IF t.attempt = 0
       THEN UNCHANGED control
       ELSE Write(Row(t, "dead_lettered",
                      IF sched.state = "none" THEN t.deadline
                                              ELSE sched.available))
  /\ OpenItem
  /\ Become(x, Idle)
  /\ UNCHANGED <<now, effect, bounds>>

\* The statement touches no row, or violates a CHECK: the transaction aborts and
\* the exception ends the delivery.
RecordRefused(x) ==
  LET t == tasks[x] IN
  /\ t.phase = "recording"
  /\ \/ ~Final(t) /\ sched.state = "scheduled"
     \/ /\ Final(t) /\ t.attempt > 0
        /\ sched.state # "none" /\ sched.available > t.deadline
  /\ Become(x, Idle)
  /\ UNCHANGED <<now, effect, control, item, bounds>>

-----------------------------------------------------------------------------
(* ConsumerRetryScheduler *)

\* Slip: a lapsed lease is not taken over.
SlipClaimable == sched.state = "scheduled"

Claimable == \/ sched.state = "scheduled"
             \/ sched.state = "claimed" /\ lapsed

\* Slip: the retry starts a horizon of its own.
SlipRetryTask == [origin |-> "retry", attempt |-> sched.count,
                  deadline |-> now + Horizon, phase |-> "loading",
                  code |-> NoCode]

RetryTask == [origin |-> "retry", attempt |-> sched.count,
              deadline |-> sched.deadline, phase |-> "loading",
              code |-> NoCode]

\* claimConsumerRetryBatch, then the test of the deadline against the instant of
\* the claim: past it, a failure of the last attempt is recorded instead.
ClaimRetry(x) ==
  /\ tasks[x].phase = "idle"
  /\ Claimable
  /\ sched.available <= now
  /\ sched' = [sched EXCEPT !.state = "claimed"]
  /\ holder' = {x}
  /\ lapsed' = FALSE
  /\ Become(x, IF now >= sched.deadline THEN Failed(RetryTask, "retryable")
                                        ELSE RetryTask)
  /\ UNCHANGED <<now, effect, item, bounds>>

NextAttempt(t) == IF t.attempt < MaxAttempts THEN t.attempt + 1 ELSE MaxAttempts

\* The envelope is loaded and delivered, or is gone.
LoadEnvelope(x) ==
  /\ tasks[x].phase = "loading"
  /\ \E t \in Resolved(tasks[x], NextAttempt(tasks[x]))
               \cup {Failed(tasks[x], "rejected")} : Become(x, t)
  /\ UNCHANGED <<now, effect, control, item, bounds>>

Holds(x) == x \in holder

\* completeConsumerRetry; without the lease it changes nothing (conflict).
CompleteRetry(x) ==
  /\ tasks[x].phase = "processed"
  /\ IF Holds(x)
       THEN Write([sched EXCEPT !.state = "completed"])
       ELSE UNCHANGED control
  /\ Become(x, Idle)
  /\ UNCHANGED <<now, effect, item, bounds>>

\* A process dies or one of its transactions fails; nothing it held in memory
\* survives, the row keeps its lease.
Crash(x) ==
  /\ faults < MaxFaults
  /\ tasks[x].phase # "idle"
  /\ faults' = faults + 1
  /\ Become(x, Idle)
  /\ UNCHANGED <<now, effect, control, item, deliveries, latest>>

-----------------------------------------------------------------------------
(* applyDeadLetterCommand and resolveDeadLetter on the consumer path. *)

\* available_at <= deadline_at: past the deadline the command aborts.
RetryDeadLetter ==
  /\ item = "open"
  /\ sched.state = "dead_lettered"
  /\ Write([sched EXCEPT !.state = "scheduled", !.available = now])
  /\ item' = "retry_scheduled"
  /\ UNCHANGED <<now, effect, tasks, bounds>>

DiscardDeadLetter ==
  /\ item = "open"
  /\ item' = "discarded"
  /\ UNCHANGED <<now, effect, control, tasks, bounds>>

RetryDone == sched.state = "completed"

ResolveRetried ==
  /\ item = "retry_scheduled"
  /\ RetryDone
  /\ item' = "recovered"
  /\ UNCHANGED <<now, effect, control, tasks, bounds>>

ReleaseDiscarded ==
  /\ item = "discarded"
  /\ item' = "released"
  /\ UNCHANGED <<now, effect, control, tasks, bounds>>

-----------------------------------------------------------------------------
Deliver(x) ==
  \/ HandlerCommits(x)
  \/ DuplicateCompleted(x)
  \/ ScopeDenied(x)
  \/ HandlerRollsBack(x)
  \/ CommitReplyLost(x)
  \/ RecheckFails(x)

Record(x) == ScheduleRetry(x) \/ DeadLetter(x) \/ RecordRefused(x)

Proceed(x) == Deliver(x) \/ Record(x) \/ LoadEnvelope(x) \/ CompleteRetry(x)

Operator == \/ RetryDeadLetter
            \/ DiscardDeadLetter
            \/ ResolveRetried
            \/ ReleaseDiscarded

Next ==
  \/ Tick
  \/ LeaseLapses
  \/ \E x \in Executors :
       TransportDelivers(x) \/ Proceed(x) \/ ClaimRetry(x) \/ Crash(x)
  \/ Operator

Spec == Init /\ [][Next]_vars

\* Time passes, a delivery under way goes on, and the scheduler keeps polling.
\* The transport and the operators owe nothing.
Fairness ==
  /\ WF_vars(Tick)
  /\ WF_vars(LeaseLapses)
  /\ \A x \in Executors : WF_vars(Proceed(x))
  /\ WF_vars(\E x \in Executors : ClaimRetry(x))

FairSpec == Spec /\ Fairness
-----------------------------------------------------------------------------
(* Properties. *)

\* The handler's effect is committed at most once and exactly with the inbox
\* row, whatever was redelivered, retried, lost or taken over.
EffectOnce == applied = IF inbox THEN 1 ELSE 0

\* The schedule row is the duty, the dead-letter item the report.
Duty == CASE sched.state = "none" -> "none"
          [] sched.state \in {"scheduled", "claimed"} -> "owed"
          [] sched.state = "completed" -> "met"
          [] OTHER -> "failed"

Handling == INSTANCE HandledOnce WITH effects <- applied, duty <- Duty, report <- item

\* Two executions, redeliveries, lapsed leases and lost replies together look
\* like one careful consumer: one effect, a retry closed only with the effect,
\* given up only with an item, and items moved only by operators.
ImplementsHandling == Handling!HandledSpec

\* A failure that was recorded is never forgotten: a closed schedule means the
\* effect is there, or an item tells an operator that it is not.
ClosedIsAccountedFor ==
  /\ sched.state = "completed" => inbox
  /\ sched.state = "dead_lettered" => item # "none"

\* An item is resolved as recovered only if the effect was committed.
RecoveredWasApplied == item = "recovered" => inbox

\* However often claims, lapses and operators bring the event back, no retry is
\* scheduled past the horizon of the latest delivery by the transport.
HorizonBoundsRetries == sched.deadline <= latest + Horizon

\* Every scheduled retry ends: it completes or is dead-lettered.
RetriesSettle ==
  sched.state \in {"scheduled", "claimed"}
    ~> sched.state \in {"completed", "dead_lettered"}

=============================================================================
