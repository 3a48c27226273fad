----------------------- MODULE ConsumerDeliveryProofs -----------------------
(***************************************************************************)
(* Proofs about ConsumerDelivery for any number of executions, attempts,   *)
(* deliveries and faults, and any horizon.                                 *)
(***************************************************************************)
EXTENDS ConsumerDelivery, TLAPS

\* A retry reaches "processed" only through a committed inbox row.
ProcessedInv == \A x \in Executors : tasks[x].phase = "processed" => inbox

\* Deliveries under way carry the deadline of a delivery by the transport, and
\* the horizon of the latest one is the last of these.
DeadlineInv ==
  /\ latest <= now
  /\ \A x \in Executors : tasks[x].deadline <= latest + Horizon

ConsumerInv ==
  /\ TypeOK
  /\ EffectOnce
  /\ ClosedIsAccountedFor
  /\ RecoveredWasApplied
  /\ HorizonBoundsRetries
  /\ ProcessedInv
  /\ DeadlineInv
-----------------------------------------------------------------------------

\* What an execution may turn into has the type of a task.
LEMMA TaskTypes ==
  ASSUME NEW t \in Task
  PROVE  /\ Idle \in Task
         /\ \A c \in Codes : Failed(t, c) \in Task
         /\ \A p \in Phases : [t EXCEPT !.phase = p] \in Task
         /\ Resolved(t, 1) \subseteq Task
         /\ Resolved(t, NextAttempt(t)) \subseteq Task
<1> USE ConstantsAssumption
<1>1. Idle \in Task
  BY DEF Idle, Task, NoCode, Phases
<1>2. \A c \in Codes : Failed(t, c) \in Task
  BY DEF Failed, Task, Codes, Phases
<1>3. \A p \in Phases : [t EXCEPT !.phase = p] \in Task
  BY DEF Task
<1>4. ASSUME NEW n \in 0..MaxAttempts PROVE Resolved(t, n) \subseteq Task
  <2>1. [t EXCEPT !.phase = "running", !.attempt = n] \in Task
    BY DEF Task, Phases
  <2>2. [t EXCEPT !.attempt = 0] \in Task
    BY DEF Task
  <2>3. Failed([t EXCEPT !.attempt = 0], "rejected") \in Task
    BY <2>2 DEF Failed, Task, Codes, Phases
  <2> QED BY <2>1, <2>3 DEF Resolved
<1>5. NextAttempt(t) \in 0..MaxAttempts
  BY DEF NextAttempt, Task
<1> QED BY <1>1, <1>2, <1>3, <1>4, <1>5

\* What ClaimRetry starts with has the type of a task.
LEMMA RetryTaskType == ASSUME TypeOK PROVE RetryTask \in Task
BY DEF TypeOK, RetryTask, Schedule, Task, Phases, NoCode

\* A statement of the failure recorder writes a row of the right type.
LEMMA RowType ==
  ASSUME NEW t \in Task, NEW state \in SchedStates, NEW a \in Nat
  PROVE  Row(t, state, a) \in Schedule
BY DEF Row, Task, Schedule
-----------------------------------------------------------------------------

\* The initial state has the types and satisfies the invariant.
LEMMA InvInit == ASSUME Init PROVE ConsumerInv
<1> USE ConstantsAssumption DEF Init
<1>1. Idle \in Task
  BY DEF Idle, Task, NoCode, Phases
<1>2. NoSchedule \in Schedule /\ RowCheck(NoSchedule)
  BY DEF NoSchedule, Schedule, SchedStates, RowCheck
<1>3. tasks \in [Executors -> Task] /\ sched.state # "claimed"
  BY <1>1 DEF NoSchedule
<1>4. inbox \in BOOLEAN /\ lapsed \in BOOLEAN
  OBVIOUS
<1>5. /\ now \in 0..MaxClock /\ latest \in 0..MaxClock
      /\ deliveries \in 0..MaxDeliveries /\ faults \in 0..MaxFaults
      /\ applied \in Nat /\ item \in ItemStatus /\ holder \subseteq Executors
  BY DEF ItemStatus
<1>6. TypeOK
  BY <1>2, <1>3, <1>4, <1>5 DEF TypeOK
<1> QED BY <1>6 DEF ConsumerInv, EffectOnce, ClosedIsAccountedFor,
              RecoveredWasApplied, HorizonBoundsRetries, ProcessedInv,
              DeadlineInv, NoSchedule, Idle

\* A row written by Write is well-typed and unclaimed.
LEMMA WriteType ==
  ASSUME TypeOK, NEW s \in Schedule, Write(s)
  PROVE  /\ sched' \in Schedule /\ RowCheck(sched')
         /\ holder' \subseteq Executors
         /\ sched'.state # "claimed" => holder' = {}
         /\ lapsed' \in BOOLEAN
BY DEF Write

\* Every step keeps every variable in its type.
LEMMA TypeStep == ASSUME TypeOK, [Next]_vars PROVE TypeOK'
<1> USE ConstantsAssumption DEF control, effect, bounds
<1>1. CASE Tick
  BY <1>1 DEF Tick, TypeOK
<1>2. CASE LeaseLapses
  BY <1>2 DEF LeaseLapses, TypeOK
<1>3. ASSUME NEW x \in Executors, TransportDelivers(x) PROVE TypeOK'
  <2>1. Idle \in Task /\ tasks[x] \in Task
    BY TaskTypes DEF TypeOK
  <2>2. [Idle EXCEPT !.deadline = now + Horizon] \in Task
    BY <2>1 DEF TypeOK, Task
  <2>3. PICK t \in Resolved([Idle EXCEPT !.deadline = now + Horizon], 1) :
          Become(x, t)
    BY <1>3 DEF TransportDelivers
  <2>4. t \in Task
    BY <2>2, <2>3, TaskTypes
  <2> QED BY <1>3, <2>3, <2>4 DEF TransportDelivers, Become, TypeOK
<1>4. ASSUME NEW x \in Executors, Deliver(x) PROVE TypeOK'
  <2>1. tasks[x] \in Task /\ Idle \in Task
    BY TaskTypes DEF TypeOK
  <2>2. /\ \A c \in Codes : Failed(tasks[x], c) \in Task
        /\ \A p \in Phases : [tasks[x] EXCEPT !.phase = p] \in Task
    BY <2>1, TaskTypes
  <2>3. /\ {"processed", "recheck"} \subseteq Phases
        /\ Codes = {"retryable", "rejected", "unknown"}
    BY DEF Phases, Codes
  <2>4. tasks' \in [Executors -> Task]
    BY <1>4, <2>1, <2>2, <2>3 DEF Deliver, HandlerCommits, DuplicateCompleted,
         ScopeDenied, HandlerRollsBack, CommitReplyLost, RecheckFails, Succeeds,
         Become, TypeOK
  <2>5. \/ Apply \/ UNCHANGED effect
    BY <1>4 DEF Deliver, HandlerCommits, DuplicateCompleted, ScopeDenied,
         HandlerRollsBack, CommitReplyLost, RecheckFails
  <2>6. inbox' \in BOOLEAN
    BY <2>5 DEF Apply, TypeOK
  <2>7. applied' \in Nat
    BY <2>5 DEF Apply, TypeOK
  <2>8. UNCHANGED <<now, control, item, bounds>>
    BY <1>4 DEF Deliver, HandlerCommits, DuplicateCompleted, ScopeDenied,
         HandlerRollsBack, CommitReplyLost, RecheckFails
  <2> QED BY <2>4, <2>6, <2>7, <2>8 DEF TypeOK
<1>5. ASSUME NEW x \in Executors, Record(x) PROVE TypeOK'
  <2>1. tasks[x] \in Task /\ Idle \in Task
    BY TaskTypes DEF TypeOK
  <2>2. tasks' \in [Executors -> Task]
    BY <1>5, <2>1 DEF Record, ScheduleRetry, DeadLetter, RecordRefused, Become,
         TypeOK
  <2>3. UNCHANGED <<now, effect, bounds>>
    BY <1>5 DEF Record, ScheduleRetry, DeadLetter, RecordRefused
  <2>4. CASE ScheduleRetry(x)
    <3>1. PICK a \in {now} \cup (IF tasks[x].code = "unknown" THEN {} ELSE {now + 1}) :
            Write(Row(tasks[x], "scheduled", a))
      BY <2>4 DEF ScheduleRetry
    <3>2. a \in Nat /\ "scheduled" \in SchedStates
      BY <3>1 DEF TypeOK, SchedStates
    <3>3. Row(tasks[x], "scheduled", a) \in Schedule
      BY <2>1, <3>2, RowType
    <3> HIDE DEF control, effect, bounds
    <3>4. /\ sched' \in Schedule /\ RowCheck(sched')
          /\ holder' \subseteq Executors
          /\ sched'.state # "claimed" => holder' = {}
          /\ lapsed' \in BOOLEAN
      BY <3>1, <3>3, WriteType
    <3> USE DEF control, effect, bounds
    <3> QED BY <2>2, <2>3, <2>4, <3>4 DEF ScheduleRetry, TypeOK
  <2>5. CASE DeadLetter(x)
    <3>1. item' \in ItemStatus
      BY <2>5 DEF DeadLetter, OpenItem, TypeOK, ItemStatus
    <3>2. CASE tasks[x].attempt = 0
      BY <2>2, <2>3, <2>5, <3>1, <3>2 DEF DeadLetter, TypeOK
    <3>3. CASE tasks[x].attempt # 0
      <4> DEFINE a == IF sched.state = "none" THEN tasks[x].deadline
                                              ELSE sched.available
      <4>1. a \in Nat /\ "dead_lettered" \in SchedStates
        BY <2>1 DEF TypeOK, Task, Schedule, SchedStates
      <4>2. Write(Row(tasks[x], "dead_lettered", a))
        BY <2>5, <3>3 DEF DeadLetter
      <4> HIDE DEF a
      <4>3. Row(tasks[x], "dead_lettered", a) \in Schedule
        BY <2>1, <4>1, RowType
      <4>4. /\ sched' \in Schedule /\ RowCheck(sched')
            /\ holder' \subseteq Executors
            /\ sched'.state # "claimed" => holder' = {}
            /\ lapsed' \in BOOLEAN
        BY <4>2, <4>3, WriteType
      <4> QED BY <2>2, <2>3, <3>1, <4>4 DEF TypeOK
    <3> QED BY <3>2, <3>3
  <2>6. CASE RecordRefused(x)
    BY <2>2, <2>3, <2>6 DEF RecordRefused, TypeOK
  <2> QED BY <1>5, <2>4, <2>5, <2>6 DEF Record
<1>6. ASSUME NEW x \in Executors, LoadEnvelope(x) PROVE TypeOK'
  <2>1. tasks[x] \in Task
    BY DEF TypeOK
  <2>2. PICK t \in Resolved(tasks[x], NextAttempt(tasks[x]))
                     \cup {Failed(tasks[x], "rejected")} : Become(x, t)
    BY <1>6 DEF LoadEnvelope
  <2>3. t \in Task
    BY <2>1, <2>2, TaskTypes DEF Codes
  <2> QED BY <1>6, <2>2, <2>3 DEF LoadEnvelope, Become, TypeOK
<1>7. ASSUME NEW x \in Executors, CompleteRetry(x) PROVE TypeOK'
  <2>1. Idle \in Task
    BY <1>7, TaskTypes DEF TypeOK
  <2>2. [sched EXCEPT !.state = "completed"] \in Schedule
    BY DEF TypeOK, Schedule, SchedStates
  <2>3. CASE Holds(x)
    <3>1. Write([sched EXCEPT !.state = "completed"])
      BY <1>7, <2>3 DEF CompleteRetry
    <3>2. /\ sched' \in Schedule /\ RowCheck(sched')
          /\ holder' \subseteq Executors
          /\ sched'.state # "claimed" => holder' = {}
          /\ lapsed' \in BOOLEAN
      BY <2>2, <3>1, WriteType
    <3> QED BY <1>7, <2>1, <3>2 DEF CompleteRetry, Become, TypeOK
  <2>4. CASE ~Holds(x)
    BY <1>7, <2>1, <2>4 DEF CompleteRetry, Become, TypeOK
  <2> QED BY <2>3, <2>4
<1>8. ASSUME NEW x \in Executors, ClaimRetry(x) PROVE TypeOK'
  <2>1. RetryTask \in Task
    BY RetryTaskType
  <2>2. Failed(RetryTask, "retryable") \in Task
    BY <2>1, TaskTypes DEF Codes
  <2>3. tasks' \in [Executors -> Task]
    BY <1>8, <2>1, <2>2 DEF ClaimRetry, Become, TypeOK
  <2>4. sched' \in Schedule /\ RowCheck(sched') /\ sched'.state = "claimed"
    BY <1>8 DEF ClaimRetry, Claimable, TypeOK, Schedule, SchedStates, RowCheck
  <2> QED BY <1>8, <2>3, <2>4 DEF ClaimRetry, TypeOK
<1>9. ASSUME NEW x \in Executors, Crash(x) PROVE TypeOK'
  <2>1. Idle \in Task
    BY <1>9, TaskTypes DEF TypeOK
  <2> QED BY <1>9, <2>1 DEF Crash, Become, TypeOK
<1>10. CASE Operator
  <2>1. CASE RetryDeadLetter
    <3> now \in Nat /\ sched \in Schedule
      BY DEF TypeOK
    <3>1. [sched EXCEPT !.state = "scheduled", !.available = now] \in Schedule
      BY DEF Schedule, SchedStates
    <3>2. /\ sched' \in Schedule /\ RowCheck(sched')
          /\ holder' \subseteq Executors
          /\ sched'.state # "claimed" => holder' = {}
          /\ lapsed' \in BOOLEAN
      BY <2>1, <3>1, WriteType DEF RetryDeadLetter
    <3> QED BY <2>1, <3>2 DEF RetryDeadLetter, TypeOK, ItemStatus
  <2>2. CASE DiscardDeadLetter \/ ResolveRetried \/ ReleaseDiscarded
    BY <2>2 DEF DiscardDeadLetter, ResolveRetried, ReleaseDiscarded, TypeOK,
                ItemStatus
  <2> QED BY <1>10, <2>1, <2>2 DEF Operator
<1>11. CASE UNCHANGED vars
  BY <1>11 DEF vars, TypeOK
<1> QED BY <1>1, <1>2, <1>3, <1>4, <1>5, <1>6, <1>7, <1>8, <1>9, <1>10, <1>11
        DEF Next, Proceed

-----------------------------------------------------------------------------

\* Only the consumer's transaction touches the inbox and the effect.
LEMMA EffectFrame == ASSUME [Next]_vars PROVE Apply \/ UNCHANGED effect
<1>1. CASE Tick \/ LeaseLapses \/ Operator
  BY <1>1 DEF Tick, LeaseLapses, Operator, RetryDeadLetter, DiscardDeadLetter,
       ResolveRetried, ReleaseDiscarded
<1>2. ASSUME NEW x \in Executors, TransportDelivers(x) \/ Deliver(x)
      PROVE  Apply \/ UNCHANGED effect
  BY <1>2 DEF TransportDelivers, Deliver, HandlerCommits, DuplicateCompleted,
       ScopeDenied, HandlerRollsBack, CommitReplyLost, RecheckFails
<1>3. ASSUME NEW x \in Executors, Record(x) \/ LoadEnvelope(x) \/ CompleteRetry(x)
      PROVE  Apply \/ UNCHANGED effect
  BY <1>3 DEF Record, ScheduleRetry, DeadLetter, RecordRefused, LoadEnvelope,
       CompleteRetry
<1>4. ASSUME NEW x \in Executors, ClaimRetry(x) \/ Crash(x)
      PROVE  Apply \/ UNCHANGED effect
  BY <1>4 DEF ClaimRetry, Crash
<1>5. CASE UNCHANGED vars
  BY <1>5 DEF vars
<1> QED BY <1>1, <1>2, <1>3, <1>4, <1>5 DEF Next, Proceed

\* The effect is committed once, and the inbox row stays.
LEMMA EffectStep ==
  ASSUME TypeOK, EffectOnce, [Next]_vars
  PROVE  EffectOnce' /\ (inbox => inbox')
<1>1. CASE Apply
  BY <1>1 DEF Apply, FirstSeen, EffectOnce, TypeOK
<1>2. CASE UNCHANGED effect
  BY <1>2 DEF effect, EffectOnce
<1> QED BY <1>1, <1>2, EffectFrame

\* A task is "processed" only when its step saw the inbox row.
LEMMA ProcessedStep ==
  ASSUME TypeOK, EffectOnce, ProcessedInv, [Next]_vars
  PROVE  ProcessedInv'
<1> USE EffectStep
<1>1. CASE Tick \/ LeaseLapses \/ Operator
  BY <1>1 DEF Tick, LeaseLapses, Operator, RetryDeadLetter, DiscardDeadLetter,
       ResolveRetried, ReleaseDiscarded, ProcessedInv
<1>2. ASSUME NEW x \in Executors, NEW t, Become(x, t),
             t.phase = "processed" => inbox'
      PROVE  ProcessedInv'
  BY <1>2 DEF Become, ProcessedInv, TypeOK
<1>3. Idle.phase # "processed"
  BY DEF Idle
<1>4. ASSUME NEW t \in Task, NEW c \in Codes PROVE Failed(t, c).phase # "processed"
  BY DEF Failed, Task
<1>5. ASSUME NEW t \in Task, NEW n PROVE \A u \in Resolved(t, n) : u.phase # "processed"
  BY DEF Resolved, Failed, Task
<1>6. ASSUME NEW x \in Executors, TransportDelivers(x) PROVE ProcessedInv'
  <2>1. PICK t \in Resolved([Idle EXCEPT !.deadline = now + Horizon], 1) :
          Become(x, t)
    BY <1>6 DEF TransportDelivers
  <2>2. tasks[x] \in Task
    BY DEF TypeOK
  <2>3. [Idle EXCEPT !.deadline = now + Horizon] \in Task
    BY <2>2, ConstantsAssumption, TaskTypes DEF TypeOK, Task
  <2> QED BY <1>2, <1>5, <2>1, <2>3
<1>7. ASSUME NEW x \in Executors, Deliver(x) PROVE ProcessedInv'
  <2> tasks[x] \in Task
    BY DEF TypeOK
  <2>1. CASE HandlerCommits(x)
    <3>1. inbox'
      BY <2>1 DEF HandlerCommits, Apply
    <3> QED BY <1>2, <2>1, <3>1 DEF HandlerCommits, Succeeds
  <2>2. CASE DuplicateCompleted(x)
    <3>1. inbox'
      BY <2>2 DEF DuplicateCompleted
    <3> QED BY <1>2, <2>2, <3>1 DEF DuplicateCompleted, Succeeds
  <2>3. CASE ScopeDenied(x) \/ HandlerRollsBack(x) \/ RecheckFails(x)
    BY <1>2, <1>3, <1>4, <2>3 DEF ScopeDenied, HandlerRollsBack, RecheckFails,
       Codes
  <2>4. CASE CommitReplyLost(x)
    <3>1. [tasks[x] EXCEPT !.phase = "recheck"].phase # "processed"
      BY DEF Task
    <3> QED BY <1>2, <2>4, <3>1 DEF CommitReplyLost
  <2> QED BY <1>7, <2>1, <2>2, <2>3, <2>4 DEF Deliver
<1>8. ASSUME NEW x \in Executors, Record(x) \/ CompleteRetry(x) \/ Crash(x)
      PROVE  ProcessedInv'
  <2>1. Become(x, Idle)
    BY <1>8 DEF Record, ScheduleRetry, DeadLetter, RecordRefused, CompleteRetry,
         Crash
  <2> QED BY <1>2, <1>3, <2>1
<1>9. ASSUME NEW x \in Executors, LoadEnvelope(x) PROVE ProcessedInv'
  <2> tasks[x] \in Task
    BY DEF TypeOK
  <2>1. PICK t \in Resolved(tasks[x], NextAttempt(tasks[x]))
                     \cup {Failed(tasks[x], "rejected")} : Become(x, t)
    BY <1>9 DEF LoadEnvelope
  <2>2. t.phase # "processed"
    BY <1>4, <1>5, <2>1 DEF Codes
  <2> QED BY <1>2, <2>1, <2>2
<1>10. ASSUME NEW x \in Executors, ClaimRetry(x) PROVE ProcessedInv'
  <2>1. RetryTask \in Task /\ RetryTask.phase # "processed"
    BY RetryTaskType DEF RetryTask
  <2>2. Failed(RetryTask, "retryable").phase # "processed"
    BY <1>4, <2>1 DEF Codes
  <2> QED BY <1>2, <1>10, <2>1, <2>2 DEF ClaimRetry
<1>11. CASE UNCHANGED vars
  BY <1>11 DEF vars, ProcessedInv
<1> QED BY <1>1, <1>6, <1>7, <1>8, <1>9, <1>10, <1>11 DEF Next, Proceed

\* Schedules and items are closed with what they claim.
LEMMA ClosedStep ==
  ASSUME TypeOK, EffectOnce, ProcessedInv, ClosedIsAccountedFor,
         RecoveredWasApplied, [Next]_vars
  PROVE  ClosedIsAccountedFor' /\ RecoveredWasApplied'
<1> USE EffectStep DEF ClosedIsAccountedFor, RecoveredWasApplied, control
<1>1. CASE UNCHANGED <<sched, item>>
  BY <1>1
<1>2. CASE Tick \/ LeaseLapses
  BY <1>1, <1>2 DEF Tick, LeaseLapses
<1>3. ASSUME NEW x \in Executors, \/ TransportDelivers(x) \/ Deliver(x)
                                  \/ LoadEnvelope(x) \/ Crash(x)
      PROVE  UNCHANGED <<sched, item>>
  BY <1>3 DEF TransportDelivers, Deliver, HandlerCommits, DuplicateCompleted,
       ScopeDenied, HandlerRollsBack, CommitReplyLost, RecheckFails,
       LoadEnvelope, Crash
<1>4. ASSUME NEW x \in Executors, ScheduleRetry(x)
      PROVE  sched'.state = "scheduled" /\ UNCHANGED item
  BY <1>4 DEF ScheduleRetry, Write, Row
<1>5. ASSUME NEW x \in Executors, DeadLetter(x)
      PROVE  /\ sched' = sched \/ sched'.state = "dead_lettered"
             /\ item' # "none"
             /\ item' = item \/ item' = "open"
  BY <1>5 DEF DeadLetter, Write, Row, OpenItem
<1>6. ASSUME NEW x \in Executors, RecordRefused(x)
      PROVE  UNCHANGED <<sched, item>>
  BY <1>6 DEF RecordRefused
<1>7. ASSUME NEW x \in Executors, CompleteRetry(x)
      PROVE  /\ UNCHANGED item
             /\ inbox'
             /\ sched' = sched \/ sched'.state = "completed"
  <2>1. inbox
    BY <1>7 DEF CompleteRetry, ProcessedInv
  <2>2. sched' = sched \/ sched' = [sched EXCEPT !.state = "completed"]
    BY <1>7 DEF CompleteRetry, Write
  <2> QED BY <1>7, <2>1, <2>2 DEF CompleteRetry, TypeOK, Schedule
<1>8. ASSUME NEW x \in Executors, ClaimRetry(x)
      PROVE  sched'.state = "claimed" /\ UNCHANGED item
  BY <1>8 DEF ClaimRetry, TypeOK, Schedule
<1>9. CASE Operator
  <2>1. CASE RetryDeadLetter
    BY <2>1 DEF RetryDeadLetter, Write, TypeOK, Schedule
  <2>2. CASE DiscardDeadLetter \/ ReleaseDiscarded
    BY <2>2 DEF DiscardDeadLetter, ReleaseDiscarded
  <2>3. CASE ResolveRetried
    BY <2>3 DEF ResolveRetried, RetryDone
  <2> QED BY <1>9, <2>1, <2>2, <2>3 DEF Operator
<1>10. CASE UNCHANGED vars
  BY <1>1, <1>10 DEF vars
<1> QED BY <1>1, <1>2, <1>3, <1>4, <1>5, <1>6, <1>7, <1>8, <1>9, <1>10
        DEF Next, Proceed, Record

\* Deadlines come from deliveries by the transport and are only handed on.
LEMMA DeadlineStep ==
  ASSUME TypeOK, HorizonBoundsRetries, DeadlineInv, [Next]_vars
  PROVE  HorizonBoundsRetries' /\ DeadlineInv'
<1> USE ConstantsAssumption DEF HorizonBoundsRetries, DeadlineInv, control, bounds
<1>1. now \in Nat /\ latest \in Nat /\ Horizon \in Nat
  BY DEF TypeOK
<1>2. ASSUME NEW x \in Executors, NEW t, Become(x, t),
             t.deadline <= latest + Horizon, UNCHANGED <<now, latest>>,
             sched'.deadline <= latest + Horizon
      PROVE  HorizonBoundsRetries' /\ DeadlineInv'
  BY <1>2 DEF Become, TypeOK
<1>3. CASE Tick
  BY <1>1, <1>3 DEF Tick
<1>4. CASE LeaseLapses
  BY <1>4 DEF LeaseLapses
<1>5. ASSUME NEW x \in Executors, TransportDelivers(x)
      PROVE  HorizonBoundsRetries' /\ DeadlineInv'
  <2>1. PICK t \in Resolved([Idle EXCEPT !.deadline = now + Horizon], 1) :
          Become(x, t)
    BY <1>5 DEF TransportDelivers
  <2>2. t.deadline = now + Horizon
    BY <2>1 DEF Resolved, Failed, Idle
  <2>3. latest' = now /\ now' = now /\ sched' = sched
    BY <1>5 DEF TransportDelivers
  <2>4. sched.deadline \in Nat /\ \A y \in Executors : tasks[y].deadline \in Nat
    BY DEF TypeOK, Schedule, Task
  <2>5. \A y \in Executors : tasks'[y] = IF y = x THEN t ELSE tasks[y]
    BY <2>1 DEF Become, TypeOK
  <2>6. sched.deadline <= now + Horizon
    BY <1>1, <2>4
  <2>7. \A y \in Executors : tasks[y].deadline <= now + Horizon
    BY <1>1, <2>4
  <2> QED BY <1>1, <2>2, <2>3, <2>5, <2>6, <2>7
<1>6. Idle.deadline <= latest + Horizon
  BY <1>1 DEF Idle
<1>7. ASSUME NEW t \in Task, NEW c PROVE Failed(t, c).deadline = t.deadline
  BY DEF Failed, Task
<1>8. ASSUME NEW x \in Executors, Deliver(x)
      PROVE  HorizonBoundsRetries' /\ DeadlineInv'
  <2> tasks[x] \in Task
    BY DEF TypeOK
  <2>1. \A p \in Phases : [tasks[x] EXCEPT !.phase = p].deadline = tasks[x].deadline
    BY DEF Task
  <2>2. PICK t : Become(x, t) /\ (\/ t = Idle
                                 \/ \E c \in Codes : t = Failed(tasks[x], c)
                                 \/ \E p \in Phases : t = [tasks[x] EXCEPT !.phase = p])
    BY <1>8 DEF Deliver, HandlerCommits, DuplicateCompleted, ScopeDenied,
         HandlerRollsBack, CommitReplyLost, RecheckFails, Succeeds, Codes, Phases
  <2>3. t.deadline <= latest + Horizon
    <3>1. tasks[x].deadline <= latest + Horizon
      OBVIOUS
    <3>2. t = Idle \/ t.deadline = tasks[x].deadline
      <4>1. CASE \E c \in Codes : t = Failed(tasks[x], c)
        BY <1>7, <4>1
      <4>2. CASE \E p \in Phases : t = [tasks[x] EXCEPT !.phase = p]
        BY <2>1, <4>2
      <4> QED BY <2>2, <4>1, <4>2
    <3> QED BY <1>6, <3>1, <3>2
  <2>4. UNCHANGED <<now, latest, sched>>
    BY <1>8 DEF Deliver, HandlerCommits, DuplicateCompleted, ScopeDenied,
         HandlerRollsBack, CommitReplyLost, RecheckFails
  <2> QED BY <1>2, <2>2, <2>3, <2>4
<1>9. ASSUME NEW x \in Executors, Record(x)
      PROVE  HorizonBoundsRetries' /\ DeadlineInv'
  <2>1. UNCHANGED <<now, latest>> /\ Become(x, Idle)
    BY <1>9 DEF Record, ScheduleRetry, DeadLetter, RecordRefused
  <2>2. sched' = sched \/ sched'.deadline = tasks[x].deadline
    <3>1. ASSUME NEW s, NEW a, Write(Row(tasks[x], s, a))
          PROVE  sched'.deadline = tasks[x].deadline
      BY <3>1 DEF Write, Row
    <3>2. CASE ScheduleRetry(x)
      BY <3>1, <3>2 DEF ScheduleRetry
    <3>3. CASE DeadLetter(x)
      BY <3>1, <3>3 DEF DeadLetter
    <3>4. CASE RecordRefused(x)
      BY <3>4 DEF RecordRefused
    <3> QED BY <1>9, <3>2, <3>3, <3>4 DEF Record
  <2> QED BY <1>2, <1>6, <2>1, <2>2
<1>10. ASSUME NEW x \in Executors, LoadEnvelope(x)
       PROVE  HorizonBoundsRetries' /\ DeadlineInv'
  <2> tasks[x] \in Task
    BY DEF TypeOK
  <2>1. PICK t \in Resolved(tasks[x], NextAttempt(tasks[x]))
                     \cup {Failed(tasks[x], "rejected")} : Become(x, t)
    BY <1>10 DEF LoadEnvelope
  <2>2. t.deadline = tasks[x].deadline
    BY <2>1 DEF Resolved, Failed, Task
  <2> QED BY <1>2, <1>10, <2>1, <2>2 DEF LoadEnvelope
<1>11. ASSUME NEW x \in Executors, CompleteRetry(x) \/ Crash(x)
       PROVE  HorizonBoundsRetries' /\ DeadlineInv'
  <2>1. sched'.deadline = sched.deadline
    BY <1>11 DEF CompleteRetry, Crash, Write, TypeOK, Schedule
  <2> QED BY <1>2, <1>6, <1>11, <2>1 DEF CompleteRetry, Crash
<1>12. ASSUME NEW x \in Executors, ClaimRetry(x)
       PROVE  HorizonBoundsRetries' /\ DeadlineInv'
  <2>1. RetryTask \in Task /\ RetryTask.deadline = sched.deadline
    BY RetryTaskType DEF RetryTask
  <2>2. Failed(RetryTask, "retryable").deadline = sched.deadline
    BY <1>7, <2>1
  <2>3. sched'.deadline = sched.deadline
    BY <1>12 DEF ClaimRetry, TypeOK, Schedule
  <2> QED BY <1>2, <1>12, <2>1, <2>2, <2>3 DEF ClaimRetry
<1>13. CASE Operator
  <2>1. sched'.deadline = sched.deadline /\ UNCHANGED <<now, latest, tasks>>
    BY <1>13 DEF Operator, RetryDeadLetter, DiscardDeadLetter, ResolveRetried,
         ReleaseDiscarded, Write, TypeOK, Schedule
  <2> QED BY <2>1
<1>14. CASE UNCHANGED vars
  BY <1>14 DEF vars
<1> QED BY <1>3, <1>4, <1>5, <1>8, <1>9, <1>10, <1>11, <1>12, <1>13, <1>14
        DEF Next, Proceed

\* Every step keeps the invariant.
LEMMA InvStep == ASSUME ConsumerInv, [Next]_vars PROVE ConsumerInv'
BY TypeStep, EffectStep, ProcessedStep, ClosedStep, DeadlineStep
   DEF ConsumerInv
-----------------------------------------------------------------------------

\* The invariant holds throughout.
THEOREM ConsumerInvariant == Spec => []ConsumerInv
BY InvInit, InvStep, PTL DEF Spec

\* Every variable stays in its type, and the row passes the CHECKs of its table.
THEOREM TypeCorrect == Spec => []TypeOK
<1>1. ConsumerInv => TypeOK
  BY DEF ConsumerInv
<1> QED BY <1>1, ConsumerInvariant, PTL

\* The effect of a handler is committed at most once, with the inbox row.
THEOREM EffectCommittedOnce == Spec => []EffectOnce
<1>1. ConsumerInv => EffectOnce
  BY DEF ConsumerInv
<1> QED BY <1>1, ConsumerInvariant, PTL

\* A recorded failure ends with the effect or with a dead-letter item.
THEOREM NoFailureForgotten == Spec => []ClosedIsAccountedFor
<1>1. ConsumerInv => ClosedIsAccountedFor
  BY DEF ConsumerInv
<1> QED BY <1>1, ConsumerInvariant, PTL

\* A recovered item stands for a committed effect.
THEOREM RecoveryIsReal == Spec => []RecoveredWasApplied
<1>1. ConsumerInv => RecoveredWasApplied
  BY DEF ConsumerInv
<1> QED BY <1>1, ConsumerInvariant, PTL

\* Retries do not outlive the horizon of the latest delivery by the transport.
THEOREM RetriesWithinHorizon == Spec => []HorizonBoundsRetries
<1>1. ConsumerInv => HorizonBoundsRetries
  BY DEF ConsumerInv
<1> QED BY <1>1, ConsumerInvariant, PTL
-----------------------------------------------------------------------------
(* The refinement of HandledOnce.                                          *)

\* A step that leaves duty and report alone takes the effect or changes nothing
\* of what was promised.
LEMMA EffectIsTaken ==
  ASSUME EffectOnce, [Next]_vars, Duty' = Duty, item' = item
  PROVE  Handling!TakeEffect \/ UNCHANGED Handling!hvars
<1>1. CASE Apply
  BY <1>1 DEF Apply, FirstSeen, EffectOnce, Handling!TakeEffect
<1>2. CASE UNCHANGED effect
  BY <1>2 DEF effect, Handling!hvars
<1> QED BY <1>1, <1>2, EffectFrame

\* Every step is one of the careful consumer's, or a stutter.
LEMMA HandlingStep ==
  ASSUME ConsumerInv, [Next]_vars
  PROVE  [Handling!HandledNext]_Handling!hvars
<1>0. /\ TypeOK
      /\ (sched' = sched /\ item' = item) => Handling!TakeEffect \/ UNCHANGED Handling!hvars
  BY EffectIsTaken DEF ConsumerInv, Duty
<1>1. CASE sched' = sched /\ item' = item
  BY <1>0, <1>1 DEF Handling!HandledNext
<1>2. CASE Tick \/ LeaseLapses
  <2>1. sched' = sched /\ item' = item
    BY <1>2 DEF Tick, LeaseLapses, control
  <2> QED BY <1>1, <2>1
<1>3. ASSUME NEW x \in Executors, \/ TransportDelivers(x) \/ Deliver(x) \/ LoadEnvelope(x)
                                  \/ RecordRefused(x) \/ Crash(x)
      PROVE  sched' = sched /\ item' = item
  BY <1>3 DEF TransportDelivers, Deliver, HandlerCommits, DuplicateCompleted, ScopeDenied,
       HandlerRollsBack, CommitReplyLost, RecheckFails, LoadEnvelope, RecordRefused, Crash, control
<1>4. ASSUME NEW x \in Executors, ScheduleRetry(x)
      PROVE  Handling!Owe
  <2>1. sched'.state = "scheduled" /\ UNCHANGED <<item, effect>>
    BY <1>4 DEF ScheduleRetry, Write, Row
  <2>2. Duty' = "owed"
    BY <2>1 DEF Duty
  <2> QED BY <2>1, <2>2 DEF effect, Handling!Owe
<1>5. ASSUME NEW x \in Executors, DeadLetter(x)
      PROVE  Handling!GiveUp
  <2>1. UNCHANGED effect /\ item' = IF item = "none" THEN "open" ELSE item
    BY <1>5 DEF DeadLetter, OpenItem
  <2>2. sched' = sched \/ sched'.state = "dead_lettered"
    BY <1>5 DEF DeadLetter, Write, Row, control
  <2>3. Duty' \in {Duty, "failed"}
    BY <2>2 DEF Duty
  <2> QED BY <2>1, <2>3 DEF effect, Handling!GiveUp
<1>6. ASSUME NEW x \in Executors, CompleteRetry(x)
      PROVE  Handling!Meet \/ (sched' = sched /\ item' = item)
  <2>1. CASE Holds(x)
    <3>1. sched.state = "claimed"
      BY <1>0, <2>1 DEF Holds, TypeOK
    <3>2. applied = 1
      BY <1>6 DEF CompleteRetry, ConsumerInv, ProcessedInv, EffectOnce
    <3>3. sched' = [sched EXCEPT !.state = "completed"] /\ UNCHANGED <<item, effect>>
      BY <1>6, <2>1 DEF CompleteRetry, Write
    <3>4. sched'.state = "completed"
      BY <1>0, <3>3 DEF TypeOK, Schedule
    <3>5. Duty = "owed" /\ Duty' = "met"
      BY <3>1, <3>4 DEF Duty
    <3> QED BY <3>2, <3>3, <3>5 DEF effect, Handling!Meet
  <2>2. CASE ~Holds(x)
    BY <1>6, <2>2 DEF CompleteRetry, control
  <2> QED BY <2>1, <2>2
<1>7. ASSUME NEW x \in Executors, ClaimRetry(x)
      PROVE  Handling!Owe
  <2>1. sched'.state = "claimed" /\ UNCHANGED <<item, effect>>
    BY <1>0, <1>7 DEF ClaimRetry, TypeOK, Schedule
  <2>2. Duty' = "owed"
    BY <2>1 DEF Duty
  <2> QED BY <2>1, <2>2 DEF effect, Handling!Owe
<1>8. CASE RetryDeadLetter
  <2>1. /\ item = "open" /\ item' = "retry_scheduled" /\ UNCHANGED effect
        /\ sched.state = "dead_lettered"
        /\ sched' = [sched EXCEPT !.state = "scheduled", !.available = now]
    BY <1>8 DEF RetryDeadLetter, Write
  <2>2. sched'.state = "scheduled"
    BY <1>0, <2>1 DEF TypeOK, Schedule
  <2>3. Duty = "failed" /\ Duty' = "owed"
    BY <2>1, <2>2 DEF Duty
  <2> QED BY <2>1, <2>3 DEF effect, Handling!AskAgain, Handling!HandledNext
<1>9. CASE DiscardDeadLetter \/ ReleaseDiscarded
  <2>1. Duty' = Duty /\ UNCHANGED applied
    BY <1>9 DEF DiscardDeadLetter, ReleaseDiscarded, control, effect, Duty
  <2> QED BY <1>9, <2>1 DEF DiscardDeadLetter, ReleaseDiscarded, Handling!Discard,
                            Handling!Release, Handling!HandledNext
<1>10. CASE ResolveRetried
  <2>1. Duty' = Duty /\ Duty = "met" /\ UNCHANGED applied
    BY <1>10 DEF ResolveRetried, RetryDone, control, effect, Duty
  <2> QED BY <1>10, <2>1 DEF ResolveRetried, Handling!Recover, Handling!HandledNext
<1>11. CASE UNCHANGED vars
  BY <1>1, <1>11 DEF vars, control
<1> QED BY <1>1, <1>2, <1>3, <1>4, <1>5, <1>6, <1>7, <1>8, <1>9, <1>10, <1>11
        DEF Next, Proceed, Record, Operator, Handling!HandledNext

\* The executions, the schedule and the operators implement the careful consumer.
THEOREM HandlingRefinement == Spec => ImplementsHandling
<1>1. Init => Handling!HandledInit
  BY DEF Init, Duty, NoSchedule, Handling!HandledInit
<1>2. ConsumerInv /\ [Next]_vars => [Handling!HandledNext]_Handling!hvars
  BY HandlingStep
<1> QED
  BY <1>1, <1>2, ConsumerInvariant, PTL DEF Spec, ImplementsHandling, Handling!HandledSpec

\* What the promise comes to, of itself: a duty is met only with the effect and
\* given up only with a report, and recovered means that the effect is there.
THEOREM HandlingIsAccountedFor == Handling!HandledSpec => []Handling!Accounted
<1>1. Handling!HandledInit => Handling!Accounted
  BY DEF Handling!HandledInit, Handling!Accounted
<1>2. ASSUME Handling!Accounted, [Handling!HandledNext]_Handling!hvars
      PROVE  Handling!Accounted'
  <2> USE DEF Handling!Accounted
  <2>1. CASE Handling!TakeEffect
    BY <1>2, <2>1 DEF Handling!TakeEffect
  <2>2. CASE Handling!Owe \/ Handling!Meet
    BY <1>2, <2>2 DEF Handling!Owe, Handling!Meet
  <2>3. CASE Handling!GiveUp
    BY <1>2, <2>3 DEF Handling!GiveUp
  <2>4. CASE Handling!AskAgain
    BY <1>2, <2>4 DEF Handling!AskAgain
  <2>5. CASE Handling!Discard \/ Handling!Release
    BY <1>2, <2>5 DEF Handling!Discard, Handling!Release
  <2>6. CASE Handling!Recover
    BY <1>2, <2>6 DEF Handling!Recover
  <2>7. CASE UNCHANGED Handling!hvars
    BY <1>2, <2>7 DEF Handling!hvars
  <2> QED BY <1>2, <2>1, <2>2, <2>3, <2>4, <2>5, <2>6, <2>7 DEF Handling!HandledNext
<1> QED BY <1>1, <1>2, PTL DEF Handling!HandledSpec
=============================================================================
