------------------------ MODULE OutboxDispatchProofs ------------------------
(***************************************************************************)
(* Proofs about OutboxDispatch for any number of events, aggregates,       *)
(* workers, attempts and faults.                                           *)
(***************************************************************************)
EXTENDS OutboxDispatch, TLAPS

\* An open lease belongs to a recorded, unpublished row without an error whose
\* predecessors are out of the way.
LeaseInv ==
  \A e \in Events :
    lease[e] # 0 => /\ e \in 1..recorded
                    /\ e \notin published
                    /\ error[e] = NoError
                    /\ Earlier(e) \subseteq published \cup released

\* A released row stays parked, and its dead letter is closed.
ReleasedInv ==
  \A e \in released : /\ e \in 1..recorded
                      /\ e \notin published
                      /\ lease[e] = 0
                      /\ error[e] # NoError
                      /\ dead[e] = "resolved"

\* A dead letter in an operator's hands is on a row the policy will not retry.
DeadInv ==
  \A e \in Events :
    dead[e] \in {"open", "discarded"} => Parked(e) /\ Terminal(e)

\* What a worker remembers about its claim stays true after it lost the lease.
TaskInv ==
  \A w \in Workers : \A t \in tasks[w] :
    /\ t.event \in 1..recorded
    /\ Earlier(t.event) \subseteq published \cup released
    /\ t.phase = "acknowledged" => t.event \in handed

WireInv ==
  \A m \in wire : /\ m[1] \in 1..recorded
                  /\ Earlier(m[1]) \subseteq published \cup released

HandedInv ==
  /\ handed \subseteq 1..recorded
  /\ published \subseteq handed
  /\ FirstHandoffInOrder

OutboxInv ==
  /\ TypeOK
  /\ LeaseInv
  /\ ReleasedInv
  /\ DeadInv
  /\ TaskInv
  /\ WireInv
  /\ HandedInv
-----------------------------------------------------------------------------

\* The rows ahead of a row are rows.
LEMMA EarlierIsEvent ==
  ASSUME NEW e \in Events
  PROVE  Earlier(e) \subseteq Events
BY ConstantsAssumption DEF Earlier, Events

\* A task keeps its type when its phase moves on.
LEMMA TaskMoves ==
  ASSUME NEW t \in Task, NEW p \in {"queued", "publishing"} \cup Answers
  PROVE  /\ [t EXCEPT !.phase = p] \in Task
         /\ [t EXCEPT !.phase = p].event = t.event
         /\ [t EXCEPT !.phase = p].token = t.token
         /\ [t EXCEPT !.phase = p].phase = p
BY DEF Task

\* The empty table is well-typed.
LEMMA TypeInit == ASSUME Init PROVE TypeOK
BY ConstantsAssumption DEF Init, TypeOK, Events, DeadStatus, NoError

\* Every step keeps every variable in its type.
LEMMA TypeStep == ASSUME TypeOK, [Next]_vars PROVE TypeOK'
<1> USE ConstantsAssumption DEF row, claimVars, timeVars, outside
<1>1. CASE Append
  <2>1. recorded' \in 0..NumEvents /\ recorded + 1 \in Events
    BY <1>1 DEF Append, TypeOK, Events
  <2>2. due' \subseteq Events
    BY <1>1, <2>1 DEF Append, TypeOK
  <2> QED BY <1>1, <2>1, <2>2 DEF Append, TypeOK
<1>2. ASSUME NEW e \in Events, Clock(e) PROVE TypeOK'
  <2>1. CASE BecomeDue(e)
    BY <2>1 DEF BecomeDue, TypeOK, Events
  <2>2. CASE LeaseExpires(e)
    BY <2>2 DEF LeaseExpires, TypeOK, Events
  <2>3. CASE HorizonPasses(e)
    BY <2>3 DEF HorizonPasses, TypeOK, Events
  <2> QED BY <1>2, <2>1, <2>2, <2>3 DEF Clock
<1>3. ASSUME NEW e \in Events, Operator(e) PROVE TypeOK'
  BY <1>3 DEF Operator, RetryDeadLetter, DiscardDeadLetter, ResolveRetried,
              ReleaseDiscarded, TypeOK, DeadStatus, NoError
<1>4. ASSUME NEW w \in Workers, NEW batch \in SUBSET Events, Claim(w, batch)
      PROVE  TypeOK'
  <2>1. \A e \in batch : attempt[e] + 1 \in 1..MaxHandoffs
    BY <1>4 DEF Claim, Claimable, WithinBudget, TypeOK
  <2>2. {NewTask(e) : e \in batch} \subseteq Task
    BY <2>1 DEF NewTask, Task
  <2>3. tasks' \in [Workers -> SUBSET Task]
    BY <1>4, <2>2 DEF Claim, TypeOK
  <2>4. attempt' \in [Events -> 0..MaxHandoffs] /\ lease' \in [Events -> 0..MaxHandoffs]
    BY <1>4, <2>1 DEF Claim, TypeOK
  <2> QED BY <1>4, <2>3, <2>4 DEF Claim, TypeOK
<1>5. ASSUME NEW w \in Workers, Deliver(w) PROVE TypeOK'
  <2>1. PICK t \in tasks[w] : \/ StartPublish(w, t) \/ AdapterTimeout(w, t)
                              \/ MarkPublished(w, t) \/ MarkFailed(w, t)
    BY <1>5 DEF Deliver
  <2>2. t \in Task
    BY <2>1 DEF TypeOK
  <2> /\ t.event \in Events
      /\ t.token \in 1..MaxHandoffs
      /\ t.phase \in {"queued", "publishing"} \cup Answers
    BY <2>2 DEF Task
  <2>3. CASE StartPublish(w, t)
    <3> [t EXCEPT !.phase = "publishing"] \in Task
      BY <2>2, TaskMoves
    <3>1. tasks' \in [Workers -> SUBSET Task]
      BY <2>3 DEF StartPublish, TypeOK
    <3>2. wire' \subseteq Events \X (1..MaxHandoffs)
      BY <2>3 DEF StartPublish, TypeOK
    <3> QED BY <2>3, <3>1, <3>2 DEF StartPublish, TypeOK
  <2>4. CASE AdapterTimeout(w, t)
    <3> [t EXCEPT !.phase = "transient"] \in Task
      BY <2>2, TaskMoves DEF Answers, Failures
    <3>1. tasks' \in [Workers -> SUBSET Task]
      BY <2>4 DEF AdapterTimeout, TimedOut, TypeOK
    <3> QED BY <2>4, <3>1 DEF AdapterTimeout, TypeOK
  <2>5. CASE MarkPublished(w, t)
    <3>1. tasks' \in [Workers -> SUBSET Task]
      BY <2>5 DEF MarkPublished, TypeOK
    <3> 0 \in 0..MaxHandoffs
      OBVIOUS
    <3>2. lease' \in [Events -> 0..MaxHandoffs]
      <4>1. lease' = [lease EXCEPT ![t.event] = 0] \/ lease' = lease
        BY <2>5 DEF MarkPublished
      <4> QED BY <4>1 DEF TypeOK
    <3>4. error' \in [Events -> Failures \cup {NoError}]
      BY <2>5 DEF MarkPublished, TypeOK
    <3>3. expired' \subseteq Events /\ published' \subseteq Events
      BY <2>5 DEF MarkPublished, TypeOK
    <3> QED BY <2>5, <3>1, <3>2, <3>3, <3>4 DEF MarkPublished, TypeOK
  <2>6. CASE MarkFailed(w, t)
    <3>1. tasks' \in [Workers -> SUBSET Task]
      BY <2>6 DEF MarkFailed, TypeOK
    <3> 0 \in 0..MaxHandoffs
      OBVIOUS
    <3>2. lease' \in [Events -> 0..MaxHandoffs]
      BY <2>6 DEF MarkFailed, TypeOK
    <3>3. error' \in [Events -> Failures \cup {NoError}]
      BY <2>6 DEF MarkFailed, TypeOK
    <3>4. expired' \subseteq Events
      BY <2>6 DEF MarkFailed, TypeOK
    <3> QED BY <2>6, <3>1, <3>2, <3>3, <3>4 DEF MarkFailed, TypeOK
  <2> QED BY <2>1, <2>3, <2>4, <2>5, <2>6
<1>6. ASSUME NEW w \in Workers, Fault(w) PROVE TypeOK'
  <2>1. faults < MaxFaults /\ faults' = faults + 1
    BY <1>6 DEF Fault, Crash, SettlementFails
  <2>2. tasks' \in [Workers -> SUBSET Task]
    <3>1. CASE Crash(w)
      BY <3>1 DEF Crash, TypeOK
    <3>2. ASSUME NEW t \in tasks[w], SettlementFails(w, t)
          PROVE  tasks' \in [Workers -> SUBSET Task]
      BY <3>2 DEF SettlementFails, TypeOK
    <3> QED BY <1>6, <3>1, <3>2 DEF Fault
  <2>3. UNCHANGED <<row, dead, wire, handed>>
    BY <1>6 DEF Fault, Crash, SettlementFails
  <2> QED BY <2>1, <2>2, <2>3 DEF TypeOK
<1>7. CASE Transport
  <2>1. PICK m \in wire : TransportAccepts(m) \/ TransportFails(m)
    BY <1>7 DEF Transport
  <2>2. m[1] \in Events
    BY <2>1 DEF TypeOK
  <2>3. \A answer \in Answers : Heard(m, answer) \in [Workers -> SUBSET Task]
    <3>1. \A answer \in Answers : \A t \in Task :
            (IF t.event = m[1] /\ t.token = m[2] /\ t.phase = "publishing"
               THEN [t EXCEPT !.phase = answer] ELSE t) \in Task
      BY TaskMoves
    <3>2. \A v \in Workers : tasks[v] \subseteq Task
      BY DEF TypeOK
    <3> QED BY <3>1, <3>2 DEF Heard
  <2>4. tasks' \in [Workers -> SUBSET Task]
    BY <2>1, <2>3 DEF TransportAccepts, TransportFails, Answers, Failures
  <2> QED BY <2>1, <2>2, <2>4 DEF TransportAccepts, TransportFails, TypeOK
<1>8. CASE SchedulePoll
  BY <1>8 DEF SchedulePoll, TypeOK, DeadStatus
<1>9. CASE UNCHANGED vars
  BY <1>9 DEF vars, TypeOK
<1> QED
  BY <1>1, <1>2, <1>3, <1>4, <1>5, <1>6, <1>7, <1>8, <1>9 DEF Next, ClaimSome

\* The variables keep their types whatever the constants are.
THEOREM TypeCorrect == Spec => []TypeOK
BY TypeInit, TypeStep, PTL DEF Spec

-----------------------------------------------------------------------------

\* The invariant holds of the empty table.
LEMMA InvInit == ASSUME Init PROVE OutboxInv
BY TypeInit
   DEF Init, OutboxInv, LeaseInv, ReleasedInv, DeadInv, TaskInv, WireInv,
       HandedInv, FirstHandoffInOrder, Earlier, Events

\* Every step keeps the invariant.
LEMMA InvStep == ASSUME OutboxInv, [Next]_vars PROVE OutboxInv'
<1> USE DEF OutboxInv, LeaseInv, ReleasedInv, DeadInv, TaskInv, WireInv,
            HandedInv, FirstHandoffInOrder, Parked, Terminal,
            row, claimVars, timeVars, outside
<1>0. TypeOK'
  BY TypeStep
<1>1. CASE Append
  BY <1>0, <1>1 DEF Append, TypeOK
<1>2. ASSUME NEW e \in Events, Clock(e) PROVE OutboxInv'
  BY <1>0, <1>2 DEF Clock, BecomeDue, LeaseExpires, HorizonPasses, TypeOK
<1>3. ASSUME NEW e \in Events, Operator(e) PROVE OutboxInv'
  <2>1. CASE RetryDeadLetter(e)
    BY <1>0, <2>1 DEF RetryDeadLetter, Retriable, TypeOK
  <2>2. CASE DiscardDeadLetter(e)
    BY <1>0, <2>2 DEF DiscardDeadLetter, Discardable, TypeOK
  <2>3. CASE ResolveRetried(e)
    BY <1>0, <2>3 DEF ResolveRetried, TypeOK
  <2>4. CASE ReleaseDiscarded(e)
    BY <1>0, <2>4 DEF ReleaseDiscarded, TypeOK
  <2> QED BY <1>3, <2>1, <2>2, <2>3, <2>4 DEF Operator
<1>4. ASSUME NEW w \in Workers, NEW batch \in SUBSET Events, Claim(w, batch)
      PROVE  OutboxInv'
  BY <1>0, <1>4 DEF Claim, Claimable, Head, NewTask, TypeOK
<1>5. ASSUME NEW w \in Workers, Deliver(w) PROVE OutboxInv'
  <2>1. PICK t \in tasks[w] : \/ StartPublish(w, t) \/ AdapterTimeout(w, t)
                              \/ MarkPublished(w, t) \/ MarkFailed(w, t)
    BY <1>5 DEF Deliver
  <2>2. t \in Task
    BY <2>1 DEF TypeOK
  <2>3. CASE StartPublish(w, t)
    <3>1. \A v \in Workers : \A u \in tasks'[v] :
            u \in tasks[v] \/ (u.event = t.event /\ u.phase = "publishing" /\ v = w)
      <4>1. /\ [t EXCEPT !.phase = "publishing"].event = t.event
            /\ [t EXCEPT !.phase = "publishing"].phase = "publishing"
        BY <2>2, TaskMoves
      <4>2. /\ tasks'[w] = (tasks[w] \ {t}) \cup {[t EXCEPT !.phase = "publishing"]}
            /\ \A v \in Workers \ {w} : tasks'[v] = tasks[v]
        BY <2>3 DEF StartPublish, TypeOK
      <4> QED BY <4>1, <4>2
    <3>2. TaskInv'
      BY <2>1, <2>3, <3>1 DEF StartPublish
    <3>3. WireInv'
      BY <2>1, <2>3 DEF StartPublish
    <3>4. UNCHANGED <<row, dead, handed>>
      BY <2>3 DEF StartPublish
    <3> QED BY <1>0, <3>2, <3>3, <3>4
  <2>4. CASE AdapterTimeout(w, t)
    <3>0. [t EXCEPT !.phase = TimedOut].event = t.event
          /\ [t EXCEPT !.phase = TimedOut].phase = "transient"
      BY <2>2, TaskMoves DEF TimedOut, Answers, Failures
    <3>1. \A v \in Workers : \A u \in tasks'[v] :
            u \in tasks[v] \/ (u.event = t.event /\ u.phase = "transient" /\ v = w)
      <4>1. /\ tasks'[w] = (tasks[w] \ {t}) \cup {[t EXCEPT !.phase = TimedOut]}
            /\ \A v \in Workers \ {w} : tasks'[v] = tasks[v]
        BY <2>4 DEF AdapterTimeout, TypeOK
      <4> QED BY <3>0, <4>1
    <3>2. UNCHANGED <<row, dead, outside>>
      BY <2>4 DEF AdapterTimeout
    <3>3. TaskInv'
      BY <2>1, <3>1, <3>2
    <3> QED BY <1>0, <3>2, <3>3
  <2> t.event \in Events /\ t.token \in 1..MaxHandoffs
    BY <2>2 DEF Task
  <2>5. CASE MarkPublished(w, t)
    <3>1. \A v \in Workers : tasks'[v] \subseteq tasks[v]
      BY <2>5 DEF MarkPublished, TypeOK
    <3>2. t.event \in handed
      BY <2>1, <2>5 DEF MarkPublished, Acknowledged
    <3>3. CASE ~Fenced(t)
      BY <1>0, <2>5, <3>1, <3>3 DEF MarkPublished
    <3>4. CASE Fenced(t)
      <4>1. /\ error[t.event] = NoError
            /\ t.event \notin published \cup released
        BY <3>4, <2>1 DEF Fenced, TypeOK
      <4>2. \A e \in Events \ {t.event} : lease'[e] = lease[e] /\ error'[e] = error[e]
        BY <2>5, <3>4 DEF MarkPublished, TypeOK
      <4>3. lease'[t.event] = 0 /\ error'[t.event] = NoError
        BY <2>5, <3>4 DEF MarkPublished, TypeOK
      <4>4. /\ published' = published \cup {t.event}
            /\ UNCHANGED <<recorded, attempt, timeVars, released, dead, outside>>
        BY <2>5, <3>4 DEF MarkPublished
      <4>5. LeaseInv'
        BY <4>1, <4>2, <4>3, <4>4
      <4>6. ReleasedInv'
        BY <4>1, <4>2, <4>3, <4>4 DEF TypeOK
      <4>7. DeadInv'
        BY <4>1, <4>2, <4>3, <4>4 DEF TypeOK
      <4>8. TaskInv' /\ WireInv' /\ HandedInv'
        BY <3>1, <3>2, <4>4
      <4> QED BY <1>0, <4>5, <4>6, <4>7, <4>8
    <3> QED BY <3>3, <3>4
  <2>6. CASE MarkFailed(w, t)
    <3>1. \A v \in Workers : tasks'[v] \subseteq tasks[v]
      BY <2>6 DEF MarkFailed, TypeOK
    <3>3. CASE ~Fenced(t)
      BY <1>0, <2>6, <3>1, <3>3 DEF MarkFailed
    <3>4. CASE Fenced(t)
      <4>1. /\ error[t.event] = NoError
            /\ t.event \notin published \cup released
        BY <3>4, <2>1 DEF Fenced, TypeOK
      <4>2. \A e \in Events \ {t.event} : lease'[e] = lease[e] /\ error'[e] = error[e]
        BY <2>6, <3>4 DEF MarkFailed, TypeOK
      <4>3. lease'[t.event] = 0
        BY <2>6, <3>4 DEF MarkFailed, TypeOK
      <4>4. UNCHANGED <<recorded, attempt, timeVars, published, released, dead, outside>>
        BY <2>6, <3>4 DEF MarkFailed
      <4>5. LeaseInv'
        BY <4>2, <4>3, <4>4
      <4>6. ReleasedInv'
        BY <4>1, <4>2, <4>3, <4>4 DEF TypeOK
      <4>7. DeadInv'
        BY <4>1, <4>2, <4>3, <4>4 DEF TypeOK
      <4>8. TaskInv' /\ WireInv' /\ HandedInv'
        BY <3>1, <4>4
      <4> QED BY <1>0, <4>5, <4>6, <4>7, <4>8
    <3> QED BY <3>3, <3>4
  <2> QED BY <2>1, <2>3, <2>4, <2>5, <2>6
<1>6. ASSUME NEW w \in Workers, Fault(w) PROVE OutboxInv'
  BY <1>0, <1>6 DEF Fault, Crash, SettlementFails, TypeOK
<1>7. CASE Transport
  <2>1. PICK m \in wire : TransportAccepts(m) \/ TransportFails(m)
    BY <1>7 DEF Transport
  <2>2. \A v \in Workers : \A u \in tasks'[v] : \E t \in tasks[v] :
          /\ u.event = t.event
          /\ u.phase = "acknowledged" =>
               t.phase = "acknowledged" \/ (TransportAccepts(m) /\ t.event = m[1])
    <3> SUFFICES ASSUME NEW answer \in Answers, tasks' = Heard(m, answer),
                        answer = "acknowledged" => TransportAccepts(m),
                        NEW v \in Workers, NEW u \in Heard(m, answer)[v]
                 PROVE  \E t \in tasks[v] :
                          /\ u.event = t.event
                          /\ u.phase = "acknowledged" =>
                               t.phase = "acknowledged" \/ (TransportAccepts(m) /\ t.event = m[1])
      BY <2>1 DEF TransportAccepts, TransportFails, Answers, Failures
    <3>1. PICK t \in tasks[v] :
            u = IF t.event = m[1] /\ t.token = m[2] /\ t.phase = "publishing"
                  THEN [t EXCEPT !.phase = answer] ELSE t
      BY DEF Heard
    <3>2. t \in Task
      BY DEF TypeOK
    <3> QED BY <3>1, <3>2, TaskMoves
  <2>3. UNCHANGED <<row, dead>> /\ wire' \subseteq wire
    BY <2>1 DEF TransportAccepts, TransportFails
  <2>4. handed' = handed \/ (TransportAccepts(m) /\ handed' = handed \cup {m[1]})
    BY <2>1 DEF TransportAccepts, TransportFails
  <2>5. handed \subseteq handed' /\ (TransportAccepts(m) => m[1] \in handed')
    BY <2>4 DEF TransportAccepts
  <2>6. TaskInv'
    BY <2>2, <2>3, <2>5
  <2>7. HandedInv'
    <3>1. m[1] \in 1..recorded /\ Earlier(m[1]) \subseteq handed \cup released
      BY <2>1
    <3>2. CASE handed' = handed
      BY <2>3, <3>2
    <3>3. CASE handed' = handed \cup {m[1]}
      <4>1. handed' \subseteq 1..recorded' /\ published' \subseteq handed'
        BY <2>3, <3>1, <3>3
      <4>2. \A e \in handed' : Earlier(e) \subseteq handed \cup released
        BY <3>1, <3>3
      <4>3. FirstHandoffInOrder'
        BY <2>3, <3>3, <4>2
      <4> QED BY <4>1, <4>3
    <3> QED BY <2>4, <3>2, <3>3
  <2> QED BY <1>0, <2>3, <2>6, <2>7
<1>8. CASE SchedulePoll
  BY <1>0, <1>8 DEF SchedulePoll, PolledRows, Oldest, TypeOK
<1>9. CASE UNCHANGED vars
  BY <1>0, <1>9 DEF vars, TypeOK
<1> QED
  BY <1>1, <1>2, <1>3, <1>4, <1>5, <1>6, <1>7, <1>8, <1>9 DEF Next, ClaimSome

\* The inductive invariant holds throughout.
THEOREM OutboxInvariant == Spec => []OutboxInv
BY InvInit, InvStep, PTL DEF Spec

-----------------------------------------------------------------------------

\* The transport first sees the events of an aggregate in version order,
\* whatever workers crash, time out, or settle late.
THEOREM OrderedHandoff == Spec => []FirstHandoffInOrder
<1>1. OutboxInv => FirstHandoffInOrder
  BY DEF OutboxInv, HandedInv
<1> QED BY <1>1, OutboxInvariant, PTL

\* An event is marked published only when the transport has it.
THEOREM PublishedOnlyIfHanded == Spec => []PublishedWasHanded
<1>1. OutboxInv => PublishedWasHanded
  BY DEF OutboxInv, HandedInv, PublishedWasHanded
<1> QED BY <1>1, OutboxInvariant, PTL

\* Two rows of an aggregate never carry a lease at the same time.
THEOREM LeaseExclusion == Spec => []OneLeasePerAggregate
<1>1. OutboxInv => OneLeasePerAggregate
  <2> SUFFICES ASSUME OutboxInv, NEW e \in Events, NEW f \in Events, f < e,
                      lease[e] # 0, lease[f] # 0, AggregateOf[e] = AggregateOf[f]
               PROVE  FALSE
    BY DEF OneLeasePerAggregate, Events
  <2>1. f \in Earlier(e)
    BY DEF Earlier, Events
  <2>2. f \in published \cup released
    BY <2>1 DEF OutboxInv, LeaseInv
  <2> QED BY <2>2 DEF OutboxInv, LeaseInv, ReleasedInv
<1> QED BY <1>1, OutboxInvariant, PTL

\* What waits for an operator, or was discarded, stays parked.
THEOREM DeadLettersStayParked == Spec => []DeadLetterIsParked
<1>1. OutboxInv => DeadLetterIsParked
  BY DEF OutboxInv, DeadInv, DeadLetterIsParked
<1> QED BY <1>1, OutboxInvariant, PTL

\* No step revives a discarded or released event.
THEOREM DiscardedStaysDiscarded == Spec => DiscardIsFinal
<1> DEFINE Final == \A e \in Events :
                      dead[e] = "discarded" \/ e \in released
                        => /\ attempt'[e] = attempt[e]
                           /\ e \notin published'
                           /\ dead'[e] \in {"discarded", "resolved"}
<1>1. ASSUME OutboxInv, [Next]_vars PROVE [Final]_vars
  <2> SUFFICES ASSUME Next, NEW e \in Events, dead[e] = "discarded" \/ e \in released
               PROVE  /\ attempt'[e] = attempt[e]
                      /\ e \notin published'
                      /\ dead'[e] \in {"discarded", "resolved"}
    BY <1>1
  <2> USE <1>1 DEF row, claimVars, timeVars, outside
  <2>1. /\ e \notin published
        /\ lease[e] = 0
        /\ error[e] # NoError
        /\ dead[e] \in {"discarded", "resolved"}
        /\ e \notin released => Terminal(e)
    BY DEF OutboxInv, ReleasedInv, DeadInv, Parked
  <2>2. CASE Append
    BY <2>1, <2>2 DEF Append
  <2>3. ASSUME NEW f \in Events, Clock(f) \/ Operator(f)
        PROVE  attempt' = attempt /\ published' = published
                 /\ dead'[e] \in {"discarded", "resolved"}
    BY <2>1, <2>3
       DEF Clock, BecomeDue, LeaseExpires, HorizonPasses, Operator, RetryDeadLetter,
           Retriable, DiscardDeadLetter, Discardable, ResolveRetried,
           ReleaseDiscarded, OutboxInv, TypeOK
  <2>4. ASSUME NEW w \in Workers, NEW batch \in SUBSET Events, Claim(w, batch)
        PROVE  attempt'[e] = attempt[e] /\ published' = published /\ dead' = dead
    BY <2>1, <2>4 DEF Claim, Claimable, OutboxInv, TypeOK
  <2>5. ASSUME NEW w \in Workers, Deliver(w)
        PROVE  attempt' = attempt /\ e \notin published' /\ dead' = dead
    <3>1. PICK t \in tasks[w] : \/ StartPublish(w, t) \/ AdapterTimeout(w, t)
                                \/ MarkPublished(w, t) \/ MarkFailed(w, t)
      BY <2>5 DEF Deliver
    <3>2. t.token # 0
      BY <3>1 DEF OutboxInv, TypeOK, Task
    <3> QED BY <2>1, <3>1, <3>2
            DEF StartPublish, AdapterTimeout, MarkPublished, MarkFailed, Fenced
  <2>6. ASSUME NEW w \in Workers, Fault(w)
        PROVE  UNCHANGED <<attempt, published, dead>>
    BY <2>6 DEF Fault, Crash, SettlementFails
  <2>7. CASE Transport
    BY <2>1, <2>7 DEF Transport, TransportAccepts, TransportFails
  <2>8. CASE SchedulePoll
    BY <2>1, <2>8 DEF SchedulePoll
  <2> QED BY <2>1, <2>2, <2>3, <2>4, <2>5, <2>6, <2>7, <2>8 DEF Next, ClaimSome
<1>2. DiscardIsFinal <=> [][Final]_vars
  BY DEF DiscardIsFinal
<1> HIDE DEF Final
<1> QED BY <1>1, <1>2, OutboxInvariant, PTL DEF Spec

\* The dispatcher, its scheduler and its operators together implement the
\* abstract ordered relay: each step is one of its steps or changes nothing
\* it can see.
THEOREM RelayRefinement == Spec => ImplementsRelay
<1> USE DEF row, claimVars, timeVars, outside, Relay!rvars
<1>1. Init => Relay!RelayInit
  BY DEF Init, Relay!RelayInit
<1>2. ASSUME OutboxInv, [Next]_vars PROVE [Relay!RelayNext]_Relay!rvars
  <2> USE <1>2
  <2>1. CASE Append
    BY <2>1 DEF Append, Relay!RelayNext, Relay!Record
  <2>2. ASSUME NEW e \in Events, ReleaseDiscarded(e)
        PROVE  Relay!RelayNext
    <3>1. e \in 1..recorded
      BY <2>2 DEF ReleaseDiscarded, OutboxInv, DeadInv, Parked
    <3>2. Relay!GiveUp(e)
      BY <2>2 DEF ReleaseDiscarded, Relay!GiveUp
    <3> QED BY <3>1, <3>2 DEF Relay!RelayNext
  <2>3. ASSUME NEW e \in Events, Clock(e) \/ Operator(e), ~ReleaseDiscarded(e)
        PROVE  UNCHANGED Relay!rvars
    BY <2>3 DEF Clock, BecomeDue, LeaseExpires, HorizonPasses, Operator,
                RetryDeadLetter, DiscardDeadLetter, ResolveRetried
  <2>4. ASSUME NEW w \in Workers, NEW batch \in SUBSET Events, Claim(w, batch)
        PROVE  UNCHANGED Relay!rvars
    BY <2>4 DEF Claim
  <2>5. ASSUME NEW w \in Workers, Deliver(w)
        PROVE  Relay!RelayNext \/ UNCHANGED Relay!rvars
    <3>1. PICK t \in tasks[w] : \/ StartPublish(w, t) \/ AdapterTimeout(w, t)
                                \/ MarkPublished(w, t) \/ MarkFailed(w, t)
      BY <2>5 DEF Deliver
    <3>2. CASE MarkPublished(w, t) /\ Fenced(t)
      <4>1. t.event \in handed /\ t.event \in 1..recorded
        BY <3>1, <3>2 DEF MarkPublished, Acknowledged, OutboxInv, TaskInv
      <4>2. t.event \in Events /\ t.token # 0
        BY <3>1 DEF OutboxInv, TypeOK, Task
      <4>3. t.event \notin released
        BY <3>2, <4>2 DEF Fenced, OutboxInv, ReleasedInv
      <4>4. Relay!Confirm(t.event)
        BY <3>2, <4>1, <4>3 DEF MarkPublished, Relay!Confirm
      <4> QED BY <4>1, <4>4 DEF Relay!RelayNext
    <3>3. CASE ~(MarkPublished(w, t) /\ Fenced(t))
      BY <3>1, <3>3 DEF StartPublish, AdapterTimeout, MarkPublished, MarkFailed
    <3> QED BY <3>2, <3>3
  <2>6. ASSUME NEW w \in Workers, Fault(w)
        PROVE  UNCHANGED Relay!rvars
    BY <2>6 DEF Fault, Crash, SettlementFails
  <2>7. CASE Transport
    <3>1. PICK m \in wire : TransportAccepts(m) \/ TransportFails(m)
      BY <2>7 DEF Transport
    <3>2. CASE TransportAccepts(m)
      <4>1. m[1] \in 1..recorded /\ Earlier(m[1]) \subseteq handed \cup released
        BY DEF OutboxInv, WireInv, HandedInv
      <4>2. Relay!Predecessors(m[1]) = Earlier(m[1])
        BY DEF Relay!Predecessors, Earlier
      <4>3. Relay!Handoff(m[1])
        BY <3>2, <4>1, <4>2 DEF TransportAccepts, Relay!Handoff
      <4> QED BY <4>1, <4>3 DEF Relay!RelayNext
    <3>3. CASE TransportFails(m)
      BY <3>3 DEF TransportFails
    <3> QED BY <3>1, <3>2, <3>3
  <2>8. CASE SchedulePoll
    BY <2>8 DEF SchedulePoll
  <2>9. CASE UNCHANGED vars
    BY <2>9 DEF vars
  <2> QED
    BY <2>1, <2>2, <2>3, <2>4, <2>5, <2>6, <2>7, <2>8, <2>9 DEF Next, ClaimSome
<1> QED
  BY <1>1, <1>2, OutboxInvariant, PTL DEF Spec, ImplementsRelay, Relay!RelaySpec

=============================================================================
