----------------------- MODULE TerminalCaptureProofs -----------------------
(* Proofs about TerminalCapture, for any number of runs, instants and     *)
(* faults.                                                                *)
EXTENDS TerminalCapture, TLAPS

(* What the records and the provider say by themselves: an end is final,   *)
(* the fact is that end, a late end is a capture made after the deadline,  *)
(* and only after the deadline is there a cancel.                          *)
RecordsHold ==
  /\ fact # "None" => fact = provider.state
  /\ provider.late => provider.state = "Captured" /\ clock > HardDeadline
  /\ actions["Cancel"] # "None" => Breached(clock)

Confirming == {"CaptureConfirmed", "CancelConfirmed"}

(* What a run has seen is so, it has recorded what it reports, and it owes *)
(* the exception for a late capture it has seen.                           *)
SeenIsSo(w) ==
  /\ runs[w].truth \in Terminal => /\ runs[w].truth = provider.state
                                  /\ runs[w].at \in {"Phase", "Record", "Report"}
  /\ At(w, "Record") => runs[w].truth \in Terminal
  /\ At(w, "Report") /\ runs[w].truth \in Terminal => fact = runs[w].truth
  /\ runs[w].truth = "Captured" /\ provider.late => "Exception" \in runs[w].due
  /\ ~At(w, "Commit") => runs[w].status \notin Confirming

(* A result that confirms an end has its fact, and the exception if late.  *)
ConfirmsWhatIs(w) ==
  At(w, "Commit") =>
    /\ runs[w].status = "CaptureConfirmed" => fact = "Captured" /\ (provider.late => exception)
    /\ runs[w].status = "CancelConfirmed" => fact = "Cancelled"

(* A run cancels only past the deadline, and captures only before it.      *)
ActsInTime(w) ==
  /\ runs[w].crossed => Breached(clock)
  /\ At(w, "ResolveCancel") => runs[w].crossed
  /\ runs[w].at \in Calling => (runs[w].crossed <=> runs[w].action = "Cancel")
  /\ runs[w].at \in Calling \ {"Claim"} => runs[w].phase # "None"
  /\ At(w, "Phase") => runs[w].next # "None"

(* As long as no later run has won the lease, what a run concluded from    *)
(* the permanent actions stays so.                                         *)
FenceHolds(w) ==
  Fenced(w) =>
    /\ ~runs[w].crossed /\ runs[w].at \in {"Look", "ResolveCapture"} \cup Calling
         => actions["Cancel"] = "None"
    /\ At(w, "ResolveCancel") \/ (At(w, "Claim") /\ runs[w].action = "Cancel")
         => MayCancel(actions["Capture"])

(* The permanent actions by themselves: of a cancel and a capture of       *)
(* unknown fate there is at most one.                                      *)
CaptureIsResolved == actions["Cancel"] # "None" => actions["Capture"] \notin Unresolved

RunHolds(w) ==
  /\ SeenIsSo(w)
  /\ ConfirmsWhatIs(w)
  /\ ActsInTime(w)
  /\ FenceHolds(w)

IInv ==
  /\ TypeOK
  /\ RecordsHold
  /\ CaptureIsResolved
  /\ \A w \in Workers : RunHolds(w)

(* What holds of a run that does nothing keeps holding as long as time goes *)
(* on, ends, facts and exceptions stay, and the actions change only when    *)
(* the run does not hold the fence.                                         *)
LEMMA RunKept ==
  ASSUME NEW w \in Workers, TypeOK, TypeOK', RecordsHold, RunHolds(w),
         runs'[w] = runs[w], clock' >= clock,
         provider.state # "Authorized" => provider' = provider,
         fact # "None" => fact' = fact,
         exception => exception',
         Fenced(w)' => Fenced(w) /\ actions' = actions
  PROVE  RunHolds(w)'
<1>1. runs[w].truth \in Terminal => provider' = provider
  BY DEF RunHolds, SeenIsSo, Terminal, TypeOK
<1>2. SeenIsSo(w)'
  BY <1>1 DEF RunHolds, SeenIsSo, Terminal, At
<1>3. ConfirmsWhatIs(w)'
  <2>1. fact = "Captured" => provider' = provider
    BY DEF RecordsHold
  <2> QED
    BY <2>1 DEF RunHolds, ConfirmsWhatIs, At
<1>4. ActsInTime(w)'
  BY ConstantsAssumption DEF RunHolds, ActsInTime, At, Breached, TypeOK, Time
<1>5. FenceHolds(w)'
  BY DEF RunHolds, FenceHolds, At, MayCancel
<1> QED
  BY <1>2, <1>3, <1>4, <1>5 DEF RunHolds

LEMMA InitHolds == Init => IInv
<1> SUFFICES ASSUME Init PROVE IInv
  OBVIOUS
<1>1. NoRun \in Run
  BY DEF NoRun, Run, Steps, Actions, Phases, Truths, Terminal, Statuses, Receipts
<1>2. TypeOK
  <2>1. clock \in Time /\ faults \in 0..MaxFaults
    BY ConstantsAssumption DEF Init, Time
  <2>2. provider \in [state : Terminal \cup {"Authorized"}, late : BOOLEAN]
    BY DEF Init, Terminal
  <2>3. actions \in [Actions -> Phases \cup {"None"}]
    BY DEF Init
  <2>4. lease \in [run : Workers \cup {"None"}, live : BOOLEAN] /\ runs \in [Workers -> Run]
    BY <1>1 DEF Init
  <2> QED
    BY <2>1, <2>2, <2>3, <2>4 DEF Init, TypeOK
<1>3. RecordsHold /\ CaptureIsResolved
  BY DEF Init, RecordsHold, CaptureIsResolved, Actions, Unresolved
<1>4. ASSUME NEW w \in Workers PROVE RunHolds(w)
  <2>1. runs[w].at = "Idle" /\ ~runs[w].crossed /\ runs[w].truth = "Unresolved"
        /\ runs[w].status = "PendingCapture"
    BY DEF Init, NoRun
  <2> QED
    BY <2>1 DEF RunHolds, SeenIsSo, ConfirmsWhatIs, ActsInTime, FenceHolds, Calling, At, Terminal,
      Confirming
<1> QED
  BY <1>2, <1>3, <1>4 DEF IInv

(* A step of one run: the others keep what holds of them.                  *)
LEMMA StepOfOne ==
  ASSUME NEW w \in Workers, IInv, TypeOK', RecordsHold', CaptureIsResolved', RunHolds(w)',
         \A v \in Workers \ {w} : runs'[v] = runs[v],
         clock' = clock,
         provider.state # "Authorized" => provider' = provider,
         fact # "None" => fact' = fact,
         exception => exception',
         actions' = actions \/ Fenced(w),
         lease'.run \in {lease.run, w}
  PROVE  IInv'
<1>1. ASSUME NEW v \in Workers \ {w} PROVE RunHolds(v)'
  <2>1. Fenced(v)' => Fenced(v) /\ actions' = actions
    BY DEF Fenced
  <2>2. clock' >= clock
    BY DEF IInv, TypeOK, Time
  <2> QED
    BY <2>1, <2>2, RunKept DEF IInv
<1> QED
  BY <1>1 DEF IInv

(* A step that changes no more than one run and whether its lease is live. *)
LEMMA StepOfItself ==
  ASSUME NEW w \in Workers, IInv, NEW r \in Run, runs' = [runs EXCEPT ![w] = r],
         UNCHANGED <<clock, method, accepted, provider, fact, actions, exception>>,
         requests' \subseteq Actions, faults' \in 0..MaxFaults,
         lease' \in [run : Workers \cup {"None"}, live : BOOLEAN], lease'.run \in {lease.run, w},
         RunHolds(w)'
  PROVE  IInv'
<1>1. TypeOK'
  BY DEF IInv, TypeOK
<1>2. RecordsHold' /\ CaptureIsResolved'
  BY DEF IInv, RecordsHold, CaptureIsResolved, Breached
<1>3. \A v \in Workers \ {w} : runs'[v] = runs[v]
  BY DEF IInv, TypeOK
<1> QED
  BY <1>1, <1>2, <1>3, StepOfOne

(* A run that has ended, failed, or reports nothing it has seen.           *)
LEMMA QuietRun ==
  ASSUME NEW w \in Workers, IInv, runs'[w].truth \notin Terminal,
         runs'[w].at \in {"Idle", "Excuse", "Report"},
         runs'[w].crossed => Breached(clock)', runs'[w].status \notin Confirming
  PROVE  RunHolds(w)'
  BY DEF RunHolds, SeenIsSo, ConfirmsWhatIs, ActsInTime, FenceHolds, Calling, At, Terminal

LEMMA LeaveHolds ==
  ASSUME NEW w \in Workers, IInv, Leave(w),
         UNCHANGED <<clock, outside, fact, actions, exception, faults>>
  PROVE  IInv'
<1>1. NoRun \in Run /\ NoRun.at = "Idle" /\ ~NoRun.crossed /\ NoRun.truth = "Unresolved"
      /\ NoRun.status = "PendingCapture"
  BY DEF NoRun, Run, Steps, Actions, Phases, Truths, Terminal, Statuses, Receipts
<1>2. lease' \in [run : Workers \cup {"None"}, live : BOOLEAN] /\ lease'.run = lease.run
  BY DEF IInv, TypeOK, Leave
<1>3. RunHolds(w)'
  BY <1>1, QuietRun DEF IInv, TypeOK, Leave, Terminal, Confirming
<1> QED
  BY <1>1, <1>2, <1>3, StepOfItself DEF Leave, IInv, TypeOK, outside

(* Leaving after telling Operations what is due.                           *)
LEMMA LeavesTelling ==
  ASSUME NEW w \in Workers, IInv, Leave(w), NEW told \in BOOLEAN, exception' = (exception \/ told),
         UNCHANGED <<clock, outside, fact, actions, faults>>
  PROVE  IInv'
<1>1. NoRun \in Run /\ NoRun.at = "Idle" /\ ~NoRun.crossed /\ NoRun.truth = "Unresolved"
      /\ NoRun.status = "PendingCapture"
  BY DEF NoRun, Run, Steps, Actions, Phases, Truths, Terminal, Statuses, Receipts
<1>2. lease' \in [run : Workers \cup {"None"}, live : BOOLEAN] /\ lease'.run = lease.run
  BY DEF IInv, TypeOK, Leave
<1>3. RunHolds(w)'
  BY <1>1, QuietRun DEF IInv, TypeOK, Leave, Terminal, Confirming
<1>4. TypeOK'
  BY <1>1, <1>2 DEF IInv, TypeOK, Leave, outside
<1>5. RecordsHold' /\ CaptureIsResolved'
  BY DEF IInv, RecordsHold, CaptureIsResolved, Breached, outside
<1>6. \A v \in Workers \ {w} : runs'[v] = runs[v]
  BY DEF IInv, TypeOK, Leave
<1> QED
  BY <1>2, <1>3, <1>4, <1>5, <1>6, StepOfOne DEF outside

LEMMA FailsHolds ==
  ASSUME NEW w \in Workers, IInv, Fails(w),
         UNCHANGED <<clock, outside, records, lease, faults>>
  PROVE  IInv'
<1> DEFINE r == [NoRun EXCEPT !.at = "Excuse", !.crossed = runs[w].crossed]
<1>1. r \in Run /\ r.at = "Excuse" /\ r.crossed = runs[w].crossed /\ r.truth = "Unresolved"
      /\ r.status = "PendingCapture"
  BY DEF IInv, TypeOK, NoRun, Run, Steps, Actions, Phases, Truths, Terminal, Statuses, Receipts
<1>2. runs' = [runs EXCEPT ![w] = r] /\ runs'[w] = r
  BY DEF Fails, IInv, TypeOK
<1>3. RunHolds(w)'
  BY <1>1, <1>2, QuietRun DEF IInv, RunHolds, ActsInTime, Breached, Terminal, Confirming
<1> QED
  BY <1>1, <1>2, <1>3, StepOfItself DEF IInv, TypeOK, outside, records

LEMMA ReportsHolds ==
  ASSUME NEW w \in Workers, IInv, NEW truth \in {"Authorized", "Unresolved"},
         NEW due \in SUBSET Receipts, Reports(w, truth, due),
         UNCHANGED <<clock, outside, records, lease, faults>>
  PROVE  IInv'
<1> DEFINE r == [NoRun EXCEPT !.at = "Report", !.crossed = runs[w].crossed,
                              !.truth = truth, !.due = due]
<1>1. r \in Run /\ r.at = "Report" /\ r.crossed = runs[w].crossed /\ r.truth = truth
      /\ r.status = "PendingCapture"
  BY DEF IInv, TypeOK, NoRun, Run, Steps, Actions, Phases, Truths, Terminal, Statuses, Receipts
<1>2. runs' = [runs EXCEPT ![w] = r] /\ runs'[w] = r
  BY DEF Reports, IInv, TypeOK
<1>3. RunHolds(w)'
  BY <1>1, <1>2, QuietRun DEF IInv, RunHolds, ActsInTime, Breached, Terminal, Confirming
<1> QED
  BY <1>1, <1>2, <1>3, StepOfItself DEF IInv, TypeOK, outside, records

(* Beginning and end of a run.                                             *)
LEMMA WinLeaseHolds == ASSUME IInv, NEW w \in Workers, WinLease(w) PROVE IInv'
<1> DEFINE interac == [NoRun EXCEPT !.at = "Commit", !.status = "InteracSingleMessage"]
           card == [NoRun EXCEPT
             !.at = IF Breached(clock) \/ accepted THEN "Look" ELSE "Report",
             !.crossed = Breached(clock), !.due = DueAt(clock),
             !.status = IF Breached(clock) \/ accepted THEN NoRun.status
                        ELSE "AwaitingOrderAcceptance"]
<1>1. lease' = [run |-> w, live |-> TRUE] /\ UNCHANGED <<clock, outside, records, faults>>
  BY DEF WinLease
<1>2. CASE runs' = [runs EXCEPT ![w] = interac]
  <2>1. interac \in Run /\ interac.at = "Commit" /\ interac.status = "InteracSingleMessage"
        /\ ~interac.crossed /\ interac.truth = "Unresolved"
    BY DEF NoRun, Run, Steps, Actions, Phases, Truths, Terminal, Statuses, Receipts
  <2>2. runs'[w] = interac
    BY <1>2 DEF IInv, TypeOK
  <2>3. RunHolds(w)'
    BY <2>1, <2>2 DEF RunHolds, SeenIsSo, ConfirmsWhatIs, ActsInTime, FenceHolds, Calling, At,
      Terminal
  <2> QED
    BY <1>1, <1>2, <2>1, <2>3, StepOfItself DEF IInv, TypeOK, outside, records
<1>3. CASE runs' = [runs EXCEPT ![w] = card]
  <2>1. DueAt(clock) \in SUBSET Receipts /\ Breached(clock) \in BOOLEAN
    BY DEF DueAt, Breached
  <2>2. card \in Run /\ card.at \in {"Look", "Report"} /\ card.truth = "Unresolved"
        /\ card.crossed = Breached(clock)
        /\ card.status \in {"PendingCapture", "AwaitingOrderAcceptance"}
    BY <2>1 DEF NoRun, Run, Steps, Actions, Phases, Truths, Terminal, Statuses, Receipts
  <2>3. runs'[w] = card
    BY <1>3 DEF IInv, TypeOK
  <2>4. ~Breached(clock) => actions["Cancel"] = "None"
    BY DEF IInv, RecordsHold
  <2>5. RunHolds(w)'
    BY <1>1, <2>2, <2>3, <2>4 DEF RunHolds, SeenIsSo, ConfirmsWhatIs, ActsInTime, FenceHolds,
      Calling, At, Terminal, Confirming, Breached, records
  <2> QED
    BY <1>1, <1>3, <2>2, <2>5, StepOfItself DEF IInv, TypeOK, outside, records
<1> QED
  BY <1>2, <1>3 DEF WinLease, Commits

LEMMA RunDiesHolds == ASSUME IInv, NEW w \in Workers, RunDies(w) PROVE IInv'
<1>1. NoRun \in Run /\ NoRun.at = "Idle" /\ ~NoRun.crossed /\ NoRun.truth = "Unresolved"
      /\ NoRun.status = "PendingCapture"
  BY DEF NoRun, Run, Steps, Actions, Phases, Truths, Terminal, Statuses, Receipts
<1>2. runs'[w] = NoRun
  BY DEF IInv, TypeOK, RunDies
<1>3. RunHolds(w)'
  BY <1>1, <1>2, QuietRun DEF Terminal, Confirming
<1>4. faults' \in 0..MaxFaults
  BY ConstantsAssumption DEF IInv, TypeOK, RunDies
<1> QED
  BY <1>1, <1>3, <1>4, StepOfItself DEF RunDies, IInv, TypeOK, outside, records

(* What the run sees before it decides.                                    *)
LEMMA Owing ==
  ASSUME IInv, NEW truth \in Truths, truth = "Captured" => truth = provider.state,
         NEW late \in BOOLEAN
  PROVE  /\ Owed(truth, clock, late) \in SUBSET Receipts
         /\ truth = "Captured" /\ provider.late => "Exception" \in Owed(truth, clock, late)
  BY DEF IInv, RecordsHold, Owed, Missed, DueAt, Receipts

LEMMA LookHolds == ASSUME IInv, NEW w \in Workers, Look(w) PROVE IInv'
<1>0. UNCHANGED <<clock, outside, records, lease, faults>>
  BY DEF Look
<1>r. runs[w] \in Run
  BY DEF IInv, TypeOK
<1>1. CASE provider.state \in Terminal
  <2> DEFINE r == [Saw(w, provider.state, clock, FALSE) EXCEPT !.at = "Record"]
  <2>1. runs' = [runs EXCEPT ![w] = r]
    BY <1>1 DEF Look
  <2>2. Owed(provider.state, clock, FALSE) \in SUBSET Receipts
        /\ (provider.state = "Captured" /\ provider.late
             => "Exception" \in Owed(provider.state, clock, FALSE))
    BY <1>1, Owing DEF Truths
  <2>3. r \in Run /\ r.at = "Record" /\ r.truth = provider.state
        /\ r.due = Owed(provider.state, clock, FALSE) /\ r.crossed = runs[w].crossed
        /\ r.status = runs[w].status
    <3>1. r = [runs[w] EXCEPT !.truth = provider.state, !.at = "Record",
                              !.due = Owed(provider.state, clock, FALSE)] /\ runs[w] \in Run
      BY DEF Saw, IInv, TypeOK, Run
    <3>2. provider.state \in Truths /\ "Record" \in Steps
      BY <1>1 DEF Truths, Steps
    <3> QED
      BY <2>2, <3>1, <3>2 DEF Run
  <2>4. runs'[w] = r
    BY <2>1 DEF IInv, TypeOK
  <2>5. SeenIsSo(w)' /\ ConfirmsWhatIs(w)'
    BY <1>0, <1>1, <2>2, <2>3, <2>4
    DEF Look, IInv, RunHolds, SeenIsSo, ConfirmsWhatIs, At, outside, records
  <2>6. ActsInTime(w)' /\ FenceHolds(w)'
    BY <1>0, <2>3, <2>4 DEF IInv, RunHolds, ActsInTime, FenceHolds, Calling, At, Breached, outside
  <2>7. RunHolds(w)'
    BY <2>5, <2>6 DEF RunHolds
  <2> QED
    BY <1>0, <2>1, <2>3, <2>7, StepOfItself DEF IInv, TypeOK, outside, records
<1>2. CASE ~(provider.state \in Terminal) /\ ~runs[w].crossed /\ Breached(clock)
  <2> DEFINE r == [runs[w] EXCEPT !.at = "Report", !.truth = "Authorized",
                                  !.due = DueAt(clock), !.crossed = TRUE]
  <2>1. runs' = [runs EXCEPT ![w] = r]
    BY <1>2 DEF Look, IInv, TypeOK
  <2>2. r \in Run /\ r.at = "Report" /\ r.truth = "Authorized" /\ r.crossed
        /\ r.status = runs[w].status
    <3>1. "Report" \in Steps /\ "Authorized" \in Truths /\ DueAt(clock) \in SUBSET Receipts
      BY DEF Steps, Truths, DueAt
    <3> QED
      BY <1>r, <3>1 DEF Run
  <2>3. runs'[w] = r
    BY <2>1 DEF IInv, TypeOK
  <2>4. RunHolds(w)'
    BY <1>0, <1>2, <2>2, <2>3, QuietRun DEF Look, IInv, RunHolds, SeenIsSo, At, Terminal, Breached
  <2> QED
    BY <1>0, <2>1, <2>2, <2>4, StepOfItself DEF IInv, TypeOK, outside, records
<1>3. CASE ~(provider.state \in Terminal) /\ ~(~runs[w].crossed /\ Breached(clock))
  <2> DEFINE r == [runs[w] EXCEPT !.at = "ResolveCapture", !.due = DueAt(clock)]
  <2>1. runs' = [runs EXCEPT ![w] = r]
    BY <1>3 DEF Look, IInv, TypeOK
  <2>2. r \in Run /\ r.at = "ResolveCapture" /\ r.truth = runs[w].truth
        /\ r.crossed = runs[w].crossed /\ r.status = runs[w].status
    <3>1. "ResolveCapture" \in Steps /\ DueAt(clock) \in SUBSET Receipts
      BY DEF Steps, DueAt
    <3> QED
      BY <1>r, <3>1 DEF Run
  <2>3. runs'[w] = r /\ runs[w].truth \notin Terminal
    BY <1>3, <2>1 DEF IInv, TypeOK, RunHolds, SeenIsSo
  <2>4. RunHolds(w)'
    BY <1>0, <2>2, <2>3 DEF Look, IInv, RunHolds, SeenIsSo, ConfirmsWhatIs, ActsInTime,
      FenceHolds, Fenced, Calling, At, Breached, Terminal, outside, records
  <2> QED
    BY <1>0, <2>1, <2>2, <2>4, StepOfItself DEF IInv, TypeOK, outside, records
<1> QED
  BY <1>1, <1>2, <1>3

LEMMA LookInVainHolds == ASSUME IInv, NEW w \in Workers, LookInVain(w) PROVE IInv'
<1>1. PICK due \in {runs[w].due} \cup (IF CanObserve(w) THEN {DueAt(clock)} ELSE {}) :
        Reports(w, "Unresolved", due)
  BY DEF LookInVain
<1>2. due \in SUBSET Receipts
  BY DEF IInv, TypeOK, Run, DueAt
<1> QED
  BY <1>1, <1>2, ReportsHolds DEF LookInVain

(* The permanent actions: what a run concludes from them.                  *)
LEMMA TakesAction ==
  ASSUME IInv, NEW w \in Workers, NEW a \in Actions, NEW phase \in Phases \cup {"None"},
         NEW at \in {"Claim", "Call"}, at = "Call" => phase # "None",
         runs' = [runs EXCEPT ![w].at = at, ![w].action = a, ![w].phase = phase],
         UNCHANGED <<clock, outside, records, lease, faults>>,
         runs[w].crossed <=> a = "Cancel",
         Fenced(w) /\ a = "Capture" => actions["Cancel"] = "None",
         Fenced(w) /\ a = "Cancel" => MayCancel(actions["Capture"]),
         runs[w].truth \notin Terminal, runs[w].status \notin Confirming
  PROVE  IInv'
<1> DEFINE r == [runs[w] EXCEPT !.at = at, !.action = a, !.phase = phase]
<1>1. runs' = [runs EXCEPT ![w] = r] /\ runs'[w] = r
  BY DEF IInv, TypeOK
<1>2. r \in Run /\ r.at = at /\ r.phase = phase /\ r.action = a /\ r.truth = runs[w].truth
      /\ r.crossed = runs[w].crossed /\ r.status = runs[w].status
  <2>1. runs[w] \in Run /\ at \in Steps
    BY DEF IInv, TypeOK, Steps
  <2> QED
    BY <2>1 DEF Run
<1>3. SeenIsSo(w)' /\ ConfirmsWhatIs(w)'
  BY <1>1, <1>2 DEF SeenIsSo, ConfirmsWhatIs, At, Terminal
<1>4. ActsInTime(w)'
  BY <1>1, <1>2 DEF IInv, RunHolds, ActsInTime, At, Calling, Breached
<1>5. FenceHolds(w)'
  BY <1>1, <1>2 DEF FenceHolds, Fenced, At, Actions, MayCancel, records
<1>6. RunHolds(w)'
  BY <1>3, <1>4, <1>5 DEF RunHolds
<1> QED
  BY <1>1, <1>2, <1>6, StepOfItself DEF IInv, TypeOK, outside, records

LEMMA ResolveCaptureHolds == ASSUME IInv, NEW w \in Workers, ResolveCapture(w) PROVE IInv'
<1>0. UNCHANGED <<clock, outside, records, lease, faults>>
  BY DEF ResolveCapture
<1>1. CASE actions["Capture"] = "TerminalObserved"
  BY <1>0, <1>1, ReportsHolds DEF ResolveCapture, IInv, TypeOK, Run
<1>2. CASE actions["Capture"] # "TerminalObserved"
  <2>1. PICK phase \in Phases \cup {"None"} : phase = actions["Capture"]
    BY DEF IInv, TypeOK, Actions
  <2>2. PICK at \in {"Claim", "Call"} : at = IF phase = "None" THEN "Claim" ELSE "Call"
    OBVIOUS
  <2>3. runs' = [runs EXCEPT ![w].at = at, ![w].action = "Capture", ![w].phase = phase]
    BY <1>2, <2>1, <2>2 DEF ResolveCapture
  <2>4. ~runs[w].crossed /\ (Fenced(w) => actions["Cancel"] = "None")
    BY DEF ResolveCapture, IInv, RunHolds, ActsInTime, FenceHolds, At
  <2>5. runs[w].truth \notin Terminal /\ runs[w].status \notin Confirming
    BY DEF ResolveCapture, IInv, RunHolds, SeenIsSo, At
  <2> QED
    BY <1>0, <2>2, <2>3, <2>4, <2>5, TakesAction DEF Actions
<1> QED
  BY <1>1, <1>2

LEMMA MayEndHolds == ASSUME IInv, NEW w \in Workers, MayEnd(w) PROVE IInv'
<1>0. UNCHANGED <<clock, outside, records, lease, faults>>
  BY DEF MayEnd
<1>1. CASE ~MayCancel(actions["Capture"])
  BY <1>0, <1>1, ReportsHolds DEF MayEnd, IInv, TypeOK, Run
<1>2. CASE MayCancel(actions["Capture"])
  <2> DEFINE r == [runs[w] EXCEPT !.at = "ResolveCancel"]
  <2>1. runs' = [runs EXCEPT ![w] = r]
    BY <1>2 DEF MayEnd, IInv, TypeOK
  <2>2. r \in Run /\ r.at = "ResolveCancel" /\ r.truth = runs[w].truth /\ r.due = runs[w].due
        /\ r.crossed = runs[w].crossed /\ r.status = runs[w].status
    BY DEF IInv, TypeOK, Run, Steps
  <2>3. runs'[w] = r
    BY <2>1 DEF IInv, TypeOK
  <2>4. RunHolds(w)'
    BY <1>0, <1>2, <2>2, <2>3 DEF MayEnd, IInv, RunHolds, SeenIsSo, ConfirmsWhatIs, ActsInTime,
      FenceHolds, Fenced, Calling, At, Breached, MayCancel, outside, records
  <2> QED
    BY <1>0, <2>1, <2>2, <2>4, StepOfItself DEF IInv, TypeOK, outside, records
<1> QED
  BY <1>1, <1>2

LEMMA ResolveCancelHolds == ASSUME IInv, NEW w \in Workers, ResolveCancel(w) PROVE IInv'
<1>0. UNCHANGED <<clock, outside, records, lease, faults>>
  BY DEF ResolveCancel
<1>1. CASE actions["Cancel"] = "TerminalObserved"
  BY <1>0, <1>1, ReportsHolds DEF ResolveCancel, IInv, TypeOK, Run
<1>2. CASE actions["Cancel"] # "TerminalObserved"
  <2>1. PICK phase \in Phases \cup {"None"} : phase = actions["Cancel"]
    BY DEF IInv, TypeOK, Actions
  <2>2. PICK at \in {"Claim", "Call"} : at = IF phase = "None" THEN "Claim" ELSE "Call"
    OBVIOUS
  <2>3. runs' = [runs EXCEPT ![w].at = at, ![w].action = "Cancel", ![w].phase = phase]
    BY <1>2, <2>1, <2>2 DEF ResolveCancel
  <2>4. runs[w].crossed /\ (Fenced(w) => MayCancel(actions["Capture"]))
    BY DEF ResolveCancel, IInv, RunHolds, ActsInTime, FenceHolds, At
  <2>5. runs[w].truth \notin Terminal /\ runs[w].status \notin Confirming
    BY DEF ResolveCancel, IInv, RunHolds, SeenIsSo, At
  <2> QED
    BY <1>0, <2>2, <2>3, <2>4, <2>5, TakesAction DEF Actions
<1> QED
  BY <1>1, <1>2

LEMMA ClaimActionHolds == ASSUME IInv, NEW w \in Workers, ClaimAction(w) PROVE IInv'
<1> DEFINE r == [runs[w] EXCEPT !.at = "Call", !.phase = "Claimed"]
<1>1. PICK a \in Actions : a = runs[w].action
  BY DEF IInv, TypeOK, Run
<1>2. /\ At(w, "Claim") /\ Fenced(w) /\ actions[a] = "None"
      /\ actions' = [actions EXCEPT ![a] = "Claimed"]
      /\ UNCHANGED <<clock, outside, fact, exception, lease, faults>>
  BY <1>1 DEF ClaimAction
<1>3. runs' = [runs EXCEPT ![w] = r] /\ runs'[w] = r
  BY DEF ClaimAction, IInv, TypeOK
<1>4. r \in Run /\ r.at = "Call" /\ r.phase = "Claimed" /\ r.action = a
      /\ r.truth = runs[w].truth /\ r.crossed = runs[w].crossed /\ r.status = runs[w].status
  <2>1. runs[w] \in Run /\ "Call" \in Steps /\ "Claimed" \in Phases
    BY DEF IInv, TypeOK, Steps, Phases
  <2> QED
    BY <1>1, <2>1 DEF Run
<1>5. TypeOK'
  BY <1>2, <1>3, <1>4 DEF IInv, TypeOK, Phases, outside
<1>6. (runs[w].crossed <=> a = "Cancel") /\ runs[w].truth \notin Terminal
      /\ runs[w].status \notin Confirming
  BY <1>1, <1>2 DEF IInv, RunHolds, ActsInTime, SeenIsSo, Calling, At
<1>7. RecordsHold'
  <2>1. a = "Cancel" => Breached(clock)
    BY <1>6 DEF IInv, RunHolds, ActsInTime
  <2> QED
    BY <1>2, <2>1 DEF IInv, TypeOK, RecordsHold, Breached, Actions, outside
<1>8. CaptureIsResolved'
  <2>1. CASE a = "Capture"
    BY <1>1, <1>2, <1>6, <2>1 DEF IInv, TypeOK, RunHolds, FenceHolds, CaptureIsResolved,
      Actions, Calling, At
  <2>2. CASE a = "Cancel"
    BY <1>1, <1>2, <2>2 DEF IInv, TypeOK, RunHolds, FenceHolds, CaptureIsResolved,
      MayCancel, Unresolved, Actions, At
  <2> QED
    BY <2>1, <2>2 DEF Actions
<1>9. RunHolds(w)'
  <2>1. SeenIsSo(w)' /\ ConfirmsWhatIs(w)'
    BY <1>3, <1>4, <1>6 DEF SeenIsSo, ConfirmsWhatIs, At, Terminal
  <2>2. ActsInTime(w)'
    BY <1>2, <1>3, <1>4, <1>6 DEF IInv, RunHolds, ActsInTime, At, Calling, Breached
  <2>3. FenceHolds(w)'
    BY <1>1, <1>2, <1>3, <1>4, <1>6
    DEF IInv, TypeOK, RunHolds, FenceHolds, Fenced, At, Actions, Calling, MayCancel
  <2> QED
    BY <2>1, <2>2, <2>3 DEF RunHolds
<1>10. \A v \in Workers \ {w} : runs'[v] = runs[v]
  BY <1>3 DEF IInv, TypeOK
<1> QED
  BY <1>2, <1>5, <1>7, <1>8, <1>9, <1>10, StepOfOne DEF outside

LEMMA ClaimTakenHolds == ASSUME IInv, NEW w \in Workers, ClaimTaken(w) PROVE IInv'
<1>0. UNCHANGED <<clock, outside, records, lease, faults>>
  BY DEF ClaimTaken
<1>1. PICK a \in Actions : a = runs[w].action
  BY DEF IInv, TypeOK, Run
<1>2. PICK phase \in Phases : phase = actions[a]
  BY <1>1 DEF ClaimTaken, IInv, TypeOK
<1>3. CASE phase = "TerminalObserved"
  <2>1. PICK truth \in {"Authorized", "Unresolved"} :
          truth = IF a = "Capture" THEN "Authorized" ELSE "Unresolved"
    OBVIOUS
  <2>2. Reports(w, truth, runs[w].due)
    BY <1>1, <1>2, <1>3, <2>1 DEF ClaimTaken
  <2>3. runs[w].due \in SUBSET Receipts
    BY DEF IInv, TypeOK, Run
  <2> QED
    BY <1>0, <2>2, <2>3, ReportsHolds
<1>4. CASE phase # "TerminalObserved"
  <2>1. runs' = [runs EXCEPT ![w].at = "Call", ![w].action = a, ![w].phase = phase]
    <3>1. runs' = [runs EXCEPT ![w].at = "Call", ![w].phase = phase]
      BY <1>1, <1>2, <1>4 DEF ClaimTaken
    <3>2. runs \in [Workers -> Run] /\ runs[w] \in Run
      BY DEF IInv, TypeOK
    <3>3. [runs[w] EXCEPT !.at = "Call", !.phase = phase]
          = [runs[w] EXCEPT !.at = "Call", !.action = a, !.phase = phase]
      BY <1>1, <3>2 DEF Run
    <3> QED
      BY <3>1, <3>2, <3>3
  <2>2. runs[w].crossed <=> a = "Cancel"
    BY <1>1 DEF ClaimTaken, IInv, RunHolds, ActsInTime, At, Calling
  <2>3. /\ Fenced(w) /\ a = "Capture" => actions["Cancel"] = "None"
        /\ Fenced(w) /\ a = "Cancel" => MayCancel(actions["Capture"])
        /\ runs[w].truth \notin Terminal /\ runs[w].status \notin Confirming
    BY <1>1, <2>2 DEF ClaimTaken, IInv, RunHolds, FenceHolds, SeenIsSo, At, Calling
  <2>4. phase # "None"
    BY DEF Phases
  <2> QED
    BY <1>0, <2>1, <2>2, <2>3, <2>4, TakesAction
<1> QED
  BY <1>3, <1>4

(* Calls to the provider, and what it does in its own time.                *)
LEMMA EndKeeps ==
  ASSUME IInv, NEW state \in Terminal, EndsAs(state), UNCHANGED <<clock, fact, actions>>
  PROVE  /\ provider' \in [state : Terminal \cup {"Authorized"}, late : BOOLEAN]
         /\ requests' \subseteq Actions
         /\ RecordsHold'
         /\ CaptureIsResolved'
         /\ provider.state # "Authorized" => provider' = provider
<1>1. fact = "None"
  BY DEF IInv, TypeOK, RecordsHold, EndsAs, Terminal
<1>2. PICK late \in BOOLEAN : late <=> state = "Captured" /\ clock > HardDeadline
  OBVIOUS
<1>3. provider' = [state |-> state, late |-> state = "Captured" /\ clock > HardDeadline]
      /\ requests' = {} /\ provider.state = "Authorized"
  BY DEF EndsAs
<1>4. provider' \in [state : Terminal \cup {"Authorized"}, late : BOOLEAN]
  BY <1>3
<1>5. RecordsHold'
  BY <1>1, <1>3 DEF IInv, RecordsHold, Breached
<1>6. CaptureIsResolved'
  BY DEF IInv, CaptureIsResolved
<1> QED
  BY <1>3, <1>4, <1>5, <1>6

LEMMA AnsweredHolds ==
  ASSUME NEW w \in Workers, IInv, TypeOK', RecordsHold', CaptureIsResolved',
         NEW reply \in {"None", "Authorized", "Invalid"}, At(w, "Call"), Answered(w, reply),
         UNCHANGED <<clock, records, lease>>,
         provider.state # "Authorized" => provider' = provider
  PROVE  IInv'
<1> DEFINE r == [runs[w] EXCEPT !.at = "LookAgain", !.reply = reply]
<1>1. runs' = [runs EXCEPT ![w] = r] /\ runs'[w] = r
  BY DEF Answered, IInv, TypeOK
<1>2. /\ r.at = "LookAgain" /\ r.phase = runs[w].phase /\ r.action = runs[w].action
      /\ r.truth = runs[w].truth /\ r.crossed = runs[w].crossed /\ r.status = runs[w].status
  BY DEF IInv, TypeOK, Run
<1>3. runs[w].truth \notin Terminal /\ runs[w].status \notin Confirming
  BY DEF IInv, RunHolds, SeenIsSo, At
<1>4. SeenIsSo(w)' /\ ConfirmsWhatIs(w)'
  BY <1>1, <1>2, <1>3 DEF SeenIsSo, ConfirmsWhatIs, At, Terminal
<1>5. ActsInTime(w)'
  BY <1>1, <1>2 DEF IInv, RunHolds, ActsInTime, At, Calling, Breached
<1>6. FenceHolds(w)'
  BY <1>1, <1>2 DEF IInv, RunHolds, FenceHolds, Fenced, At, Calling, MayCancel, records
<1>7. \A v \in Workers \ {w} : runs'[v] = runs[v]
  BY <1>1 DEF IInv, TypeOK
<1> QED
  BY <1>4, <1>5, <1>6, <1>7, StepOfOne DEF RunHolds, records

LEMMA AnsweredType ==
  ASSUME IInv, NEW w \in Workers, NEW reply \in {"None", "Authorized", "Invalid"},
         Answered(w, reply)
  PROVE  runs' \in [Workers -> Run]
<1> DEFINE r == [runs[w] EXCEPT !.at = "LookAgain", !.reply = reply]
<1>1. runs[w] \in Run /\ "LookAgain" \in Steps
  BY DEF IInv, TypeOK, Steps
<1>2. r \in Run
  BY <1>1 DEF Run
<1>3. runs' = [runs EXCEPT ![w] = r]
  BY DEF Answered, IInv, TypeOK
<1> QED
  BY <1>2, <1>3 DEF IInv, TypeOK

LEMMA CallHolds ==
  ASSUME IInv, NEW w \in Workers, CallProvider(w) \/ CallTakesEffect(w) \/ CallRefused(w)
  PROVE  IInv'
<1>1. runs[w].action \in Actions /\ At(w, "Call")
  BY DEF IInv, TypeOK, Run, CallProvider, CallTakesEffect, CallRefused
<1>2. CASE CallProvider(w)
  <2>1. Answered(w, "None") /\ UNCHANGED <<clock, method, accepted, provider, records, lease, faults>>
    BY <1>2 DEF CallProvider
  <2>2. requests' \subseteq Actions
    BY <1>1, <1>2 DEF CallProvider, IInv, TypeOK
  <2>3. TypeOK' /\ RecordsHold' /\ CaptureIsResolved'
    BY <2>1, <2>2, AnsweredType
    DEF IInv, TypeOK, RecordsHold, CaptureIsResolved, Breached, records
  <2> QED
    BY <1>1, <2>1, <2>3, AnsweredHolds
<1>3. CASE CallTakesEffect(w)
  <2>1. PICK reply \in {"None", "Authorized", "Invalid"} : Answered(w, reply)
    BY <1>3 DEF CallTakesEffect
  <2>2. UNCHANGED <<clock, method, accepted, records, lease, faults>>
    BY <1>3 DEF CallTakesEffect
  <2>3. PICK state \in Terminal : EndsAs(state)
    BY <1>3 DEF CallTakesEffect, Ends, Terminal
  <2>4. TypeOK' /\ RecordsHold' /\ CaptureIsResolved'
        /\ (provider.state # "Authorized" => provider' = provider)
    BY <2>1, <2>2, <2>3, EndKeeps, AnsweredType DEF IInv, TypeOK, records
  <2> QED
    BY <1>1, <2>1, <2>2, <2>4, AnsweredHolds
<1>4. CASE CallRefused(w)
  <2>1. PICK reply \in {"None", "Authorized", "Invalid"} : Answered(w, reply)
    BY <1>4 DEF CallRefused
  <2>2. UNCHANGED <<clock, outside, records, lease, faults>>
    BY <1>4 DEF CallRefused
  <2>3. TypeOK' /\ RecordsHold' /\ CaptureIsResolved'
    BY <2>1, <2>2, AnsweredType
    DEF IInv, TypeOK, RecordsHold, CaptureIsResolved, Breached, records, outside
  <2> QED
    BY <1>1, <2>1, <2>2, <2>3, AnsweredHolds DEF outside
<1> QED
  BY <1>2, <1>3, <1>4
(* The look after the call.                                                *)
LEMMA ObservesHolds ==
  ASSUME IInv, NEW w \in Workers, At(w, "LookAgain"), NEW truth \in Truths,
         NEW due \in SUBSET Receipts, Observes(w, truth, due),
         truth \in Terminal => truth = provider.state,
         truth = "Captured" /\ provider.late => "Exception" \in due,
         UNCHANGED <<clock, outside, records, lease, faults>>
  PROVE  IInv'
<1> DEFINE next == NextPhase(w, truth)
           r == [runs[w] EXCEPT !.at = "Phase", !.truth = truth, !.due = due, !.next = next]
<1>1. next \in Phases
  BY DEF NextPhase, Phases
<1>2. runs' = [runs EXCEPT ![w] = r] /\ runs'[w] = r
  BY DEF Observes, IInv, TypeOK
<1> HIDE DEF next
<1>0. runs[w] \in Run /\ "Phase" \in Steps
  BY DEF IInv, TypeOK, Steps
<1>3. r \in Run /\ r.at = "Phase" /\ r.truth = truth /\ r.due = due /\ r.next = next
      /\ r.crossed = runs[w].crossed /\ r.action = runs[w].action /\ r.phase = runs[w].phase
      /\ r.status = runs[w].status
  BY <1>0, <1>1 DEF Run
<1>4. SeenIsSo(w)' /\ ConfirmsWhatIs(w)'
  BY <1>2, <1>3 DEF IInv, RunHolds, SeenIsSo, ConfirmsWhatIs, At, Terminal, outside
<1>5. ActsInTime(w)'
  BY <1>1, <1>2, <1>3 DEF IInv, RunHolds, ActsInTime, At, Calling, Breached, Phases
<1>6. FenceHolds(w)'
  BY <1>2, <1>3 DEF IInv, RunHolds, FenceHolds, Fenced, At, Calling, MayCancel, records
<1>7. RunHolds(w)'
  BY <1>4, <1>5, <1>6 DEF RunHolds
<1> QED
  BY <1>2, <1>3, <1>7, StepOfItself DEF IInv, TypeOK, outside, records

LEMMA LookAgainHolds ==
  ASSUME IInv, NEW w \in Workers, LookAgain(w) \/ LookAgainInVain(w) PROVE IInv'
<1>1. CASE LookAgain(w)
  <2>1. provider.state \in Truths /\ runs[w].crossed \in BOOLEAN
    BY DEF IInv, TypeOK, Truths, Run
  <2>2. /\ Owed(provider.state, clock, runs[w].crossed) \in SUBSET Receipts
        /\ provider.state = "Captured" /\ provider.late
             => "Exception" \in Owed(provider.state, clock, runs[w].crossed)
    BY <2>1, Owing
  <2> QED
    BY <1>1, <2>1, <2>2, ObservesHolds DEF LookAgain
<1>2. CASE LookAgainInVain(w)
  <2>1. PICK due \in {runs[w].due} \cup (IF CanObserve(w) THEN {DueAt(clock)} ELSE {}) :
          Observes(w, "Unresolved", due)
    BY <1>2 DEF LookAgainInVain
  <2>2. due \in SUBSET Receipts
    BY DEF IInv, TypeOK, Run, DueAt
  <2> QED
    BY <1>2, <2>1, <2>2, ObservesHolds DEF LookAgainInVain, Truths, Terminal
<1> QED
  BY <1>1, <1>2

(* After the look: phase and fact.                                         *)
LEMMA Going ==
  ASSUME IInv, NEW w \in Workers, NEW step \in {"Excuse", "Report", "Record"}, Goes(w, step),
         step = "Record" => runs[w].truth \in Terminal,
         step = "Report" /\ runs[w].truth \in Terminal => fact' = runs[w].truth,
         UNCHANGED <<clock, provider>>
  PROVE  /\ runs' \in [Workers -> Run]
         /\ RunHolds(w)'
         /\ \A v \in Workers \ {w} : runs'[v] = runs[v]
<1>0. runs[w] \in Run /\ (runs[w].crossed => Breached(clock)') /\ SeenIsSo(w)
  BY DEF IInv, TypeOK, RunHolds, ActsInTime, Breached
<1>1. CASE step = "Excuse"
  <2> DEFINE r == [NoRun EXCEPT !.at = "Excuse", !.crossed = runs[w].crossed]
  <2>1. r \in Run /\ r.at = "Excuse" /\ r.crossed = runs[w].crossed /\ r.truth = "Unresolved"
        /\ r.status = "PendingCapture"
    <3>1. runs[w].crossed \in BOOLEAN
      BY <1>0 DEF Run
    <3>2. NoRun \in Run
      BY DEF NoRun, Run, Steps, Actions, Truths, Statuses
    <3>3. r \in Run
      BY <3>1, <3>2 DEF Run, Steps
    <3>4. r.at = "Excuse" /\ r.crossed = runs[w].crossed
      BY DEF NoRun
    <3>5. r.truth = "Unresolved" /\ r.status = "PendingCapture"
      BY DEF NoRun
    <3> QED BY <3>3, <3>4, <3>5
  <2>2. runs' = [runs EXCEPT ![w] = r] /\ runs'[w] = r
    BY <1>1 DEF Goes, Fails, IInv, TypeOK
  <2>3. RunHolds(w)'
    BY <1>0, <2>1, <2>2, QuietRun DEF Terminal, Confirming
  <2> QED
    BY <2>1, <2>2, <2>3 DEF IInv, TypeOK
<1>2. CASE step = "Report"
  <2> DEFINE r == [NoRun EXCEPT !.at = "Report", !.crossed = runs[w].crossed,
                                !.truth = runs[w].truth, !.due = runs[w].due]
  <2>0. /\ runs[w].crossed \in BOOLEAN /\ runs[w].truth \in Truths
        /\ runs[w].due \in SUBSET Receipts
    BY <1>0 DEF Run
  <2>1. /\ r.at = "Report" /\ r.crossed = runs[w].crossed
        /\ r.truth = runs[w].truth /\ r.due = runs[w].due /\ r.status = "PendingCapture"
    BY DEF NoRun
  <2>4. r \in Run
    BY <2>0 DEF NoRun, Run, Steps, Actions, Phases, Statuses
  <2>2. runs' = [runs EXCEPT ![w] = r] /\ runs'[w] = r
    BY <1>2 DEF Goes, Reports, IInv, TypeOK
  <2>3. RunHolds(w)'
    BY <1>0, <1>2, <2>1, <2>2 DEF RunHolds, SeenIsSo, ConfirmsWhatIs, ActsInTime, FenceHolds,
      Calling, At, Confirming
  <2> QED
    BY <2>2, <2>3, <2>4 DEF IInv, TypeOK
<1>3. CASE step = "Record"
  <2> DEFINE r == [runs[w] EXCEPT !.at = "Record", !.phase = "None", !.next = "None",
                                  !.action = "Capture"]
  <2>1. /\ r \in Run /\ r.at = "Record" /\ r.crossed = runs[w].crossed
        /\ r.truth = runs[w].truth /\ r.due = runs[w].due /\ r.status = runs[w].status
    BY <1>0 DEF Run, Steps, Actions
  <2>2. runs' = [runs EXCEPT ![w] = r] /\ runs'[w] = r
    BY <1>3 DEF Goes, IInv, TypeOK
  <2>3. RunHolds(w)'
    BY <1>0, <1>3, <2>1, <2>2 DEF RunHolds, SeenIsSo, ConfirmsWhatIs, ActsInTime, FenceHolds,
      Calling, At
  <2> QED
    BY <2>1, <2>2, <2>3 DEF IInv, TypeOK
<1> QED
  BY <1>1, <1>2, <1>3

(* Where a run goes from a phase recorded: it has no end to report that is *)
(* not in the fact.                                                        *)
LEMMA PhaseGoing ==
  ASSUME IInv, NEW w \in Workers,
         Goes(w, IF runs[w].truth \in Terminal THEN "Record" ELSE Then(w)),
         UNCHANGED <<clock, provider>>
  PROVE  /\ runs' \in [Workers -> Run]
         /\ RunHolds(w)'
         /\ \A v \in Workers \ {w} : runs'[v] = runs[v]
<1>1. PICK step \in {"Excuse", "Report", "Record"} :
        step = IF runs[w].truth \in Terminal THEN "Record" ELSE Then(w)
  BY DEF Then
<1>2. (step = "Record" => runs[w].truth \in Terminal)
      /\ (step = "Report" => runs[w].truth \notin Terminal)
  BY <1>1 DEF Then
<1>3. Goes(w, step)
  BY <1>1
<1> QED
  BY <1>2, <1>3, Going

LEMMA RecordPhaseHolds == ASSUME IInv, NEW w \in Workers, RecordPhase(w) PROVE IInv'
<1>1. PICK a \in Actions : a = runs[w].action
  BY DEF IInv, TypeOK, Run
<1>2. PICK next \in Phases : next = runs[w].next
  BY DEF RecordPhase, IInv, TypeOK, Run, RunHolds, ActsInTime, At
<1>3. /\ At(w, "Phase") /\ Fenced(w) /\ actions[a] # "None"
      /\ actions' = [actions EXCEPT ![a] = next]
      /\ UNCHANGED <<clock, outside, fact, exception, lease, faults>>
  BY <1>1, <1>2 DEF RecordPhase, IInv, RunHolds, ActsInTime, Calling, At
<1>4. /\ runs' \in [Workers -> Run] /\ RunHolds(w)'
      /\ \A v \in Workers \ {w} : runs'[v] = runs[v]
  BY <1>3, PhaseGoing DEF RecordPhase, outside
<1>5. TypeOK'
  BY <1>3, <1>4 DEF IInv, TypeOK, outside
<1>6. RecordsHold'
  BY <1>3 DEF IInv, TypeOK, RecordsHold, Breached, Actions, outside
<1>7. CaptureIsResolved'
  <2>1. CASE a = "Capture"
    BY <1>1, <1>3, <2>1 DEF IInv, TypeOK, RunHolds, ActsInTime, FenceHolds,
      CaptureIsResolved, Actions, Calling, At
  <2>2. CASE a = "Cancel"
    BY <1>3, <2>2 DEF IInv, TypeOK, CaptureIsResolved, Actions
  <2> QED
    BY <2>1, <2>2 DEF Actions
<1> QED
  BY <1>3, <1>4, <1>5, <1>6, <1>7, StepOfOne DEF outside

LEMMA SamePhaseHolds == ASSUME IInv, NEW w \in Workers, SamePhase(w) PROVE IInv'
<1>1. UNCHANGED <<clock, outside, records, lease, faults>>
  BY DEF SamePhase
<1>2. /\ runs' \in [Workers -> Run] /\ RunHolds(w)'
      /\ \A v \in Workers \ {w} : runs'[v] = runs[v]
  BY <1>1, PhaseGoing DEF SamePhase, outside
<1>3. TypeOK' /\ RecordsHold' /\ CaptureIsResolved'
  BY <1>1, <1>2 DEF IInv, TypeOK, RecordsHold, CaptureIsResolved, Breached, outside, records
<1> QED
  BY <1>1, <1>2, <1>3, StepOfOne DEF outside, records

LEMMA RecordTerminalHolds == ASSUME IInv, NEW w \in Workers, RecordTerminal(w) PROVE IInv'
<1>1. UNCHANGED <<clock, outside, actions, exception, lease, faults>>
  BY DEF RecordTerminal
<1>2. runs[w].truth \in Terminal /\ runs[w].truth = provider.state
  BY DEF RecordTerminal, IInv, RunHolds, SeenIsSo
<1>3. fact' = (IF fact = "None" THEN runs[w].truth ELSE fact)
  BY DEF RecordTerminal
<1>4. PICK step \in {"Excuse", "Report", "Record"} :
        step = IF fact' = runs[w].truth THEN Then(w) ELSE "Excuse"
  BY DEF Then
<1>5. step # "Record" /\ (step = "Report" => fact' = runs[w].truth) /\ Goes(w, step)
  BY <1>4 DEF Then, RecordTerminal
<1>6. /\ runs' \in [Workers -> Run] /\ RunHolds(w)'
      /\ \A v \in Workers \ {w} : runs'[v] = runs[v]
  BY <1>1, <1>5, Going DEF outside
<1>7. TypeOK'
  BY <1>1, <1>2, <1>3, <1>6 DEF IInv, TypeOK, outside
<1>8. RecordsHold' /\ CaptureIsResolved'
  BY <1>1, <1>2, <1>3 DEF IInv, RecordsHold, CaptureIsResolved, Breached, outside
<1> QED
  BY <1>1, <1>3, <1>6, <1>7, <1>8, StepOfOne DEF outside
(* Runs that stop, tell Operations and commit.                             *)
LEMMA RefusedHolds ==
  ASSUME IInv, NEW w \in Workers, Superseded(w) \/ ObservedTooLate(w) PROVE IInv'
  BY FailsHolds DEF Superseded, ObservedTooLate

LEMMA StatusIs ==
  ASSUME NEW w \in Workers
  PROVE  /\ Status(w) \in Statuses \/ Status(w) = runs[w].status
         /\ Status(w) = "CaptureConfirmed" =>
              runs[w].truth = "Captured" \/ runs[w].status = "CaptureConfirmed"
         /\ Status(w) = "CancelConfirmed" =>
              runs[w].truth = "Cancelled" \/ runs[w].status = "CancelConfirmed"
  BY DEF Status, Statuses

LEMMA ReportHolds ==
  ASSUME IInv, NEW w \in Workers, NEW done \in SUBSET Receipts, Report(w, done) PROVE IInv'
<1>1. /\ At(w, "Report") /\ UNCHANGED <<clock, outside, fact, actions, faults>>
      /\ exception' = (exception \/ "Exception" \in runs[w].due \cap done)
  BY DEF Report
<1>2. RecordsHold' /\ CaptureIsResolved'
  BY <1>1 DEF IInv, RecordsHold, CaptureIsResolved, Breached, outside
<1>3. CASE runs[w].due \subseteq done
  <2> DEFINE r == [NoRun EXCEPT !.at = "Commit", !.status = Status(w)]
  <2>1. UNCHANGED lease /\ runs' = [runs EXCEPT ![w] = r] /\ runs'[w] = r
    BY <1>3 DEF Report, Commits, IInv, TypeOK
  <2>2. Status(w) \in Statuses
    BY StatusIs DEF IInv, TypeOK, Run
  <2>3. /\ r \in Run /\ r.at = "Commit" /\ r.status = Status(w)
        /\ r.truth = "Unresolved" /\ ~r.crossed
    BY <2>2 DEF NoRun, Run, Steps, Actions, Phases, Truths, Terminal, Receipts
  <2>4. /\ Status(w) = "CaptureConfirmed" => runs[w].truth = "Captured"
        /\ Status(w) = "CancelConfirmed" => runs[w].truth = "Cancelled"
    BY <1>1, StatusIs DEF IInv, RunHolds, SeenIsSo, At, Confirming
  <2>5. runs[w].truth = "Captured" =>
          fact = "Captured" /\ (provider.late => "Exception" \in runs[w].due \cap done)
    BY <1>1, <1>3 DEF IInv, RunHolds, SeenIsSo, Terminal
  <2>6. runs[w].truth = "Cancelled" => fact = "Cancelled"
    BY <1>1 DEF IInv, RunHolds, SeenIsSo, Terminal
  <2>7. RunHolds(w)'
    BY <1>1, <2>1, <2>3, <2>4, <2>5, <2>6 DEF RunHolds, SeenIsSo, ConfirmsWhatIs, ActsInTime,
      FenceHolds, Calling, At, Terminal, outside
  <2>8. TypeOK'
    BY <1>1, <2>1, <2>3 DEF IInv, TypeOK, outside
  <2>9. \A v \in Workers \ {w} : runs'[v] = runs[v]
    BY <2>1 DEF IInv, TypeOK
  <2> QED
    BY <1>1, <1>2, <2>1, <2>7, <2>8, <2>9, StepOfOne DEF outside
<1>4. CASE ~(runs[w].due \subseteq done)
  <2>1. Leave(w)
    BY <1>4 DEF Report
  <2> QED
    BY <1>1, <2>1, LeavesTelling
<1> QED
  BY <1>3, <1>4

LEMMA ExcuseHolds ==
  ASSUME IInv, NEW w \in Workers, NEW done \in SUBSET Receipts, Excuse(w, done) PROVE IInv'
  BY LeavesTelling DEF Excuse

LEMMA CommitHolds == ASSUME IInv, NEW w \in Workers, Commit(w) PROVE IInv'
  BY LeaveHolds DEF Commit, records

(* Time, leases, Ordering and the provider.                                *)
LEMMA StepOfNone ==
  ASSUME IInv, TypeOK', RecordsHold', CaptureIsResolved',
         UNCHANGED <<runs, fact, actions, exception>>, clock' >= clock, lease'.run = lease.run,
         provider.state # "Authorized" => provider' = provider
  PROVE  IInv'
<1>1. ASSUME NEW w \in Workers PROVE RunHolds(w)'
  BY RunKept DEF IInv, Fenced
<1> QED
  BY <1>1 DEF IInv

LEMMA OutsideHolds ==
  ASSUME IInv, LeaseLapses \/ Tick \/ OrderAccepted \/ (\E a \in Actions : ProviderApplies(a))
               \/ ProviderEnds
  PROVE  IInv'
<1>0. clock \in Nat /\ lease \in [run : Workers \cup {"None"}, live : BOOLEAN]
  BY ConstantsAssumption DEF IInv, TypeOK, Time
<1>1. CASE LeaseLapses
  <2>1. /\ UNCHANGED <<clock, outside, records, runs>> /\ faults' \in 0..MaxFaults
        /\ lease' = [lease EXCEPT !.live = FALSE]
    BY <1>1, ConstantsAssumption DEF LeaseLapses, IInv, TypeOK
  <2>2. lease' \in [run : Workers \cup {"None"}, live : BOOLEAN] /\ lease'.run = lease.run
    BY <1>0, <2>1
  <2>3. TypeOK' /\ RecordsHold' /\ CaptureIsResolved'
    BY <2>1, <2>2
    DEF IInv, TypeOK, RecordsHold, CaptureIsResolved, Breached, outside, records
  <2> QED
    BY <1>0, <2>1, <2>2, <2>3, StepOfNone DEF outside, records
<1>2. CASE Tick
  <2>1. clock' = clock + 1 /\ clock' \in Time
        /\ UNCHANGED <<outside, records, lease, runs, faults>>
    BY <1>2, ConstantsAssumption DEF Tick, IInv, TypeOK, Time
  <2>2. TypeOK' /\ CaptureIsResolved'
    BY <2>1 DEF IInv, TypeOK, CaptureIsResolved, outside, records
  <2>3. RecordsHold'
    BY <1>0, <2>1, ConstantsAssumption DEF IInv, RecordsHold, Breached, outside, records
  <2> QED
    BY <1>0, <2>1, <2>2, <2>3, StepOfNone DEF outside, records
<1>3. CASE OrderAccepted
  <2>1. accepted' \in BOOLEAN
        /\ UNCHANGED <<clock, method, provider, requests, records, lease, runs, faults>>
    BY <1>3 DEF OrderAccepted
  <2>2. TypeOK' /\ RecordsHold' /\ CaptureIsResolved'
    BY <2>1 DEF IInv, TypeOK, RecordsHold, CaptureIsResolved, Breached, records
  <2> QED
    BY <1>0, <2>1, <2>2, StepOfNone DEF records
<1>4. CASE (\E a \in Actions : ProviderApplies(a)) \/ ProviderEnds
  <2>1. UNCHANGED <<clock, method, accepted, records, lease, runs, faults>>
    BY <1>4 DEF ProviderApplies, ProviderEnds
  <2>2. PICK state \in Terminal : EndsAs(state)
    BY <1>4 DEF ProviderApplies, ProviderEnds, Ends, Terminal
  <2>3. TypeOK' /\ RecordsHold' /\ CaptureIsResolved'
        /\ (provider.state # "Authorized" => provider' = provider)
    BY <2>1, <2>2, EndKeeps DEF IInv, TypeOK, records
  <2> QED
    BY <1>0, <2>1, <2>3, StepOfNone DEF records
<1> QED
  BY <1>1, <1>2, <1>3, <1>4

LEMMA StepHolds == ASSUME IInv, [Next]_vars PROVE IInv'
<1>1. ASSUME NEW w \in Workers, WinLease(w) \/ RunDies(w) PROVE IInv'
  BY <1>1, WinLeaseHolds, RunDiesHolds
<1>2. ASSUME NEW w \in Workers, Step(w) PROVE IInv'
  BY <1>2, RefusedHolds, LookHolds, LookInVainHolds, ResolveCaptureHolds, MayEndHolds,
    ResolveCancelHolds, ClaimActionHolds, ClaimTakenHolds, CallHolds, LookAgainHolds,
    RecordPhaseHolds, SamePhaseHolds, RecordTerminalHolds, ReportHolds, ExcuseHolds, CommitHolds
  DEF Step
<1>3. CASE UNCHANGED vars
  <2>1. UNCHANGED <<runs, fact, actions, exception, clock, lease, provider>>
    BY <1>3 DEF vars, outside, records
  <2>2. TypeOK' /\ RecordsHold' /\ CaptureIsResolved'
    BY <1>3 DEF IInv, TypeOK, RecordsHold, CaptureIsResolved, Breached, vars, outside, records
  <2>3. clock' >= clock
    BY <2>1, ConstantsAssumption DEF IInv, TypeOK, Time
  <2> QED
    BY <2>1, <2>2, <2>3, StepOfNone
<1> QED
  BY <1>1, <1>2, <1>3, OutsideHolds DEF Next

(* The inductive invariant: what the records say and what each run has     *)
(* seen, concluded and still holds the fence for.                          *)
THEOREM Invariance == Spec => []IInv
  BY InitHolds, StepHolds, PTL DEF Spec

(* Every variable of the watchdog keeps its type.                          *)
THEOREM TypeCorrect == Spec => []TypeOK
<1>1. IInv => TypeOK
  BY DEF IInv
<1> QED
  BY <1>1, Invariance, PTL

(* A terminal fact, and a result that confirms one, is what the provider   *)
(* holds, however calls to it are lost, late or answered wrongly.          *)
THEOREM FactsAreTrue == Spec => []FactIsProviderTruth
<1>1. IInv => FactIsProviderTruth
  BY DEF IInv, RecordsHold, RunHolds, ConfirmsWhatIs, FactIsProviderTruth
<1> QED
  BY <1>1, Invariance, PTL

(* However runs overlap around the deadline, beside a claimed cancel the   *)
(* recorded capture is not of unknown fate and only an overtaken run can   *)
(* still be capturing.                                                     *)
THEOREM HolderIsAlone == Spec => []HolderCancelsAlone
<1>1. ASSUME IInv, actions["Cancel"] # "None", NEW w \in Workers, Fenced(w)
      PROVE  ~(runs[w].action = "Capture" /\ runs[w].at \in Calling)
  BY <1>1 DEF IInv, RunHolds, ActsInTime, FenceHolds
<1>2. IInv => HolderCancelsAlone
  BY <1>1 DEF IInv, CaptureIsResolved, HolderCancelsAlone
<1> QED
  BY <1>2, Invariance, PTL

(* A capture past the hard deadline is confirmed only after its exception. *)
THEOREM LateCapturesAreReported == Spec => []LateCaptureIsReported
<1>1. IInv => LateCaptureIsReported
  BY DEF IInv, RunHolds, ConfirmsWhatIs, LateCaptureIsReported
<1> QED
  BY <1>1, Invariance, PTL

(* What the provider holds ends once, apart from any record; a fact is     *)
(* recorded by a run that has seen the end.                                *)
LEMMA TruthSteps ==
  ASSUME IInv, [Next]_vars
  PROVE  \/ UNCHANGED <<provider, fact>>
         \/ fact' = fact /\ \E state \in Terminal : EndsAs(state)
         \/ \E w \in Workers : RecordTerminal(w)
<1>1. ASSUME NEW w \in Workers, CallTakesEffect(w)
      PROVE  fact' = fact /\ \E state \in Terminal : EndsAs(state)
  BY <1>1 DEF CallTakesEffect, Ends, records, Terminal
<1>2. ASSUME NEW w \in Workers, Step(w), ~CallTakesEffect(w), ~RecordTerminal(w)
      PROVE  UNCHANGED <<provider, fact>>
  BY <1>2 DEF Step, Superseded, Look, LookInVain, ObservedTooLate, ResolveCapture, MayEnd,
    ResolveCancel, ClaimAction, ClaimTaken, CallProvider, CallRefused, LookAgain, LookAgainInVain,
    RecordPhase, SamePhase, Report, Excuse, Commit, outside, records
<1>3. ASSUME NEW w \in Workers, WinLease(w) \/ RunDies(w) PROVE UNCHANGED <<provider, fact>>
  BY <1>3 DEF WinLease, RunDies, outside, records
<1>4. CASE LeaseLapses \/ Tick \/ OrderAccepted
  BY <1>4 DEF LeaseLapses, Tick, OrderAccepted, outside, records
<1>5. CASE (\E a \in Actions : ProviderApplies(a)) \/ ProviderEnds
  BY <1>5 DEF ProviderApplies, ProviderEnds, Ends, Terminal, records
<1> QED
  BY <1>1, <1>2, <1>3, <1>4, <1>5 DEF Next, vars, outside, records

(* The watchdog keeps the promise of TerminalTruth: of runs that overtake  *)
(* each other the first to record an end is right, and is not overruled.   *)
THEOREM TruthRefinement == Spec => ImplementsTruth
<1>0. "None" \notin Terminal /\ "Authorized" \notin Terminal
  BY DEF Terminal
<1>1. ASSUME Init PROVE Promise!Init
  <2>1. Backed \in [{Payment} -> SUBSET Terminal]
    BY DEF Backed
  <2> QED
    BY <1>1, <2>1 DEF Init, FactOf, Promise!Init
<1>2. ASSUME IInv, [Next]_vars PROVE [Promise!Next]_<<Backed, FactOf>>
  <2>1. CASE UNCHANGED <<provider, fact>>
    BY <2>1 DEF Backed, FactOf
  <2>2. ASSUME fact' = fact, NEW state \in Terminal, EndsAs(state) PROVE Promise!Next
    <3>1. provider.state = "Authorized" /\ provider'.state = state
      BY <2>2 DEF EndsAs
    <3>2. Backed[Payment] = {} /\ Backed'[Payment] = {state}
      BY <1>0, <3>1 DEF Backed
    <3>3. Backed' = [Backed EXCEPT ![Payment] = @ \cup {state}]
      BY <3>2 DEF Backed
    <3>4. FactOf' = FactOf /\ {state} \in SUBSET Terminal
      BY <2>2 DEF FactOf
    <3> QED
      BY <3>3, <3>4 DEF Promise!Happens, Promise!Next
  <2>3. ASSUME NEW w \in Workers, RecordTerminal(w), ~UNCHANGED <<provider, fact>>
        PROVE  Promise!Next
    <3>1. /\ provider' = provider
          /\ fact' = IF fact = "None" THEN runs[w].truth ELSE fact
      BY <2>3 DEF RecordTerminal, outside
    <3>2. fact = "None" /\ fact' = runs[w].truth
      BY <2>3, <3>1
    <3>3. fact' = provider.state /\ provider.state \in Terminal
      BY <1>2, <2>3, <3>2 DEF IInv, RunHolds, SeenIsSo, RecordTerminal
    <3>4. Backed' = Backed /\ fact' \in Backed[Payment]
      BY <3>1, <3>3 DEF Backed
    <3>5. FactOf[Payment] = "None" /\ FactOf' = [FactOf EXCEPT ![Payment] = fact']
      BY <3>2 DEF FactOf
    <3> QED
      BY <3>4, <3>5 DEF Promise!Record, Promise!Next
  <2> QED
    BY <1>2, <2>1, <2>2, <2>3, TruthSteps
<1> QED
  BY <1>1, <1>2, Invariance, PTL DEF Spec, ImplementsTruth, Promise!Spec
=============================================================================
