-------------------------- MODULE TerminalCapture --------------------------
(***************************************************************************)
(* The watchdog over one authorization of a card terminal: the job         *)
(* payment-terminal-capture-watchdog:v1.  Scheduled runs win a fenced      *)
(* lease, read the clock once, and then either capture the authorization   *)
(* because the order was accepted in time, or, once the hard deadline is   *)
(* reached, cancel it.  The provider's answers to these calls are never    *)
(* the truth: a run looks before it decides and again after it has called. *)
(* Operations is told through a task, and of a missed deadline through an  *)
(* exception.  Runs overlap when a lease lapses and die between any two    *)
(* calls; calls to the provider and the terminal sink carry no fence.      *)
(*                                                                         *)
(* Amounts, digests, scopes and authorizations agree, and an acceptance is *)
(* no newer than the clock of the run that reads it: a mismatch is a       *)
(* refusal that changes no state.  targetCaptureAt decides nothing.        *)
(***************************************************************************)
EXTENDS Integers

(* Definitions named Slip... are plausible bugs that stand beside the correct *)
(* definition following them; no action uses them.                            *)

CONSTANTS
  Workers,      \* runs of the job that can be under way at the same time
  AlertAt,      \* alertAt, in ticks after the authorization
  HardDeadline, \* hardDeadline
  MaxTime,      \* bound on the clock
  MaxFaults     \* bound on runs that die and leases that lapse under a live run

ASSUME ConstantsAssumption ==
  /\ AlertAt \in Nat /\ HardDeadline \in Nat /\ MaxTime \in Nat
  /\ 0 < AlertAt /\ AlertAt <= HardDeadline /\ HardDeadline < MaxTime
  /\ "None" \notin Workers
  /\ MaxFaults \in Nat

VARIABLES
  clock,
  method,     \* paymentMethod of the authorization evidence
  accepted,   \* whether there is Ordering's acceptance evidence
  provider,   \* what the provider holds; late if captured after the hard deadline
  requests,   \* calls on their way to the provider
  fact,       \* the terminal fact
  actions,    \* phase of the permanent Capture and Cancel actions
  exception,  \* whether CaptureDeadlineExceeded was opened
  lease,      \* the run that won it last, and whether it still holds
  runs,       \* what each run is doing
  faults

outside == <<method, accepted, provider, requests>>
records == <<fact, actions, exception>>
vars == <<clock, outside, records, lease, runs, faults>>

Time == 0..MaxTime

Actions == {"Capture", "Cancel"}
Phases == {"Claimed", "InvocationUnknown", "ResolvedAuthorized", "TerminalObserved"}
Unresolved == {"Claimed", "InvocationUnknown"}
Terminal == {"Captured", "Cancelled", "Failed"}
Truths == Terminal \cup {"Authorized", "Unresolved"}
Statuses == {"AwaitingOrderAcceptance", "PendingCapture", "CaptureConfirmed",
             "CancelConfirmed", "ReconciliationRequired", "InteracSingleMessage"}

\* The calls of a run, each named for what it waits to do.
Steps == {"Idle", "Look", "ResolveCapture", "ResolveCancel", "Claim", "Call",
          "LookAgain", "Phase", "Record", "Report", "Commit", "Excuse"}

\* What Operations can be told through, and what it has to be told as of t.
Receipts == {"Task", "Exception"}
DueAt(t) == {r \in Receipts : t >= IF r = "Task" THEN AlertAt ELSE HardDeadline}

\* crossed: the deadline has passed for this run; truth: what the provider showed it;
\* due: the receipts it owes; reply: what the answer to its call is good for.
Run == [at : Steps, crossed : BOOLEAN, action : Actions,
        phase : Phases \cup {"None"}, next : Phases \cup {"None"},
        reply : {"None", "Authorized", "Invalid"}, truth : Truths,
        due : SUBSET Receipts, status : Statuses]
NoRun == [at |-> "Idle", crossed |-> FALSE, action |-> "Capture",
          phase |-> "None", next |-> "None", reply |-> "None", truth |-> "Unresolved",
          due |-> {}, status |-> "PendingCapture"]

TypeOK ==
  /\ clock \in Time
  /\ method \in {"TerminalCard", "TerminalInterac"}
  /\ accepted \in BOOLEAN
  /\ provider \in [state : Terminal \cup {"Authorized"}, late : BOOLEAN]
  /\ requests \subseteq Actions
  /\ fact \in Terminal \cup {"None"}
  /\ actions \in [Actions -> Phases \cup {"None"}]
  /\ exception \in BOOLEAN
  /\ lease \in [run : Workers \cup {"None"}, live : BOOLEAN]
  /\ runs \in [Workers -> Run]
  /\ faults \in 0..MaxFaults

Init ==
  /\ clock = 0
  /\ method \in {"TerminalCard", "TerminalInterac"}
  /\ accepted = FALSE
  /\ provider = [state |-> IF method = "TerminalCard" THEN "Authorized" ELSE "Captured",
                 late |-> FALSE]
  /\ requests = {}
  /\ fact = "None"
  /\ actions = [a \in Actions |-> "None"]
  /\ exception = FALSE
  /\ lease = [run |-> "None", live |-> FALSE]
  /\ runs = [w \in Workers |-> NoRun]
  /\ faults = 0
-----------------------------------------------------------------------------
(* Beginning and end of a run: process.                                     *)

At(w, step) == runs[w].at = step

\* The fence of the run is the newest one: no later run has won the lease.
Fenced(w) == lease.run = w

\* Receipts and observations count only until the lease expires.
CanObserve(w) == Fenced(w) /\ lease.live

Breached(t) == t >= HardDeadline

\* The finally block: releasing a superseded fence releases nothing.
Leave(w) ==
  /\ lease' = [lease EXCEPT !.live = @ /\ ~Fenced(w)]
  /\ runs' = [runs EXCEPT ![w] = NoRun]

RunDies(w) ==
  /\ ~At(w, "Idle")
  /\ faults < MaxFaults
  /\ faults' = faults + 1
  /\ runs' = [runs EXCEPT ![w] = NoRun]
  /\ UNCHANGED <<clock, outside, records, lease>>

\* Only under a slow run is the lapse a fault: a lease left behind always lapses.
LeaseLapses ==
  /\ lease.live
  /\ lease' = [lease EXCEPT !.live = FALSE]
  /\ \/ \E w \in Workers : Fenced(w) /\ At(w, "Idle") /\ UNCHANGED faults
     \/ faults < MaxFaults /\ faults' = faults + 1
  /\ UNCHANGED <<clock, outside, records, runs>>

\* What else the run has read no longer matters; its own clock says what is due.
Fails(w) ==
  runs' = [runs EXCEPT ![w] = [NoRun EXCEPT !.at = "Excuse", !.crossed = runs[w].crossed]]

\* The repositories refuse the writes of a run whose fence is superseded, and a
\* phase that is not the one the run has read.
Superseded(w) ==
  /\ \/ runs[w].at \in {"Claim", "Phase"} /\ ~Fenced(w)
     \/ At(w, "Phase") /\ actions[runs[w].action] # runs[w].phase
  /\ Fails(w)
  /\ UNCHANGED <<clock, outside, records, lease, faults>>
-----------------------------------------------------------------------------
(* What the run is to do: lease, clock, Interac, deadline, acceptance       *)

Reports(w, truth, due) ==
  runs' = [runs EXCEPT ![w] = [NoRun EXCEPT !.at = "Report", !.crossed = runs[w].crossed,
             !.truth = truth, !.due = due]]

Commits(w, status) ==
  runs' = [runs EXCEPT ![w] = [NoRun EXCEPT !.at = "Commit", !.status = status]]

\* The clock is read after the lease is won and not again.  A single-message
\* payment is captured already; acceptance matters only before the deadline.
WinLease(w) ==
  /\ At(w, "Idle")
  /\ ~lease.live
  /\ lease' = [run |-> w, live |-> TRUE]
  /\ \/ method = "TerminalInterac" /\ Commits(w, "InteracSingleMessage")
     \/ /\ method = "TerminalCard"
        /\ runs' = [runs EXCEPT ![w] = [NoRun EXCEPT
             !.at = IF Breached(clock) \/ accepted THEN "Look" ELSE "Report",
             !.crossed = Breached(clock), !.due = DueAt(clock),
             !.status = IF Breached(clock) \/ accepted THEN NoRun.status
                        ELSE "AwaitingOrderAcceptance"]]
  /\ UNCHANGED <<clock, outside, records, faults>>
-----------------------------------------------------------------------------
(* retrieveTruth before the decision                                        *)

\* Slip: a capture is reported late only if the run itself began late.
SlipMissed(t, late) == late

\* captureMissedDeadline, of a capture first seen at t; late: asked for past the deadline.
Missed(t, late) == late \/ t > HardDeadline

\* A capture in time owes nothing, one that missed the deadline everything.
Owed(truth, t, late) ==
  IF truth # "Captured" THEN DueAt(t) ELSE IF Missed(t, late) THEN Receipts ELSE {}

Saw(w, truth, t, late) == [runs[w] EXCEPT !.truth = truth, !.due = Owed(truth, t, late)]

\* A deadline observed by a run that began in time stops the capture.
Look(w) ==
  /\ At(w, "Look")
  /\ CanObserve(w)
  /\ IF provider.state \in Terminal
     THEN runs' = [runs EXCEPT ![w] = [Saw(w, provider.state, clock, FALSE) EXCEPT !.at = "Record"]]
     ELSE IF ~runs[w].crossed /\ Breached(clock)
     THEN runs' = [runs EXCEPT ![w].at = "Report", ![w].truth = "Authorized",
                               ![w].due = DueAt(clock), ![w].crossed = TRUE]
     ELSE runs' = [runs EXCEPT ![w].at = "ResolveCapture", ![w].due = DueAt(clock)]
  /\ UNCHANGED <<clock, outside, records, lease, faults>>

\* A Failure, an exception, or a status that decides nothing.
LookInVain(w) ==
  /\ At(w, "Look")
  /\ \E due \in {runs[w].due} \cup (IF CanObserve(w) THEN {DueAt(clock)} ELSE {}) :
       Reports(w, "Unresolved", due)
  /\ UNCHANGED <<clock, outside, records, lease, faults>>

\* An observation after the lease has expired is refused.
ObservedTooLate(w) ==
  /\ runs[w].at \in {"Look", "LookAgain"}
  /\ ~CanObserve(w)
  /\ Fails(w)
  /\ UNCHANGED <<clock, outside, records, lease, faults>>
-----------------------------------------------------------------------------
(* processCapture, processDeadline: resolveAction, claimAction              *)

\* Slip: a capture whose fate is unknown does not hold back the cancel.
SlipMayCancel(phase) == phase # "TerminalObserved"

\* No cancel while a capture may still be under way.
MayCancel(phase) == phase \in {"None", "ResolvedAuthorized"}

\* What a run in time does with the capture action it reads ...
ResolveCapture(w) ==
  /\ At(w, "ResolveCapture")
  /\ ~runs[w].crossed
  /\ LET phase == actions["Capture"] IN
       IF phase = "TerminalObserved" THEN Reports(w, "Authorized", runs[w].due)
       ELSE runs' = [runs EXCEPT ![w].at = IF phase = "None" THEN "Claim" ELSE "Call",
                                 ![w].action = "Capture", ![w].phase = phase]
  /\ UNCHANGED <<clock, outside, records, lease, faults>>

\* ... and what one does that has to end the authorization.
MayEnd(w) ==
  /\ At(w, "ResolveCapture")
  /\ runs[w].crossed
  /\ IF MayCancel(actions["Capture"])
     THEN runs' = [runs EXCEPT ![w].at = "ResolveCancel"]
     ELSE Reports(w, "Unresolved", runs[w].due)
  /\ UNCHANGED <<clock, outside, records, lease, faults>>

ResolveCancel(w) ==
  /\ At(w, "ResolveCancel")
  /\ LET phase == actions["Cancel"] IN
       IF phase = "TerminalObserved" THEN Reports(w, "Unresolved", runs[w].due)
       ELSE runs' = [runs EXCEPT ![w].at = IF phase = "None" THEN "Claim" ELSE "Call",
                                 ![w].action = "Cancel", ![w].phase = phase]
  /\ UNCHANGED <<clock, outside, records, lease, faults>>

ClaimAction(w) ==
  /\ At(w, "Claim")
  /\ Fenced(w)
  /\ actions[runs[w].action] = "None"
  /\ actions' = [actions EXCEPT ![runs[w].action] = "Claimed"]
  /\ runs' = [runs EXCEPT ![w].at = "Call", ![w].phase = "Claimed"]
  /\ UNCHANGED <<clock, outside, fact, exception, lease, faults>>

\* An overtaken run may be shown the permanent action that exists already.
ClaimTaken(w) ==
  /\ At(w, "Claim")
  /\ LET phase == actions[runs[w].action] IN
       /\ phase # "None"
       /\ IF phase = "TerminalObserved"
          THEN Reports(w, IF runs[w].action = "Capture" THEN "Authorized" ELSE "Unresolved",
                       runs[w].due)
          ELSE runs' = [runs EXCEPT ![w].at = "Call", ![w].phase = phase]
  /\ UNCHANGED <<clock, outside, records, lease, faults>>
-----------------------------------------------------------------------------
(* invokeAction, mutateAndRetrieve                                          *)

\* What the provider holds has ended; requests for it change nothing any more.
EndsAs(state) ==
  /\ provider.state = "Authorized"
  /\ provider' = [state |-> state, late |-> state = "Captured" /\ clock > HardDeadline]
  /\ requests' = {}

Ends(a) == EndsAs(IF a = "Capture" THEN "Captured" ELSE "Cancelled")

Answered(w, reply) ==
  runs' = [runs EXCEPT ![w].at = "LookAgain", ![w].reply = reply]

\* The call is lost, or it is taken and the answer is.
CallProvider(w) ==
  /\ At(w, "Call")
  /\ \/ requests' = requests
     \/ provider.state = "Authorized" /\ requests' = requests \cup {runs[w].action}
  /\ Answered(w, "None")
  /\ UNCHANGED <<clock, method, accepted, provider, records, lease, faults>>

\* The call takes effect and is answered; an answer may be malformed.
CallTakesEffect(w) ==
  /\ At(w, "Call")
  /\ Ends(runs[w].action)
  /\ \E reply \in {"None", "Invalid"} : Answered(w, reply)
  /\ UNCHANGED <<clock, method, accepted, records, lease, faults>>

\* The provider answers that the payment is still Authorized: it has not taken
\* this call, nor an earlier one under the same key.
CallRefused(w) ==
  /\ At(w, "Call")
  /\ provider.state = "Authorized"
  /\ runs[w].action \notin requests
  /\ Answered(w, IF CanObserve(w) THEN "Authorized" ELSE "Invalid")
  /\ UNCHANGED <<clock, outside, records, lease, faults>>

\* Slip: a call that was not refused must have worked.
SlipNextPhase(w, truth) ==
  IF truth \in Terminal \/ runs[w].reply = "None" THEN "TerminalObserved"
  ELSE "ResolvedAuthorized"

NextPhase(w, truth) ==
  IF truth \in Terminal THEN "TerminalObserved"
  ELSE IF runs[w].reply = "Authorized" /\ truth = "Authorized" THEN "ResolvedAuthorized"
  ELSE "InvocationUnknown"

\* Slip: a call whose outcome could not be looked up is taken to have worked.
SlipObserves(w, truth, due) ==
  LET seen == IF truth # "Unresolved" THEN truth
              ELSE IF runs[w].action = "Capture" THEN "Captured" ELSE "Cancelled"
  IN runs' = [runs EXCEPT ![w] = [@ EXCEPT !.at = "Phase", !.truth = seen, !.due = due,
                                           !.next = NextPhase(w, seen)]]

\* The observation is followed by the phase, the terminal fact, then the report.
Observes(w, truth, due) ==
  runs' = [runs EXCEPT ![w] = [@ EXCEPT !.at = "Phase", !.truth = truth, !.due = due,
                                        !.next = NextPhase(w, truth)]]

LookAgain(w) ==
  /\ At(w, "LookAgain")
  /\ CanObserve(w)
  /\ Observes(w, provider.state, Owed(provider.state, clock, runs[w].crossed))
  /\ UNCHANGED <<clock, outside, records, lease, faults>>

LookAgainInVain(w) ==
  /\ At(w, "LookAgain")
  /\ \E due \in {runs[w].due} \cup (IF CanObserve(w) THEN {DueAt(clock)} ELSE {}) :
       Observes(w, "Unresolved", due)
  /\ UNCHANGED <<clock, outside, records, lease, faults>>

\* After a malformed answer the run fails, having recorded what it has seen.
Then(w) == IF runs[w].reply = "Invalid" THEN "Excuse" ELSE "Report"

Goes(w, step) ==
  CASE step = "Excuse" -> Fails(w)
    [] step = "Report" -> Reports(w, runs[w].truth, runs[w].due)
    [] step = "Record" ->
         runs' = [runs EXCEPT ![w] = [@ EXCEPT !.at = "Record", !.phase = "None",
                    !.next = "None", !.action = "Capture"]]

RecordPhase(w) ==
  /\ At(w, "Phase")
  /\ Fenced(w)
  /\ actions[runs[w].action] = runs[w].phase
  /\ actions' = [actions EXCEPT ![runs[w].action] = runs[w].next]
  /\ Goes(w, IF runs[w].truth \in Terminal THEN "Record" ELSE Then(w))
  /\ UNCHANGED <<clock, outside, fact, exception, lease, faults>>

\* A phase recorded already is not written again.
SamePhase(w) ==
  /\ At(w, "Phase")
  /\ runs[w].phase = runs[w].next
  /\ Goes(w, IF runs[w].truth \in Terminal THEN "Record" ELSE Then(w))
  /\ UNCHANGED <<clock, outside, records, lease, faults>>

\* The terminal sink returns the fact there is, and the run checks it is its own.
RecordTerminal(w) ==
  /\ At(w, "Record")
  /\ fact' = IF fact = "None" THEN runs[w].truth ELSE fact
  /\ Goes(w, IF fact' = runs[w].truth THEN Then(w) ELSE "Excuse")
  /\ UNCHANGED <<clock, outside, actions, exception, lease, faults>>
-----------------------------------------------------------------------------
(* ensureOperationalReceipts, commitResult                                  *)

Status(w) ==
  IF runs[w].status = "AwaitingOrderAcceptance" THEN runs[w].status
  ELSE IF runs[w].truth = "Captured" THEN "CaptureConfirmed"
  ELSE IF runs[w].crossed /\ runs[w].truth = "Cancelled" THEN "CancelConfirmed"
  ELSE IF "Exception" \in runs[w].due \/ runs[w].truth \in Terminal
  THEN "ReconciliationRequired"
  ELSE "PendingCapture"

\* The task and the exception are asked for whatever becomes of the other; done says
\* which came back.  Nothing reads the task later on, but without it there is no
\* result: it may fail, and once staff have completed it, it does.
Report(w, done) ==
  /\ At(w, "Report")
  /\ exception' = (exception \/ "Exception" \in runs[w].due \cap done)
  /\ IF runs[w].due \subseteq done THEN Commits(w, Status(w)) /\ UNCHANGED lease
     ELSE Leave(w)
  /\ UNCHANGED <<clock, outside, fact, actions, faults>>

\* A run that fails over the money still tells what is due by its own clock.
Excuse(w, done) ==
  /\ At(w, "Excuse")
  /\ exception' = (exception \/ (runs[w].crossed /\ "Exception" \in done))
  /\ Leave(w)
  /\ UNCHANGED <<clock, outside, fact, actions, faults>>

\* The operation record is returned to a repetition of the same operation and
\* read by nothing else; a superseded fence is refused.
Commit(w) ==
  /\ At(w, "Commit")
  /\ Leave(w)
  /\ UNCHANGED <<clock, outside, records, faults>>
-----------------------------------------------------------------------------
(* The clock, Ordering, the provider                                        *)

Tick ==
  /\ clock < MaxTime
  /\ clock' = clock + 1
  /\ UNCHANGED <<outside, records, lease, runs, faults>>

OrderAccepted ==
  /\ method = "TerminalCard"
  /\ ~accepted
  /\ accepted' = TRUE
  /\ UNCHANGED <<clock, method, provider, requests, records, lease, runs, faults>>

\* A call on its way takes effect late, or never.
ProviderApplies(a) ==
  /\ a \in requests
  /\ Ends(a)
  /\ UNCHANGED <<clock, method, accepted, records, lease, runs, faults>>

\* The authorization expires, or the provider rejects it.
ProviderEnds ==
  /\ \E state \in {"Cancelled", "Failed"} : EndsAs(state)
  /\ UNCHANGED <<clock, method, accepted, records, lease, runs, faults>>
-----------------------------------------------------------------------------
Step(w) ==
  \/ Superseded(w)
  \/ Look(w) \/ LookInVain(w) \/ ObservedTooLate(w)
  \/ ResolveCapture(w) \/ MayEnd(w) \/ ResolveCancel(w) \/ ClaimAction(w) \/ ClaimTaken(w)
  \/ CallProvider(w) \/ CallTakesEffect(w) \/ CallRefused(w)
  \/ LookAgain(w) \/ LookAgainInVain(w)
  \/ RecordPhase(w) \/ SamePhase(w) \/ RecordTerminal(w)
  \/ \E done \in SUBSET Receipts : Report(w, done) \/ Excuse(w, done)
  \/ Commit(w)

Next ==
  \/ \E w \in Workers : WinLease(w) \/ Step(w) \/ RunDies(w)
  \/ LeaseLapses
  \/ Tick \/ OrderAccepted
  \/ \E a \in Actions : ProviderApplies(a)
  \/ ProviderEnds

Spec == Init /\ [][Next]_vars

\* The scheduler starts runs again and again, a run that does not die goes on, a
\* lease left behind lapses, and neither the provider nor the store of exceptions
\* is out of reach for ever.  Ordering owes nothing.
Fairness ==
  /\ WF_vars(Tick)
  /\ WF_vars(LeaseLapses)
  /\ WF_vars(\E w \in Workers : WinLease(w))
  /\ \A w \in Workers : WF_vars(Step(w))
  /\ SF_vars(\E w \in Workers : Look(w))
  /\ SF_vars(\E w \in Workers : LookAgain(w))
  /\ SF_vars(\E w \in Workers : CallTakesEffect(w))
  /\ SF_vars(\E w \in Workers : Report(w, Receipts) \/ Excuse(w, Receipts))

FairSpec == Spec /\ Fairness
-----------------------------------------------------------------------------
\* A terminal fact, and a result that confirms one, says what the provider holds,
\* although calls are lost, late or malformed and runs see it only afterwards.
FactIsProviderTruth ==
  /\ fact # "None" => fact = provider.state
  /\ \A w \in Workers : At(w, "Commit") =>
       /\ runs[w].status = "CaptureConfirmed" => fact = "Captured"
       /\ runs[w].status = "CancelConfirmed" => fact = "Cancelled"

\* The fact keeps the promise of TerminalTruth: the first outcome recorded had
\* been reached at the provider, and no other run, overtaken or not, changes it.
Payment == "payment"
Backed == [p \in {Payment} |-> {provider.state} \cap Terminal]
FactOf == [p \in {Payment} |-> fact]
Promise == INSTANCE TerminalTruth WITH
  Payments <- {Payment}, Evidence <- Terminal, None <- "None", backed <- Backed, fact <- FactOf
ImplementsTruth == Promise!Spec

\* Beside a claimed cancel the recorded capture is not of unknown fate, and the run
\* that won the lease last is not capturing: a capture that is still asked for then
\* comes from an overtaken run, whose claims and phases are refused.  Its call is
\* not, so the provider may be asked for both (processCapture, processDeadline).
Calling == {"Claim", "Call", "LookAgain", "Phase"}
HolderCancelsAlone ==
  actions["Cancel"] # "None" =>
    /\ actions["Capture"] \notin Unresolved
    /\ \A w \in Workers : Fenced(w) => ~(runs[w].action = "Capture" /\ runs[w].at \in Calling)

\* A capture that took effect after the hard deadline is not confirmed to anyone
\* before Operations has the exception, also when the run that asked for it began
\* in time or has died.
LateCaptureIsReported ==
  \A w \in Workers :
    /\ At(w, "Commit")
    /\ runs[w].status = "CaptureConfirmed"
    /\ provider.late
    => exception

\* An authorization is not left open: it ends and the end is recorded, or it hangs
\* on a capture of unknown fate that Operations has been told of.
AuthorizationSettles ==
  <>[](\/ method = "TerminalInterac"
       \/ fact # "None"
       \/ actions["Capture"] \in Unresolved /\ exception)
=============================================================================
