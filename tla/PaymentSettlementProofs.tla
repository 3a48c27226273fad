---------------------- MODULE PaymentSettlementProofs ----------------------
(***************************************************************************)
(* Proofs about PaymentSettlement for any number of payments, create       *)
(* calls, reconciliation runs and faults.                                  *)
(***************************************************************************)
EXTENDS PaymentSettlement, TLAPS

\* What Payment holds a reference to, the provider has created.
KnownInv ==
  /\ \A c \in Callers : callers[c].at = "Created" => provider[callers[c].op] # "None"
  /\ \A o \in Operations : intent[o] = "Created" => provider[o] # "None"
  /\ \A r \in Runners, o \in Operations : runs[r].basis[o] # "None" => provider[o] # "None"

\* A preparation has one claimed intent; only its own call asks the provider,
\* which it has not asked before.
ClaimInv ==
  /\ \A o, p \in Operations :
       PreparationOf[o] = PreparationOf[p] /\ intent[o] # "Absent" /\ intent[p] # "Absent"
         => o = p
  /\ \A o \in Operations :
       creates[o] > 0 => intent[o] # "Absent" /\ creates[o] = 1
  /\ \A c \in Callers :
       callers[c].at = "Calling"
         => creates[callers[c].op] = 0
  /\ \A c \in Callers :
       callers[c].at \in {"Calling", "Created", "Failed"} => intent[callers[c].op] # "Absent"
  /\ \A c, d \in Callers :
       callers[c].at = "Calling" /\ callers[d].at = "Calling"
         /\ callers[c].op = callers[d].op => c = d

\* Whatever is known of an outcome, wherever it waits to be used, the provider
\* has emitted.
EvidenceInv ==
  /\ \A o \in Operations :
       provider[o] \in Terminal => [op |-> o, status |-> provider[o]] \in emitted
  /\ \A r \in Runners : runs[r].seen.status \in Terminal => runs[r].seen \in emitted
  /\ \A e \in Events : receipts[e] # "None" => e \in emitted
  /\ FactIsProviderTruth

\* What a check says of a payment.
Says(o, outcome) ==
  /\ outcome = "Healed" => fact[o].source = "ProviderRetrieval"
  /\ outcome = "Matched" => fact[o] # NoFact
  /\ outcome = "TerminalConflict" =>
       /\ fact[o] # NoFact
       /\ \E e \in emitted : e.op = o /\ e.status # fact[o].status

\* A terminal snapshot is the fact, and every check, pending or committed, is
\* true.
CheckInv ==
  /\ \A r \in Runners, o \in Operations :
       /\ runs[r].basis[o] \in Terminal => fact[o].status = runs[r].basis[o]
       /\ Says(o, runs[r].checks[o])
  /\ \A o \in Operations : /\ Says(o, checked[o])
                           /\ \A d \in exceptions[o] : Says(o, d)

SettlementInv ==
  /\ TypeOK
  /\ KnownInv
  /\ ClaimInv
  /\ EvidenceInv
  /\ CompletedIsFact
  /\ CheckInv
-----------------------------------------------------------------------------

\* The initial state is well-typed.
LEMMA TypeInit == ASSUME Init PROVE TypeOK
BY ConstantsAssumption
   DEF Init, TypeOK, IntentStates, Run, Closed, NoLook, NoFact, NoCall

\* A closed run is a run.
LEMMA ClosedTyped == Closed \in Run
BY DEF Run, Closed

\* Every step keeps every variable in its type.
LEMMA TypeStep == ASSUME TypeOK, KnownInv, [Next]_vars PROVE TypeOK'
<1> USE ConstantsAssumption
        DEF vars, creation, outside, truth, records, reconciliation
<1>1. CASE UNCHANGED vars
  BY <1>1 DEF TypeOK
<1>2. CASE CallerNext
  <2>1. PICK c \in Callers :
          \/ \E o \in Operations : Admit(c, o)
          \/ Claim(c) \/ LosesClaim(c) \/ ProviderCreates(c) \/ ProviderRefuses(c)
          \/ RecordObservation(c) \/ CallerDies(c)
    BY <1>2 DEF CallerNext
  <2>2. callers[c].at # "Idle" => callers[c] \in Call
    BY DEF TypeOK, NoCall
  <2>3. ASSUME NEW o \in Operations, Admit(c, o) PROVE TypeOK'
    BY <2>3 DEF Admit, TypeOK, Call
  <2>4. CASE Claim(c)
    BY <2>2, <2>4 DEF Claim, TypeOK, Call, IntentStates
  <2>5. CASE LosesClaim(c) \/ CallerDies(c)
    BY <2>5 DEF LosesClaim, CallerDies, TypeOK
  <2>6. CASE ProviderCreates(c)
    BY <2>2, <2>6 DEF ProviderCreates, TypeOK, Call
  <2>7. CASE ProviderRefuses(c)
    BY <2>2, <2>7 DEF ProviderRefuses, TypeOK, Call
  <2>8. CASE RecordObservation(c)
    BY <2>2, <2>8 DEF RecordObservation, TypeOK, Call, IntentStates
  <2> QED BY <2>1, <2>3, <2>4, <2>5, <2>6, <2>7, <2>8
<1>3. CASE ProviderNext
  <2>1. ASSUME NEW o \in Operations, NEW st \in Terminal, ProviderSettles(o, st)
        PROVE  TypeOK'
    BY <2>1 DEF ProviderSettles, TypeOK, Events
  <2>2. ASSUME NEW o \in Operations, CustomerTriesAgain(o) PROVE TypeOK'
    BY <2>2 DEF CustomerTriesAgain, TypeOK
  <2> QED BY <1>3, <2>1, <2>2 DEF ProviderNext
<1>4. CASE WebhookNext
  <2>1. PICK e \in Events : AcceptWebhook(e) \/ ProcessWebhook(e) \/ WebhookRefused(e)
    BY <1>4 DEF WebhookNext
  <2>2. e.op \in Operations /\ WebhookFact(e) \in Evidence
    BY DEF Events, WebhookFact, Evidence
  <2>3. CASE AcceptWebhook(e)
    BY <2>3 DEF AcceptWebhook, TypeOK
  <2>4. CASE ProcessWebhook(e)
    BY <2>2, <2>4 DEF ProcessWebhook, Record, TypeOK
  <2>5. CASE WebhookRefused(e)
    BY <2>5 DEF WebhookRefused, RollBack, TypeOK
  <2> QED BY <2>1, <2>3, <2>4, <2>5
<1>5. CASE RunNext
  <2>1. PICK r \in Runners :
          \/ \E candidates \in SUBSET Operations : StartRun(r, candidates)
          \/ \E o \in Operations : Retrieve(r, o) \/ RetrievalFails(r, o)
          \/ FindsDifference(r) \/ Agrees(r) \/ Heals(r) \/ HealingRefused(r)
          \/ CommitRun(r) \/ RunDies(r)
    BY <1>5 DEF RunNext
  <2>2. runs[r] \in Run
    BY DEF TypeOK
  <2>3. ASSUME NEW candidates \in SUBSET Operations, StartRun(r, candidates)
        PROVE  TypeOK'
    <3>1. \A o \in Operations : Internal(o) \in Terminal \cup {"Pending", "None"}
      BY DEF Internal, TypeOK, Evidence, NoFact
    <3>2. runs'[r] \in Run
      BY <2>2, <2>3, <3>1 DEF StartRun, Run, Closed, TypeOK
    <3> QED BY <2>3, <3>2 DEF StartRun, TypeOK
  <2>4. ASSUME NEW o \in Operations, Retrieve(r, o) PROVE TypeOK'
    <3> DEFINE look == [op |-> o, status |-> provider[o]]
    <3>1. look \in Look
      BY <2>4 DEF Retrieve, Due, KnownInv, TypeOK, Look
    <3>2. [runs[r] EXCEPT !.seen = look] \in Run
      BY <2>2, <3>1 DEF Run
    <3> QED BY <2>4, <3>2 DEF Retrieve, TypeOK
  <2>5. ASSUME NEW o \in Operations, RetrievalFails(r, o) PROVE TypeOK'
    <3>1. [runs[r] EXCEPT !.checks[o] = "Unavailable"] \in Run
      BY <2>2 DEF Run, Outcomes
    <3> QED BY <2>5, <3>1 DEF RetrievalFails, TypeOK
  <2>6. ASSUME NEW outcome \in Outcomes, Looking(r) PROVE Judged(r, outcome) \in [Runners -> Run]
    <3>1. runs[r].seen \in Look
      BY <2>2, <2>6 DEF Looking, Run
    <3> DEFINE o == runs[r].seen.op
    <3>2. [runs[r] EXCEPT !.checks[o] = outcome, !.seen = NoLook] \in Run
      BY <2>2, <2>6, <3>1 DEF Run, Look
    <3>3. Judged(r, outcome) =
            [runs EXCEPT ![r] = [runs[r] EXCEPT !.checks[o] = outcome, !.seen = NoLook]]
      BY DEF Judged
    <3> QED BY <3>2, <3>3 DEF TypeOK
  <2>7. CASE FindsDifference(r)
    BY <2>6, <2>7 DEF FindsDifference, TypeOK, Outcomes, Differences
  <2>8. CASE Agrees(r)
    BY <2>6, <2>8 DEF Agrees, TypeOK, Outcomes
  <2>9. CASE Heals(r)
    <3>1. runs[r].seen.op \in Operations /\ RetrievedFact(r) \in Evidence
      BY <2>2, <2>9 DEF Heals, NeedsHealing, Looking, Run, Look, RetrievedFact, Evidence
    <3>2. runs' \in [Runners -> Run]
      BY <2>6, <2>9 DEF Heals, NeedsHealing, Outcomes
    <3> QED BY <2>9, <3>1, <3>2 DEF Heals, Record, TypeOK
  <2>10. CASE HealingRefused(r)
    <3>1. runs[r].seen \in Events
      BY <2>2, <2>10 DEF HealingRefused, NeedsHealing, Looking, Run, Look, Events
    <3> QED BY <2>10, <3>1, ClosedTyped DEF HealingRefused, AfterRefusal, TypeOK
  <2>11. CASE CommitRun(r)
    <3>1. checked' \in [Operations -> Outcomes \cup {"None"}]
      BY <2>2, <2>11 DEF CommitRun, TypeOK, Run
    <3>2. exceptions' \in [Operations -> SUBSET Differences]
      BY <2>11 DEF CommitRun, Opened, TypeOK
    <3> QED BY <2>11, <3>1, <3>2, ClosedTyped DEF CommitRun, TypeOK
  <2>12. CASE RunDies(r)
    BY <2>12, ClosedTyped DEF RunDies, TypeOK
  <2> QED BY <2>1, <2>3, <2>4, <2>5, <2>7, <2>8, <2>9, <2>10, <2>11, <2>12
<1> QED BY <1>1, <1>2, <1>3, <1>4, <1>5 DEF Next
-----------------------------------------------------------------------------

\* Only create calls change an intent and what is asked of the provider.
LEMMA CreationIsTheCallers ==
  ASSUME [Next]_vars, ~CallerNext PROVE UNCHANGED creation
BY DEF Next, vars, creation, ProviderNext, ProviderSettles, CustomerTriesAgain,
       WebhookNext, AcceptWebhook, ProcessWebhook, WebhookRefused,
       RunNext, StartRun, Retrieve, RetrievalFails, FindsDifference, Agrees, Heals,
       HealingRefused, CommitRun, RunDies

\* Only the job changes its runs and their records.
LEMMA ReconciliationIsTheJobs ==
  ASSUME [Next]_vars, ~RunNext PROVE UNCHANGED reconciliation
BY DEF Next, vars, reconciliation, records, ProviderNext, ProviderSettles, CustomerTriesAgain,
       WebhookNext, AcceptWebhook, ProcessWebhook, WebhookRefused, CallerNext, Admit,
       Claim, LosesClaim, ProviderCreates, ProviderRefuses, RecordObservation, CallerDies

\* A payment the provider has created stays known to it, and its events stay
\* sent.
LEMMA ProviderRemembers ==
  ASSUME TypeOK, [Next]_vars
  PROVE  /\ \A o \in Operations : provider[o] # "None" => provider'[o] # "None"
         /\ emitted \subseteq emitted'
<1> USE DEF outside, creation, vars
<1>1. CASE CallerNext
  <2>1. PICK c \in Callers :
          \/ \E o \in Operations : Admit(c, o)
          \/ Claim(c) \/ LosesClaim(c) \/ ProviderCreates(c) \/ ProviderRefuses(c)
          \/ RecordObservation(c) \/ CallerDies(c)
    BY <1>1 DEF CallerNext
  <2>2. CASE ProviderCreates(c)
    BY <2>2 DEF ProviderCreates, TypeOK
  <2> QED BY <2>1, <2>2 DEF Admit, Claim, LosesClaim, ProviderRefuses, RecordObservation, CallerDies
<1>2. CASE ProviderNext
  <2>1. ASSUME NEW o \in Operations, NEW st \in Terminal, ProviderSettles(o, st)
        PROVE  /\ \A p \in Operations : provider[p] # "None" => provider'[p] # "None"
               /\ emitted \subseteq emitted'
    BY <2>1 DEF ProviderSettles, TypeOK, Terminal
  <2>2. ASSUME NEW o \in Operations, CustomerTriesAgain(o)
        PROVE  /\ \A p \in Operations : provider[p] # "None" => provider'[p] # "None"
               /\ emitted \subseteq emitted'
    BY <2>2 DEF CustomerTriesAgain, TypeOK
  <2> QED BY <1>2, <2>1, <2>2 DEF ProviderNext
<1>3. CASE UNCHANGED outside
  BY <1>3
<1>4. WebhookNext \/ RunNext => UNCHANGED outside
  BY DEF WebhookNext, AcceptWebhook, ProcessWebhook, WebhookRefused,
         RunNext, StartRun, Retrieve, RetrievalFails, FindsDifference, Agrees, Heals,
         HealingRefused, CommitRun, RunDies
<1> QED BY <1>1, <1>2, <1>3, <1>4 DEF Next

\* Whichever process takes a step, a recorded fact stays as it is.
LEMMA FactStays ==
  ASSUME TypeOK, [Next]_vars
  PROVE  \A o \in Operations : fact[o] # NoFact => fact'[o] = fact[o]
<1> USE DEF truth, vars
<1>1. CASE UNCHANGED fact
  BY <1>1
<1>2. CASE CallerNext \/ ProviderNext
  BY <1>2 DEF CallerNext, Admit, Claim, LosesClaim, ProviderCreates, ProviderRefuses,
              RecordObservation, CallerDies, ProviderNext, ProviderSettles, CustomerTriesAgain
<1>3. CASE WebhookNext
  <2>1. PICK e \in Events : AcceptWebhook(e) \/ ProcessWebhook(e) \/ WebhookRefused(e)
    BY <1>3 DEF WebhookNext
  <2>2. CASE ProcessWebhook(e)
    BY <2>2 DEF ProcessWebhook, Record, Stands, TypeOK, Events
  <2> QED BY <1>1, <2>1, <2>2 DEF AcceptWebhook, WebhookRefused
<1>4. CASE RunNext
  <2>1. PICK r \in Runners :
          \/ \E candidates \in SUBSET Operations : StartRun(r, candidates)
          \/ \E o \in Operations : Retrieve(r, o) \/ RetrievalFails(r, o)
          \/ FindsDifference(r) \/ Agrees(r) \/ Heals(r) \/ HealingRefused(r)
          \/ CommitRun(r) \/ RunDies(r)
    BY <1>4 DEF RunNext
  <2>2. CASE Heals(r)
    BY <2>2 DEF Heals, Record, Stands, TypeOK
  <2> QED BY <1>1, <2>1, <2>2 DEF StartRun, Retrieve, RetrievalFails, FindsDifference, Agrees,
                                  HealingRefused, CommitRun, RunDies
<1> QED BY <1>1, <1>2, <1>3, <1>4 DEF Next
-----------------------------------------------------------------------------

\* A judged look enters one outcome and nothing else of the runs but the look.
LEMMA Judging ==
  ASSUME TypeOK, NEW r \in Runners, Looking(r), NEW outcome, runs' = Judged(r, outcome)
  PROVE  LET o == runs[r].seen.op
         IN /\ o \in Operations
            /\ runs'[r].basis = runs[r].basis
            /\ runs'[r].checks[o] = outcome
            /\ runs'[r].seen = NoLook
            /\ \A p \in Operations \ {o} : runs'[r].checks[p] = runs[r].checks[p]
            /\ \A q \in Runners \ {r} : runs'[q] = runs[q]
<1> DEFINE o == runs[r].seen.op
<1>1. runs[r] \in Run /\ runs[r].seen \in Look
  BY DEF TypeOK, Run, Looking
<1>2. o \in Operations
  BY <1>1 DEF Look
<1>3. /\ runs'[r] = [runs[r] EXCEPT !.checks[o] = outcome, !.seen = NoLook]
      /\ \A q \in Runners \ {r} : runs'[q] = runs[q]
  BY DEF Judged, TypeOK
<1>4. /\ runs'[r].basis = runs[r].basis
      /\ runs'[r].checks = [runs[r].checks EXCEPT ![o] = outcome]
      /\ runs'[r].seen = NoLook
  <2> HIDE DEF o
  <2> QED BY <1>1, <1>3 DEF Run
<1>5. runs[r].checks \in [Operations -> Outcomes \cup {"None"}]
  BY <1>1 DEF Run
<1> HIDE DEF o
<1>6. runs'[r].checks[o] = outcome /\ \A p \in Operations \ {o} : runs'[r].checks[p] = runs[r].checks[p]
  BY <1>2, <1>4, <1>5
<1> QED BY <1>2, <1>3, <1>4, <1>6 DEF o

\* Every step keeps KnownInv.
LEMMA KnownStep == ASSUME TypeOK, KnownInv, [Next]_vars PROVE KnownInv'
<1>0. \A o \in Operations : provider[o] # "None" => provider'[o] # "None"
  BY ProviderRemembers
<1>1. /\ \A c \in Callers : callers'[c].at = "Created" => provider'[callers'[c].op] # "None"
      /\ \A o \in Operations : intent'[o] = "Created" => provider'[o] # "None"
  <2>0. \A c \in Callers : callers[c].at # "Idle" => callers[c].op \in Operations
    BY DEF TypeOK, Call, NoCall
  <2>1. CASE CallerNext
    <3>1. PICK c \in Callers :
            \/ \E o \in Operations : Admit(c, o)
            \/ Claim(c) \/ LosesClaim(c) \/ ProviderCreates(c) \/ ProviderRefuses(c)
            \/ RecordObservation(c) \/ CallerDies(c)
      BY <2>1 DEF CallerNext
    <3>2. CASE \E o \in Operations : Admit(c, o)
      BY <1>0, <2>0, <3>2 DEF Admit, KnownInv, TypeOK
    <3>3. CASE Claim(c)
      BY <1>0, <2>0, <3>3 DEF Claim, KnownInv, TypeOK
    <3>4. CASE LosesClaim(c) \/ CallerDies(c)
      BY <1>0, <2>0, <3>4 DEF LosesClaim, CallerDies, KnownInv, TypeOK, NoCall
    <3>5. CASE ProviderCreates(c)
      BY <1>0, <2>0, <3>5 DEF ProviderCreates, KnownInv, TypeOK
    <3>6. CASE ProviderRefuses(c)
      BY <1>0, <2>0, <3>6 DEF ProviderRefuses, KnownInv, TypeOK
    <3>7. CASE RecordObservation(c)
      BY <1>0, <2>0, <3>7 DEF RecordObservation, KnownInv, TypeOK, NoCall
    <3> QED BY <3>1, <3>2, <3>3, <3>4, <3>5, <3>6, <3>7
  <2>2. CASE ~CallerNext
    <3>1. UNCHANGED creation
      BY <2>2, CreationIsTheCallers
    <3> QED BY <1>0, <2>0, <3>1 DEF creation, KnownInv
  <2> QED BY <2>1, <2>2
<1>2. \A r \in Runners, o \in Operations : runs'[r].basis[o] # "None" => provider'[o] # "None"
  <2>1. CASE RunNext
    <3>1. PICK r \in Runners :
            \/ \E candidates \in SUBSET Operations : StartRun(r, candidates)
            \/ \E o \in Operations : Retrieve(r, o) \/ RetrievalFails(r, o)
            \/ FindsDifference(r) \/ Agrees(r) \/ Heals(r) \/ HealingRefused(r)
            \/ CommitRun(r) \/ RunDies(r)
      BY <2>1 DEF RunNext
    <3>2. ASSUME NEW candidates \in SUBSET Operations, StartRun(r, candidates)
          PROVE  \A o \in Operations : runs'[r].basis[o] # "None" => provider'[o] # "None"
      BY <1>0, <3>2 DEF StartRun, Selectable, Closed, KnownInv, TypeOK
    <3>3. CASE \E candidates \in SUBSET Operations : StartRun(r, candidates)
      <4>1. PICK candidates \in SUBSET Operations : StartRun(r, candidates)
        BY <3>3
      <4>2. \A o \in Operations : runs'[r].basis[o] # "None" => provider'[o] # "None"
        BY <3>2, <4>1
      <4>3. \A q \in Runners \ {r} : runs'[q] = runs[q]
        BY <4>1 DEF StartRun, TypeOK
      <4> QED BY <1>0, <4>2, <4>3 DEF KnownInv
    <3>4. ASSUME ~\E candidates \in SUBSET Operations : StartRun(r, candidates)
          PROVE  runs'[r].basis = runs[r].basis \/ runs'[r] = Closed
      <4>1. CASE \E o \in Operations : Retrieve(r, o) \/ RetrievalFails(r, o)
        BY <4>1 DEF Retrieve, RetrievalFails, TypeOK, Run
      <4>2. CASE FindsDifference(r) \/ Agrees(r) \/ Heals(r)
        <5>1. Looking(r) /\ \E outcome \in Outcomes : runs' = Judged(r, outcome)
          BY <4>2 DEF FindsDifference, Agrees, Heals, NeedsHealing, Outcomes, Differences
        <5> QED BY <1>0, <5>1, Judging
      <4>3. CASE HealingRefused(r) \/ CommitRun(r) \/ RunDies(r)
        BY <4>3 DEF HealingRefused, AfterRefusal, CommitRun, RunDies, TypeOK
      <4> QED BY <3>1, <3>4, <4>1, <4>2, <4>3
    <3>5. \A q \in Runners \ {r} : runs'[q] = runs[q]
      BY <3>1 DEF StartRun, Retrieve, RetrievalFails, FindsDifference, Agrees, Heals, HealingRefused,
                  AfterRefusal, CommitRun, RunDies, Judged, TypeOK
    <3> QED BY <1>0, <3>3, <3>4, <3>5 DEF KnownInv, Closed
  <2>2. CASE ~RunNext
    <3>1. UNCHANGED runs
      BY <2>2, ReconciliationIsTheJobs DEF reconciliation
    <3> QED BY <1>0, <3>1 DEF KnownInv
  <2> QED BY <2>1, <2>2
<1> QED BY <1>1, <1>2 DEF KnownInv
-----------------------------------------------------------------------------

\* Every step keeps ClaimInv.
LEMMA ClaimStep == ASSUME TypeOK, ClaimInv, [Next]_vars PROVE ClaimInv'
<1> USE ConstantsAssumption
<1>0. \A c \in Callers : callers[c].at # "Idle" => callers[c].op \in Operations
  BY DEF TypeOK, Call, NoCall
<1>1. CASE CallerNext
  <2>1. PICK c \in Callers :
          \/ \E o \in Operations : Admit(c, o)
          \/ Claim(c) \/ LosesClaim(c) \/ ProviderCreates(c) \/ ProviderRefuses(c)
          \/ RecordObservation(c) \/ CallerDies(c)
    BY <1>1 DEF CallerNext
  <2> DEFINE o == callers[c].op
             Asked == {"Calling", "Created", "Failed"}
  <2>2. CASE \/ \E p \in Operations : Admit(c, p)
             \/ LosesClaim(c) \/ ProviderRefuses(c) \/ CallerDies(c)
    <3>1. UNCHANGED <<intent, creates>>
      BY <2>2 DEF Admit, LosesClaim, ProviderRefuses, CallerDies
    <3>2. ASSUME NEW d \in Callers
          PROVE  /\ callers'[d].at = "Calling" => callers'[d] = callers[d]
                 /\ callers'[d].at \in Asked =>
                      callers[d].at \in Asked /\ callers'[d].op = callers[d].op
      BY <2>2 DEF Admit, LosesClaim, ProviderRefuses, CallerDies, TypeOK, NoCall, Call
    <3> QED BY <3>1, <3>2 DEF ClaimInv
  <2>3. CASE Claim(c)
    <3>1. o \in Operations /\ intent[o] = "Absent"
      BY <1>0, <2>3 DEF Claim, FreeToClaim
    <3>2. creates'[o] = 0
      BY <2>3, <3>1 DEF Claim, ClaimInv, TypeOK
    <3>3. \A d \in Callers : callers'[d].at = "Calling" =>
            \/ d = c /\ callers'[d].op = o
            \/ d # c /\ callers'[d] = callers[d] /\ callers'[d].op # o
      BY <2>3, <3>1 DEF Claim, ClaimInv, TypeOK
    <3>4. \A p \in Operations : intent'[p] # "Absent" => p = o \/ intent[p] # "Absent"
      BY <2>3 DEF Claim, TypeOK
    <3>5. \A p \in Operations : intent[p] # "Absent" => intent'[p] # "Absent"
      BY <2>3 DEF Claim, TypeOK
    <3>6. \A p, q \in Operations :
            PreparationOf[p] = PreparationOf[q] /\ intent'[p] # "Absent" /\ intent'[q] # "Absent"
              => p = q
      BY <2>3, <3>1, <3>4 DEF Claim, FreeToClaim, ClaimInv
    <3>7. intent'[o] # "Absent" /\ creates' = creates
      BY <2>3, <3>1 DEF Claim, TypeOK
    <3>8. \A d \in Callers : callers'[d].at \in Asked => intent'[callers'[d].op] # "Absent"
      BY <1>0, <2>3, <3>1, <3>5, <3>7 DEF Claim, ClaimInv, TypeOK
    <3> QED BY <1>0, <3>2, <3>3, <3>5, <3>6, <3>7, <3>8 DEF ClaimInv
  <2>4. CASE ProviderCreates(c)
    <3>1. o \in Operations /\ creates[o] = 0 /\ intent[o] # "Absent"
      BY <1>0, <2>4 DEF ProviderCreates, ClaimInv
    <3>2. \A d \in Callers : callers'[d].at = "Calling" => callers'[d] = callers[d] /\ callers[d].op # o
      BY <2>4 DEF ProviderCreates, ClaimInv, TypeOK
    <3>3. creates'[o] = 1 /\ \A p \in Operations \ {o} : creates'[p] = creates[p]
      BY <2>4, <3>1 DEF ProviderCreates, TypeOK
    <3>4. \A d \in Callers : callers'[d].at \in Asked =>
            callers[d].at \in Asked /\ callers'[d].op = callers[d].op
      BY <2>4 DEF ProviderCreates, TypeOK
    <3> QED BY <1>0, <2>4, <3>1, <3>2, <3>3, <3>4 DEF ProviderCreates, ClaimInv
  <2>5. CASE RecordObservation(c)
    <3>1. \A p \in Operations : intent'[p] # "Absent" <=> intent[p] # "Absent"
      BY <1>0, <2>5 DEF RecordObservation, ClaimInv, TypeOK
    <3>2. \A d \in Callers : callers'[d].at \in Asked => callers'[d] = callers[d]
      BY <2>5 DEF RecordObservation, TypeOK, NoCall
    <3> QED BY <1>0, <2>5, <3>1, <3>2 DEF RecordObservation, ClaimInv
  <2> QED BY <2>1, <2>2, <2>3, <2>4, <2>5
<1>2. CASE ~CallerNext
  <2>1. UNCHANGED creation
    BY <1>2, CreationIsTheCallers
  <2> QED BY <2>1 DEF creation, ClaimInv
<1> QED BY <1>1, <1>2
-----------------------------------------------------------------------------

\* A run is changed by its own process only.
LEMMA RunSteps ==
  ASSUME TypeOK, [Next]_vars, NEW r \in Runners
  PROVE  \/ runs'[r] = runs[r]
         \/ runs'[r] = Closed
         \/ \E candidates \in SUBSET Operations : StartRun(r, candidates)
         \/ \E o \in Operations : Retrieve(r, o) \/ RetrievalFails(r, o)
         \/ FindsDifference(r) \/ Agrees(r) \/ Heals(r)
<1>1. CASE ~RunNext
  BY <1>1, ReconciliationIsTheJobs DEF reconciliation
<1>2. CASE RunNext
  <2>1. PICK q \in Runners :
          \/ \E candidates \in SUBSET Operations : StartRun(q, candidates)
          \/ \E o \in Operations : Retrieve(q, o) \/ RetrievalFails(q, o)
          \/ FindsDifference(q) \/ Agrees(q) \/ Heals(q) \/ HealingRefused(q)
          \/ CommitRun(q) \/ RunDies(q)
    BY <1>2 DEF RunNext
  <2>2. CASE q # r
    BY <2>1, <2>2 DEF StartRun, Retrieve, RetrievalFails, FindsDifference, Agrees, Heals,
                      HealingRefused, AfterRefusal, CommitRun, RunDies, Judged, TypeOK
  <2>3. CASE q = r
    BY <2>1, <2>3 DEF HealingRefused, AfterRefusal, CommitRun, RunDies, TypeOK
  <2> QED BY <2>2, <2>3
<1> QED BY <1>1, <1>2

\* A new fact is the webhook's that was processed or the one a run healed.
LEMMA FactSteps ==
  ASSUME TypeOK, [Next]_vars, NEW o \in Operations, fact'[o] # fact[o]
  PROVE  \/ \E e \in Events : ProcessWebhook(e) /\ e.op = o
         \/ \E r \in Runners : Heals(r) /\ runs[r].seen.op = o
<1> USE DEF truth, vars
<1>1. WebhookNext \/ RunNext
  BY DEF Next, CallerNext, Admit, Claim, LosesClaim, ProviderCreates, ProviderRefuses,
         RecordObservation, CallerDies, ProviderNext, ProviderSettles, CustomerTriesAgain
<1>2. CASE WebhookNext
  <2>1. PICK e \in Events : AcceptWebhook(e) \/ ProcessWebhook(e) \/ WebhookRefused(e)
    BY <1>2 DEF WebhookNext
  <2>2. ProcessWebhook(e)
    BY <2>1 DEF AcceptWebhook, WebhookRefused
  <2> QED BY <2>2 DEF ProcessWebhook, Record, TypeOK
<1>3. CASE RunNext
  <2>1. PICK r \in Runners :
          \/ \E candidates \in SUBSET Operations : StartRun(r, candidates)
          \/ \E p \in Operations : Retrieve(r, p) \/ RetrievalFails(r, p)
          \/ FindsDifference(r) \/ Agrees(r) \/ Heals(r) \/ HealingRefused(r)
          \/ CommitRun(r) \/ RunDies(r)
    BY <1>3 DEF RunNext
  <2>2. Heals(r)
    BY <2>1 DEF StartRun, Retrieve, RetrievalFails, FindsDifference, Agrees,
                HealingRefused, CommitRun, RunDies
  <2> QED BY <2>2 DEF Heals, Record, TypeOK
<1> QED BY <1>1, <1>2, <1>3

\* Every step keeps EvidenceInv.
LEMMA EvidenceStep == ASSUME TypeOK, EvidenceInv, [Next]_vars PROVE EvidenceInv'
<1>0. emitted \subseteq emitted'
  BY ProviderRemembers
<1>1. ASSUME NEW o \in Operations, provider'[o] \in Terminal
      PROVE  [op |-> o, status |-> provider'[o]] \in emitted'
  <2>1. CASE provider'[o] = provider[o]
    BY <1>0, <1>1, <2>1 DEF EvidenceInv
  <2>2. CASE ProviderNext
    <3>1. ASSUME NEW p \in Operations, NEW st \in Terminal, ProviderSettles(p, st)
          PROVE  [op |-> o, status |-> provider'[o]] \in emitted'
      BY <1>1, <2>1, <3>1 DEF ProviderSettles, TypeOK
    <3>2. ASSUME NEW p \in Operations, CustomerTriesAgain(p)
          PROVE  [op |-> o, status |-> provider'[o]] \in emitted'
      BY <1>1, <2>1, <3>2 DEF CustomerTriesAgain, TypeOK, Terminal
    <3> QED BY <2>2, <3>1, <3>2 DEF ProviderNext
  <2>3. CASE CallerNext
    <3>1. ASSUME NEW c \in Callers, ProviderCreates(c)
          PROVE  [op |-> o, status |-> provider'[o]] \in emitted'
      BY <1>1, <2>1, <3>1 DEF ProviderCreates, TypeOK, Terminal
    <3> QED BY <2>1, <2>3, <3>1 DEF CallerNext, Admit, Claim, LosesClaim, ProviderRefuses,
                                    RecordObservation, CallerDies, outside
  <2>4. CASE ~ProviderNext /\ ~CallerNext
    <3>1. UNCHANGED provider
      BY <2>4 DEF Next, WebhookNext, AcceptWebhook, ProcessWebhook, WebhookRefused,
                  RunNext, StartRun, Retrieve, RetrievalFails, FindsDifference, Agrees, Heals,
                  HealingRefused, CommitRun, RunDies, outside, vars
    <3> QED BY <2>1, <3>1
  <2> QED BY <2>2, <2>3, <2>4
<1>2. ASSUME NEW r \in Runners, runs'[r].seen.status \in Terminal
      PROVE  runs'[r].seen \in emitted'
  <2>1. CASE runs'[r].seen = runs[r].seen
    BY <1>0, <1>2, <2>1 DEF EvidenceInv
  <2>2. CASE runs'[r].seen = NoLook
    BY <1>2, <2>2 DEF NoLook, Terminal
  <2>3. ASSUME NEW o \in Operations, Retrieve(r, o)
        PROVE  runs'[r].seen \in emitted'
    BY <1>0, <1>2, <2>3 DEF Retrieve, EvidenceInv, TypeOK, Run
  <2>4. ASSUME NEW o \in Operations, RetrievalFails(r, o)
        PROVE  runs'[r].seen = runs[r].seen
    BY <2>4 DEF RetrievalFails, TypeOK, Run
  <2>5. FindsDifference(r) \/ Agrees(r) \/ Heals(r) => runs'[r].seen = NoLook
    <3>1. FindsDifference(r) \/ Agrees(r) \/ Heals(r) =>
            Looking(r) /\ \E outcome \in Outcomes : runs' = Judged(r, outcome)
      BY DEF FindsDifference, Agrees, Heals, NeedsHealing, Outcomes, Differences
    <3> QED BY <1>0, <3>1, Judging
  <2>6. ASSUME NEW candidates \in SUBSET Operations, StartRun(r, candidates)
        PROVE  runs'[r].seen = NoLook
    BY <2>6 DEF StartRun, Closed, TypeOK
  <2> QED BY <2>1, <2>2, <2>3, <2>4, <2>5, <2>6, RunSteps DEF Closed
<1>3. \A e \in Events : receipts'[e] # "None" => e \in emitted'
  <2>1. CASE WebhookNext
    BY <1>0, <2>1 DEF WebhookNext, AcceptWebhook, ProcessWebhook, WebhookRefused, RollBack,
                      EvidenceInv, TypeOK
  <2>2. CASE ~WebhookNext
    <3>1. UNCHANGED receipts
      BY <2>2 DEF Next, CallerNext, Admit, Claim, LosesClaim, ProviderCreates, ProviderRefuses,
                  RecordObservation, CallerDies, ProviderNext, ProviderSettles, CustomerTriesAgain,
                  RunNext, StartRun, Retrieve, RetrievalFails, FindsDifference, Agrees, Heals,
                  HealingRefused, CommitRun, RunDies, truth, vars
    <3> QED BY <1>0, <3>1 DEF EvidenceInv
  <2> QED BY <2>1, <2>2
<1>4. ASSUME NEW o \in Operations, fact'[o] # NoFact
      PROVE  [op |-> o, status |-> fact'[o].status] \in emitted'
  <2>1. CASE fact'[o] = fact[o]
    BY <1>0, <1>4, <2>1 DEF EvidenceInv, FactIsProviderTruth
  <2>2. ASSUME NEW e \in Events, ProcessWebhook(e), e.op = o
        PROVE  [op |-> o, status |-> fact'[o].status] \in emitted'
    <3>1. fact'[o].status = e.status
      BY <2>2 DEF ProcessWebhook, Record, WebhookFact, TypeOK
    <3>2. e = [op |-> o, status |-> e.status]
      BY <2>2 DEF Events
    <3> QED BY <1>0, <2>2, <3>1, <3>2 DEF ProcessWebhook, EvidenceInv
  <2>3. ASSUME NEW r \in Runners, Heals(r), runs[r].seen.op = o
        PROVE  [op |-> o, status |-> fact'[o].status] \in emitted'
    <3>1. fact'[o].status = runs[r].seen.status
      BY <2>3 DEF Heals, Record, RetrievedFact, TypeOK
    <3>2. runs[r].seen \in Look /\ runs[r].seen.status \in Terminal
      BY <2>3 DEF Heals, NeedsHealing, Looking, TypeOK, Run
    <3>3. runs[r].seen = [op |-> o, status |-> runs[r].seen.status]
      BY <2>3, <3>2 DEF Look
    <3> QED BY <1>0, <3>1, <3>2, <3>3 DEF EvidenceInv
  <2> QED BY <2>1, <2>2, <2>3, FactSteps
<1> QED BY <1>1, <1>2, <1>3, <1>4 DEF EvidenceInv, FactIsProviderTruth
-----------------------------------------------------------------------------

\* Every step keeps CompletedIsFact: a receipt is completed with the fact it
\* records, and the fact stays.
LEMMA CompletedStep == ASSUME TypeOK, CompletedIsFact, [Next]_vars PROVE CompletedIsFact'
<1> SUFFICES ASSUME NEW e \in Events, receipts'[e] = "Completed"
             PROVE  fact'[e.op] = WebhookFact(e)
  BY DEF CompletedIsFact, WebhookFact
<1>0. e.op \in Operations /\ WebhookFact(e) # NoFact
  BY DEF Events, WebhookFact, NoFact, Terminal
<1>1. CASE receipts[e] = "Completed"
  BY <1>0, <1>1, FactStays DEF CompletedIsFact
<1>2. CASE receipts[e] # "Completed"
  <2>1. WebhookNext
    BY <1>2 DEF Next, CallerNext, Admit, Claim, LosesClaim, ProviderCreates, ProviderRefuses,
                RecordObservation, CallerDies, ProviderNext, ProviderSettles, CustomerTriesAgain,
                RunNext, StartRun, Retrieve, RetrievalFails, FindsDifference, Agrees, Heals,
                HealingRefused, CommitRun, RunDies, truth, vars
  <2>2. PICK f \in Events : AcceptWebhook(f) \/ ProcessWebhook(f) \/ WebhookRefused(f)
    BY <2>1 DEF WebhookNext
  <2>3. ProcessWebhook(f) /\ f = e
    BY <1>2, <2>2 DEF AcceptWebhook, ProcessWebhook, WebhookRefused, RollBack, TypeOK
  <2> QED BY <1>0, <2>3 DEF ProcessWebhook, Record, TypeOK
<1> QED BY <1>1, <1>2

\* What a check says stays true.
LEMMA SayingLasts ==
  ASSUME TypeOK, [Next]_vars, NEW o \in Operations, NEW outcome, Says(o, outcome)
  PROVE  Says(o, outcome)'
<1>1. fact[o] # NoFact => fact'[o] = fact[o]
  BY FactStays
<1>2. emitted \subseteq emitted'
  BY ProviderRemembers
<1>3. fact[o].source = "ProviderRetrieval" => fact[o] # NoFact
  BY DEF NoFact
<1> QED BY <1>1, <1>2, <1>3 DEF Says

\* A check that a run makes is true of the facts when it is made.
LEMMA JudgementIsTrue ==
  ASSUME TypeOK, EvidenceInv, CheckInv, [Next]_vars,
         NEW r \in Runners, FindsDifference(r) \/ Agrees(r) \/ Heals(r),
         NEW o \in Operations
  PROVE  /\ runs'[r].basis = runs[r].basis
         /\ Says(o, runs[r].checks[o])'
<1> DEFINE look == runs[r].seen
<1>1. look \in Look
  BY DEF FindsDifference, Agrees, Heals, NeedsHealing, Looking, TypeOK, Run
<1>2. /\ runs'[r].basis = runs[r].basis
      /\ \A p \in Operations \ {look.op} : runs'[r].checks[p] = runs[r].checks[p]
  <2>1. Looking(r) /\ \E outcome \in Outcomes : runs' = Judged(r, outcome)
    BY DEF FindsDifference, Agrees, Heals, NeedsHealing, Outcomes, Differences
  <2> QED BY <2>1, Judging
<1>3. fact[look.op] # NoFact => fact'[look.op] = fact[look.op]
  BY <1>1, FactStays DEF Look
<1>4. CASE o # look.op
  BY <1>2, <1>4, SayingLasts DEF CheckInv, Says
<1>5. CASE o = look.op
  <2> DEFINE outcome == runs'[r].checks[o]
  <2>1. runs[r].basis[o] \in Terminal => /\ fact[o].status = runs[r].basis[o]
                                         /\ fact[o] # NoFact
    BY DEF CheckInv, Terminal, NoFact
  <2>2. CASE FindsDifference(r)
    <3>1. /\ runs[r].basis[o] \in Terminal
          /\ runs[r].basis[o] # look.status
          /\ outcome = "TerminalConflict" => look.status \in Terminal
          /\ outcome \in Differences
      <4>1. outcome = IF look.status \in Terminal THEN "TerminalConflict" ELSE "StateMismatch"
        BY <1>1, <1>5, <2>2, Judging DEF FindsDifference
      <4> QED BY <1>5, <2>2, <4>1 DEF FindsDifference, Basis, Differences
    <3>2. outcome = "TerminalConflict" => look \in emitted'
      BY <3>1, ProviderRemembers DEF EvidenceInv
    <3> QED BY <1>2, <1>3, <1>5, <2>1, <3>1, <3>2 DEF Says, Differences
  <2>3. CASE Agrees(r)
    <3>1. \/ outcome = "Matched" /\ runs[r].basis[o] \in Terminal
          \/ outcome = "Unresolved"
      BY <1>1, <1>5, <2>3, Judging DEF Agrees, Basis
    <3> QED BY <1>2, <1>3, <1>5, <2>1, <3>1 DEF Says
  <2>4. CASE Heals(r)
    <3>1. outcome = "Healed"
      BY <1>1, <1>5, <2>4, Judging DEF Heals, NeedsHealing
    <3>2. fact'[o].source = "ProviderRetrieval"
      BY <1>1, <1>5, <2>4 DEF Heals, Record, RetrievedFact, TypeOK, Look
    <3> QED BY <1>2, <3>1, <3>2 DEF Says
  <2> QED BY <2>2, <2>3, <2>4
<1> QED BY <1>2, <1>4, <1>5

\* Every step keeps CheckInv.
LEMMA CheckStep == ASSUME TypeOK, EvidenceInv, CheckInv, [Next]_vars PROVE CheckInv'
<1>1. ASSUME NEW r \in Runners, NEW o \in Operations
      PROVE  /\ runs'[r].basis[o] \in Terminal => fact'[o].status = runs'[r].basis[o]
             /\ Says(o, runs[r].checks[o])'
  <2>1. fact[o] # NoFact => fact'[o] = fact[o]
    BY FactStays
  <2>2. runs'[r].basis = runs[r].basis
          => (runs'[r].basis[o] \in Terminal => fact'[o].status = runs'[r].basis[o])
    BY <2>1 DEF CheckInv, Terminal, NoFact
  <2> DEFINE k == runs[r].checks[o]
  <2>0. Says(o, k) /\ \A outcome : Says(o, outcome) => Says(o, outcome)'
    BY SayingLasts DEF CheckInv
  <2>3. runs'[r].checks = runs[r].checks => Says(o, runs[r].checks[o])'
    BY <2>0 DEF Says
  <2>4. CASE runs'[r] = runs[r]
    BY <2>2, <2>3, <2>4
  <2>5. CASE runs'[r] = Closed
    BY <2>5 DEF Closed, Says, Terminal
  <2>6. ASSUME NEW candidates \in SUBSET Operations, StartRun(r, candidates)
        PROVE  /\ runs'[r].basis[o] \in Terminal => fact'[o].status = runs'[r].basis[o]
               /\ Says(o, runs[r].checks[o])'
    <3>1. /\ runs'[r].checks[o] = "None"
          /\ runs'[r].basis[o] \in {"None", Internal(o)}
          /\ fact' = fact
      BY <2>6 DEF StartRun, Closed, TypeOK, truth
    <3> QED BY <3>1 DEF Says, Internal, Terminal
  <2>7. ASSUME NEW p \in Operations, Retrieve(r, p) \/ RetrievalFails(r, p)
        PROVE  /\ runs'[r].basis = runs[r].basis
               /\ runs'[r].checks[o] \in {runs[r].checks[o], "Unavailable"}
    <3>1. CASE Retrieve(r, p)
      BY <3>1 DEF Retrieve, TypeOK, Run
    <3>2. CASE RetrievalFails(r, p)
      BY <3>2 DEF RetrievalFails, TypeOK, Run
    <3> QED BY <2>7, <3>1, <3>2
  <2>8. CASE \E p \in Operations : Retrieve(r, p) \/ RetrievalFails(r, p)
    BY <2>0, <2>2, <2>7, <2>8 DEF Says
  <2>9. CASE FindsDifference(r) \/ Agrees(r) \/ Heals(r)
    BY <2>2, <2>9, JudgementIsTrue
  <2> QED BY <2>4, <2>5, <2>6, <2>8, <2>9, RunSteps
<1>2. ASSUME NEW o \in Operations
      PROVE  Says(o, checked[o])' /\ \A d \in exceptions'[o] : Says(o, d)'
  <2>1. CASE checked' = checked /\ exceptions' = exceptions
    BY <2>1, SayingLasts DEF CheckInv, Says
  <2>2. ASSUME NEW r \in Runners, CommitRun(r)
        PROVE  /\ checked'[o] \in {checked[o], runs[r].checks[o]}
               /\ exceptions'[o] \subseteq exceptions[o] \cup {runs[r].checks[o]}
    BY <2>2 DEF CommitRun, Opened
  <2>3. CASE \E r \in Runners : CommitRun(r)
    BY <2>2, <2>3, SayingLasts DEF CheckInv, Says
  <2>4. CASE ~\E r \in Runners : CommitRun(r)
    <3>1. CASE RunNext
      BY <2>1, <2>4, <3>1 DEF RunNext, StartRun, Retrieve, RetrievalFails, FindsDifference,
                              Agrees, Heals, HealingRefused, RunDies, records
    <3>2. CASE ~RunNext
      BY <2>1, <3>2, ReconciliationIsTheJobs DEF reconciliation, records
    <3> QED BY <3>1, <3>2
  <2> QED BY <2>3, <2>4
<1> QED BY <1>1, <1>2 DEF CheckInv, Says
-----------------------------------------------------------------------------

\* A payment nobody has created satisfies the invariant.
LEMMA SettlementInit == ASSUME Init PROVE SettlementInv
<1>1. TypeOK
  BY TypeInit
<1>2. KnownInv /\ ClaimInv
  BY DEF Init, KnownInv, ClaimInv, NoCall, Closed
<1>3. EvidenceInv /\ CompletedIsFact
  BY DEF Init, EvidenceInv, FactIsProviderTruth, CompletedIsFact, Closed, NoLook, Terminal
<1>4. CheckInv
  BY DEF Init, CheckInv, Says, Closed, Terminal
<1> QED BY <1>1, <1>2, <1>3, <1>4 DEF SettlementInv

\* The invariant is inductive.
LEMMA SettlementStep == ASSUME SettlementInv, [Next]_vars PROVE SettlementInv'
BY TypeStep, KnownStep, ClaimStep, EvidenceStep, CompletedStep, CheckStep DEF SettlementInv

\* Every reachable state satisfies the invariant.
THEOREM SettlementCorrect == Spec => []SettlementInv
<1>1. Init => SettlementInv
  BY SettlementInit
<1>2. SettlementInv /\ [Next]_vars => SettlementInv'
  BY SettlementStep
<1> QED BY <1>1, <1>2, PTL DEF Spec

\* Every variable keeps its type.
THEOREM TypeCorrect == Spec => []TypeOK
BY SettlementCorrect, PTL DEF SettlementInv

\* Create calls that race, die and are repeated for one preparation let the
\* provider create at most one payment.
THEOREM AtMostOneCharge == Spec => []OneChargePerPreparation
<1>1. SettlementInv => OneChargePerPreparation
  BY DEF SettlementInv, ClaimInv, OneChargePerPreparation
<1> QED BY <1>1, SettlementCorrect, PTL

\* The terminal fact is an outcome the provider has announced.
THEOREM FactsAreTrue == Spec => []FactIsProviderTruth
<1>1. SettlementInv => FactIsProviderTruth
  BY DEF SettlementInv, EvidenceInv
<1> QED BY <1>1, SettlementCorrect, PTL

\* A completed webhook receipt is the evidence of the fact.
THEOREM CompletionIsEvidence == Spec => []CompletedIsFact
BY SettlementCorrect, PTL DEF SettlementInv

\* Committed checks and open exceptions say what is so.
THEOREM ReconciliationIsTrue == Spec => []ChecksAreTrue
<1>1. SettlementInv => ChecksAreTrue
  BY DEF SettlementInv, CheckInv, Says, ChecksAreTrue
<1> QED BY <1>1, SettlementCorrect, PTL

\* Receipts and reconciliation records agree with fact and provider.
THEOREM RecordsHold == Spec => []RecordsAreTrue
BY CompletionIsEvidence, ReconciliationIsTrue, PTL DEF RecordsAreTrue

\* Neither webhooks nor the reconciliation job rewrite a terminal fact.
THEOREM FactsAreFinal == Spec => FactIsFinal
<1>1. TypeOK /\ [Next]_vars
        => [\A o \in Operations : fact[o] # NoFact => fact'[o] = fact[o]]_vars
  BY FactStays
<1> QED BY <1>1, TypeCorrect, PTL DEF Spec, FactIsFinal

\* What the provider has announced changes for one payment at a time, and only
\* by what the provider does.
LEMMA AnnouncementSteps ==
  ASSUME [Next]_vars
  PROVE  \/ emitted' = emitted
         \/ \E o \in Operations, st \in Terminal : ProviderSettles(o, st)
<1>1. CASE CallerNext
  BY <1>1 DEF CallerNext, Admit, Claim, LosesClaim, ProviderCreates, ProviderRefuses,
              RecordObservation, CallerDies, outside
<1>2. CASE ProviderNext
  BY <1>2 DEF ProviderNext, CustomerTriesAgain
<1>3. CASE WebhookNext \/ RunNext
  BY <1>3 DEF WebhookNext, AcceptWebhook, ProcessWebhook, WebhookRefused, outside,
              RunNext, StartRun, Retrieve, RetrievalFails, FindsDifference, Agrees, Heals,
              HealingRefused, CommitRun, RunDies
<1> QED BY <1>1, <1>2, <1>3 DEF Next, vars, outside

\* Terminal facts of online payments keep the promise of TerminalTruth: a step
\* that records a fact records announced evidence of a payment without one.
THEOREM TruthRefinement == Spec => ImplementsTruth
<1>1. ASSUME Init PROVE Promise!Init
  <2>1. Backed \in [Operations -> SUBSET Evidence]
    BY DEF Backed
  <2> QED BY <1>1, <2>1 DEF Init, Promise!Init
<1>2. ASSUME SettlementInv, [Next]_vars PROVE [Promise!Next]_<<Backed, fact>>
  <2>0. fact \in [Operations -> Evidence \cup {NoFact}] /\ fact' \in [Operations -> Evidence \cup {NoFact}]
    BY <1>2, SettlementStep DEF SettlementInv, TypeOK
  <2>1. CASE fact' # fact
    <3>1. PICK o \in Operations : fact'[o] # fact[o]
      BY <2>0, <2>1
    <3>2. \/ \E e \in Events : ProcessWebhook(e) /\ e.op = o
          \/ \E r \in Runners : Heals(r) /\ runs[r].seen.op = o
      BY <1>2, <3>1, FactSteps DEF SettlementInv
    <3>3. emitted' = emitted
      BY <3>2 DEF ProcessWebhook, Heals, outside
    <3>4. PICK f : Record(o, f)
      BY <3>2 DEF ProcessWebhook, Heals
    <3>5. fact[o] = NoFact /\ fact' = [fact EXCEPT ![o] = f]
      BY <3>4 DEF Record, Stands
    <3>6. f \in Evidence /\ [op |-> o, status |-> f.status] \in emitted
      <4>1. fact'[o] = f /\ f # NoFact
        BY <2>0, <3>1, <3>5
      <4>2. SettlementInv'
        BY <1>2, SettlementStep
      <4> QED BY <2>0, <3>3, <4>1, <4>2 DEF SettlementInv, EvidenceInv, FactIsProviderTruth
    <3>7. Backed' = Backed /\ f \in Backed[o]
      BY <3>3, <3>6 DEF Backed
    <3> QED BY <3>5, <3>7 DEF Promise!Record, Promise!Next
  <2>2. ASSUME fact' = fact, NEW o \in Operations, NEW st \in Terminal, ProviderSettles(o, st)
        PROVE  Promise!Next
    <3>1. emitted' = emitted \cup {[op |-> o, status |-> st]}
      BY <2>2 DEF ProviderSettles
    <3> DEFINE more == {f \in Evidence : f.status = st}
    <3>2. /\ DOMAIN Backed = Operations
          /\ Backed'[o] = Backed[o] \cup more
          /\ \A p \in Operations \ {o} : Backed'[p] = Backed[p]
      BY <3>1 DEF Backed
    <3>3. Backed' = [Backed EXCEPT ![o] = @ \cup more]
      BY <3>2 DEF Backed
    <3>4. more \in SUBSET Evidence
      OBVIOUS
    <3> QED BY <2>2, <3>3, <3>4 DEF Promise!Happens, Promise!Next
  <2>3. CASE fact' = fact /\ emitted' = emitted
    BY <2>3 DEF Backed
  <2> QED BY <1>2, <2>1, <2>2, <2>3, AnnouncementSteps
<1> QED
  BY <1>1, <1>2, SettlementCorrect, PTL DEF Spec, ImplementsTruth, Promise!Spec
=============================================================================
