---------------------------- MODULE KitchenWork ----------------------------
(***************************************************************************)
(* One kitchen ticket: its creation from redelivered OrderConfirmed events *)
(* and the commands cooks send for its items.                              *)
(*                                                                         *)
(* A command carries an idempotency key and the ticket and work item       *)
(* versions its sender saw.  Its transaction takes the fence of the key,   *)
(* looks the key up, locks the ticket row, decides, and commits the whole  *)
(* effect: operation, work item, readiness and events.  A transaction that *)
(* fails without an answer of the service is attempted once more, whether  *)
(* or not it had committed.  Cooks send the same command twice, from two   *)
(* places, or send another command under a key they already used.          *)
(***************************************************************************)
EXTENDS Kitchen, Sequences, FiniteSets

CONSTANTS
  Copies,      \* bound: keys drawn for one command
  Sessions,    \* requests being served
  Deliveries,  \* concurrent deliveries of the order's OrderConfirmed event
  MaxBehind,   \* bound: versions the ticket moves on while a request or delivery waits
  MaxFaults    \* bound: transactions that fail and commands sent again

ASSUME BoundAssumption == MaxFaults \in Nat /\ MaxBehind \in Nat

VARIABLES
  ticketVersion,  \* 0 until the ticket is created
  items,          \* the work items: status, claim, quantity, version, readiness
  ledger,         \* committed operations, with the creation first
  sessions,       \* the request each session serves
  planning,       \* deliveries of OrderConfirmed that planned a ticket
  faults          \* transactions that failed, commands that were sent again

vars == <<ticketVersion, items, ledger, sessions, planning, faults>>

Ticket == "ticket"

Actions == {"Accept", "Start", "Complete", "MarkReady"}
Commands == {c \in [action : Actions, item : Items, cook : Cooks \cup {NoCook},
                    quantity : Nat, ticketVersion : Nat, itemVersion : Nat] :
               /\ c.cook = NoCook <=> c.action = "MarkReady"
               /\ c.quantity = 0 <=> c.action # "Complete"}
NoCommand == [action |-> "none"]

(* Idempotency keys are drawn at random and never collide.  A key is named *)
(* by the command it was drawn for and a number, which keeps states that   *)
(* differ only in the names of keys from being told apart.                 *)
Keys == Commands \X Copies
NoKey == <<NoCommand, 0>>
WorkItems == [status : {"Queued", "InProgress", "Completed"}, cook : Cooks \cup {NoCook},
              done : Nat, version : Nat, ready : BOOLEAN]

FactKinds == {"Created", "Accepted", "Started", "Progress", "Completed", "CompletedReady", "Ready"}
Fact(i, kind, c, q) == [ticket |-> Ticket, item |-> i, kind |-> kind, cook |-> c, done |-> q]
Operations == [key : Keys \cup {NoKey}, command : Commands \cup {NoCommand},
               fact : [ticket : {Ticket}, item : Items \cup {NoItem}, kind : FactKinds,
                       cook : Cooks \cup {NoCook}, done : Nat],
               orderReady : BOOLEAN]

Answerings == {"none", "Done", "Conflict", "Refused"}
Snapshots == [ticketVersion : Nat, item : WorkItems, othersReady : BOOLEAN]
Requests == [phase : {"idle", "asked", "fenced", "loaded"},
             key : Keys \cup {NoKey}, command : Commands \cup {NoCommand}, known : BOOLEAN,
             retried : BOOLEAN, seen : Snapshots \cup {<<>>}, automatic : BOOLEAN,
             answer : Answerings]

Idle == [phase |-> "idle", key |-> NoKey, command |-> NoCommand, known |-> FALSE,
         retried |-> FALSE, seen |-> <<>>, automatic |-> FALSE, answer |-> "none"]

Init ==
  /\ ticketVersion = 0
  /\ items = [i \in Items |-> [status |-> "Queued", cook |-> NoCook, done |-> 0,
                               version |-> 1, ready |-> FALSE]]
  /\ ledger = <<>>
  /\ sessions = [s \in Sessions |-> Idle]
  /\ planning = {}
  /\ faults = 0

(***************************************************************************)
(* Creation of the ticket from deliveries of OrderConfirmed                *)
(***************************************************************************)

Created == ticketVersion # 0

(* A delivery that finds the ticket by its semantic keys is done; another  *)
(* plans a ticket of its own.                                              *)
ResolveTicket(d) ==
  /\ d \notin planning
  /\ ~Created
  /\ planning' = planning \cup {d}
  /\ UNCHANGED <<ticketVersion, items, ledger, sessions, faults>>

(* The commit inserts the ticket, or adopts the one another delivery       *)
(* inserted meanwhile.                                                     *)
Adopts == Created
CommitTicket(d) ==
  /\ d \in planning
  /\ planning' = planning \ {d}
  /\ IF Adopts
     THEN UNCHANGED <<ticketVersion, ledger>>
     ELSE /\ ticketVersion' = 1
          /\ ledger' = Append(ledger, [key |-> NoKey, command |-> NoCommand, orderReady |-> FALSE,
                                       fact |-> Fact(NoItem, "Created", NoCook, 0)])
  /\ UNCHANGED <<items, sessions, faults>>

(* The transaction of a delivery is rolled back.  (One that committed and  *)
(* whose acknowledgement was lost is CommitTicket.)  Either way the event  *)
(* may be delivered again.                                                 *)
IntakeFails(d) ==
  /\ d \in planning
  /\ planning' = planning \ {d}
  /\ UNCHANGED <<ticketVersion, items, ledger, sessions, faults>>

(***************************************************************************)
(* Requests                                                                *)
(***************************************************************************)

Serving(s) == sessions[s].phase \in {"asked", "fenced", "loaded"}
Stored(k) == {n \in DOMAIN ledger : ledger[n].key = k}
InUse(k) == Stored(k) # {} \/ \E s \in Sessions : sessions[s].key = k

(* What the board offers for an item at the versions shown, to any cook.   *)
(* Who marks a completed item ready is not looked at again.                *)
Offered(i) ==
  LET w == items[i]
      action == CASE w.status = "Queued" /\ w.cook = NoCook -> "Accept"
                  [] w.status = "Queued" /\ w.cook # NoCook -> "Start"
                  [] w.status = "InProgress" -> "Complete"
                  [] OTHER -> "MarkReady"
  IN [action : {action}, item : {i},
      cook : IF action = "MarkReady" THEN {NoCook} ELSE Cooks,
      quantity : IF action = "Complete" THEN 1 .. Required[i] ELSE {0},
      ticketVersion : {ticketVersion}, itemVersion : {w.version}]

(* The request is authorized, and observes whether its key was used before *)
(* the instant it was authorized at.                                       *)
Takes(s, k, command) ==
  /\ ~Serving(s)
  /\ sessions' = [sessions EXCEPT ![s] = [Idle EXCEPT !.phase = "asked", !.key = k,
                                                      !.command = command,
                                                      !.known = Stored(k) # {}]]
  /\ UNCHANGED <<ticketVersion, items, ledger, planning>>

(* A new command under a key nobody used; which one does not matter.       *)
Ask(s) ==
  /\ Created
  /\ planning # {} => ticketVersion <= 1 + MaxBehind
  /\ \A o \in Sessions :
       Serving(o) => ticketVersion <= sessions[o].command.ticketVersion + MaxBehind
  /\ \E i \in Items : ~items[i].ready /\ \E command \in Offered(i) :
       LET free == {n \in Copies : ~InUse(<<command, n>>)}
       IN free # {} /\ Takes(s, <<command, CHOOSE n \in free : TRUE>>, command)
  /\ UNCHANGED faults

(* The same command again: one already committed, or one that another      *)
(* session is serving.                                                     *)
AskAgain(s) ==
  /\ faults < MaxFaults
  /\ faults' = faults + 1
  /\ \/ \E n \in DOMAIN ledger : /\ ledger[n].key # NoKey
                                 /\ Takes(s, ledger[n].key, ledger[n].command)
     \/ \E o \in Sessions : Serving(o) /\ Takes(s, sessions[o].key, sessions[o].command)

(* Another command under a key already used.                               *)
AskOther(s) ==
  /\ faults < MaxFaults
  /\ faults' = faults + 1
  /\ \E n \in DOMAIN ledger, i \in Items :
       /\ ledger[n].key # NoKey
       /\ ~items[i].ready
       /\ \E command \in Offered(i) : Takes(s, ledger[n].key, command)

(***************************************************************************)
(* The transaction of a request                                            *)
(***************************************************************************)

SlipFenceFree(s) == TRUE   \* mutant: the key is looked up without its fence
FenceFree(s) ==
  \A o \in Sessions \ {s} :
    sessions[o].phase \in {"fenced", "loaded"} => sessions[o].key # sessions[s].key
SlipTicketFree(s) == TRUE   \* mutant: the ticket is read without its lock
TicketFree(s) == \A o \in Sessions \ {s} : sessions[o].phase # "loaded"

(* The request ends with its answer.                                       *)
Answers(s, answer) == sessions' = [sessions EXCEPT ![s] = [Idle EXCEPT !.answer = answer]]

\* mutant: a key used for another command is taken for a new one
SlipReplays(s) ==
  IF \E n \in Stored(sessions[s].key) : ledger[n].command # sessions[s].command
  THEN sessions' = [sessions EXCEPT ![s].phase = "fenced"]
  ELSE Answers(s, "Done")

(* An effect found under the key is returned to the same intent, unless    *)
(* the request was authorized thirty days after it, which is a conflict,   *)
(* or before it, which is reported as a dependency that is not available.  *)
Replays(s) ==
  IF \E n \in Stored(sessions[s].key) : ledger[n].command # sessions[s].command
  THEN Answers(s, "Conflict")
  ELSE \/ Answers(s, "Done")
       \/ sessions[s].known /\ Answers(s, "Conflict")
       \/ ~sessions[s].known /\ Answers(s, "Refused")

Fence(s) ==
  /\ sessions[s].phase = "asked"
  /\ FenceFree(s)
  /\ IF Stored(sessions[s].key) # {}
     THEN Replays(s)
     ELSE sessions' = [sessions EXCEPT ![s].phase = "fenced"]
  /\ UNCHANGED <<ticketVersion, items, ledger, planning, faults>>

SameVersions(command) ==
  /\ command.ticketVersion = ticketVersion
  /\ command.itemVersion = items[command.item].version

\* mutant: any cook starts and completes what another accepted
SlipAdmissible(command) ==
  LET w == items[command.item]
  IN CASE command.action = "Accept" -> w.status = "Queued" /\ w.cook = NoCook
       [] command.action = "Start" -> w.status = "Queued" /\ w.cook # NoCook
       [] command.action = "Complete" -> /\ w.status = "InProgress"
                                         /\ w.done + command.quantity <= Required[command.item]
       [] OTHER -> w.status = "Completed" /\ ~w.ready

(* The claim of the accepting cook and the state of the work item.         *)
Admissible(command) ==
  LET w == items[command.item]
  IN CASE command.action = "Accept" -> w.status = "Queued" /\ w.cook = NoCook
       [] command.action = "Start" -> w.status = "Queued" /\ w.cook = command.cook
       [] command.action = "Complete" -> /\ w.status = "InProgress"
                                         /\ w.cook = command.cook
                                         /\ w.done + command.quantity <= Required[command.item]
       [] OTHER -> w.status = "Completed" /\ ~w.ready

Finishes(command) ==
  /\ command.action = "Complete"
  /\ items[command.item].done + command.quantity = Required[command.item]

(* The ticket row is locked and read; what was read decides.  The start    *)
(* admission may be Blocked and the expo mode is read when the last        *)
(* quantity completes; either source may be unavailable.                   *)
Load(s) ==
  LET command == sessions[s].command
      seen == [ticketVersion |-> ticketVersion, item |-> items[command.item],
               othersReady |-> \A i \in Items \ {command.item} : items[i].ready]
  IN /\ sessions[s].phase = "fenced"
     /\ TicketFree(s)
     /\ CASE ~SameVersions(command) -> Answers(s, "Conflict")
          [] SameVersions(command) /\ ~Admissible(command) -> Answers(s, "Refused")
          [] OTHER ->
               \/ \E automatic \in (IF Finishes(command) THEN BOOLEAN ELSE {FALSE}) :
                    sessions' = [sessions EXCEPT ![s].phase = "loaded", ![s].seen = seen,
                                                 ![s].automatic = automatic]
               \/ Answers(s, "Refused")
     /\ UNCHANGED <<ticketVersion, items, ledger, planning, faults>>

\* mutant: marking an item ready counts as a new version of it, too
SlipWorkAfter(w, command, automatic) ==
  CASE command.action = "Accept" -> [w EXCEPT !.cook = command.cook, !.version = @ + 1]
    [] command.action = "Start" -> [w EXCEPT !.status = "InProgress", !.version = @ + 1]
    [] command.action = "Complete" ->
         [w EXCEPT !.status = IF w.done + command.quantity = Required[command.item]
                              THEN "Completed" ELSE "InProgress",
                   !.done = @ + command.quantity, !.version = @ + 1, !.ready = automatic]
    [] OTHER -> [w EXCEPT !.ready = TRUE, !.version = @ + 1]

(* The work item after the command, and the fact it leaves.                *)
WorkAfter(w, command, automatic) ==
  CASE command.action = "Accept" -> [w EXCEPT !.cook = command.cook, !.version = @ + 1]
    [] command.action = "Start" -> [w EXCEPT !.status = "InProgress", !.version = @ + 1]
    [] command.action = "Complete" ->
         [w EXCEPT !.status = IF w.done + command.quantity = Required[command.item]
                              THEN "Completed" ELSE "InProgress",
                   !.done = @ + command.quantity, !.version = @ + 1, !.ready = automatic]
    [] OTHER -> [w EXCEPT !.ready = TRUE]

KindOf(command, after) ==
  CASE command.action = "Accept" -> "Accepted"
    [] command.action = "Start" -> "Started"
    [] command.action = "Complete" -> IF after.status # "Completed" THEN "Progress"
                                      ELSE IF after.ready THEN "CompletedReady" ELSE "Completed"
    [] OTHER -> "Ready"

(* The effect: the work item and the ticket version that follow from what  *)
(* was read under the lock, the operation, and KitchenOrderReady when the  *)
(* item made ready was the last.                                           *)
CommitEffect(s) ==
  LET command == sessions[s].command
      seen == sessions[s].seen
      after == WorkAfter(seen.item, command, sessions[s].automatic)
  IN /\ items' = [items EXCEPT ![command.item] = after]
     /\ ticketVersion' = seen.ticketVersion + 1
     /\ ledger' = Append(ledger,
          [key |-> sessions[s].key, command |-> command,
           fact |-> Fact(command.item, KindOf(command, after), command.cook, after.done),
           orderReady |-> after.ready /\ seen.othersReady])

Commit(s) ==
  /\ sessions[s].phase = "loaded"
  /\ CommitEffect(s)
  /\ Answers(s, "Done")
  /\ UNCHANGED <<planning, faults>>

(* The transaction fails without an answer of the service, before or after *)
(* it committed.  The first time it is attempted again; the second time    *)
(* the dependency is reported.                                             *)
TransactionFails(s) ==
  /\ sessions[s].phase \in {"fenced", "loaded"}
  /\ faults < MaxFaults
  /\ faults' = faults + 1
  /\ \/ UNCHANGED <<ticketVersion, items, ledger>>
     \/ sessions[s].phase = "loaded" /\ CommitEffect(s)
  /\ IF sessions[s].retried
     THEN Answers(s, "Refused")
     ELSE sessions' = [sessions EXCEPT ![s].phase = "asked", ![s].retried = TRUE,
                                       ![s].seen = <<>>, ![s].automatic = FALSE]
  /\ UNCHANGED planning

Next ==
  \/ \E d \in Deliveries : ResolveTicket(d) \/ CommitTicket(d) \/ IntakeFails(d)
  \/ \E s \in Sessions :
       \/ Ask(s) \/ AskAgain(s) \/ AskOther(s)
       \/ Fence(s) \/ Load(s) \/ Commit(s) \/ TransactionFails(s)

Spec == Init /\ [][Next]_vars

(***************************************************************************)
(* Properties                                                              *)
(***************************************************************************)

TypeOK ==
  /\ ticketVersion \in Nat
  /\ items \in [Items -> WorkItems]
  /\ ledger \in Seq(Operations)
  /\ sessions \in [Sessions -> Requests]
  /\ planning \subseteq Deliveries
  /\ faults \in 0 .. MaxFaults

(* An idempotency key takes effect at most once, however often and from    *)
(* wherever the command is sent and whatever acknowledgements are lost.    *)
KeyTakesEffectOnce ==
  \A m, n \in DOMAIN ledger :
    ledger[m].key = ledger[n].key /\ ledger[m].key # NoKey => m = n

(* What a request is told is so: a result it is given is committed under   *)
(* its key for its command, and a conflict means that its command left no  *)
(* effect, also after an attempt whose fate was unknown, unless it repeats *)
(* a command of thirty days ago.                                           *)
Ends(s) == Serving(s) /\ sessions'[s].phase = "idle"
Mine(s) == {n \in DOMAIN ledger : ledger[n].key = sessions[s].key
                                  /\ ledger[n].command = sessions[s].command}
AnswersAreTrue ==
  [][\A s \in Sessions : Ends(s) =>
       /\ sessions'[s].answer = "Done" =>
            \E n \in DOMAIN ledger' : /\ ledger'[n].key = sessions[s].key
                                     /\ ledger'[n].command = sessions[s].command
       /\ sessions'[s].answer = "Conflict" => Mine(s) = {} \/ sessions[s].known]_vars

(* A request that finds its own command committed under its key after it   *)
(* was asked, by a first attempt whose acknowledgement was lost or by      *)
(* another session it waited for, adopts the stored result.                *)
RepeatIsAdopted ==
  [][\A s \in Sessions :
       Ends(s) /\ sessions[s].phase = "asked" /\ ~sessions[s].known /\ Mine(s) # {}
         => sessions'[s].answer = "Done"]_vars

(* KitchenOrderReady is announced exactly once, when the last item of the  *)
(* ticket becomes ready, also when two cooks finish the last two items at  *)
(* the same time.                                                          *)
OrderReadyOnce ==
  Cardinality({n \in DOMAIN ledger : ledger[n].orderReady})
    = IF \A i \in Items : items[i].ready THEN 1 ELSE 0

(***************************************************************************)
(* What the queue's projector checks of a ticket before it believes it     *)
(***************************************************************************)

Finishing == {"Completed", "CompletedReady"}
Quantities == {"Progress"} \cup Finishing

Events == FactKinds \ {"Ready"}
Readies == {"CompletedReady", "Ready"}

(* The operations on item i before the n-th, and what they lead the        *)
(* projector to expect.                                                    *)
Earlier(i, n, kinds) ==
  {m \in 1 .. n - 1 : ledger[m].fact.item = i /\ ledger[m].fact.kind \in kinds}
ExpectedStatus(i, n) ==
  IF Earlier(i, n, Finishing) # {} THEN "Completed"
  ELSE IF Earlier(i, n, {"Started"}) # {} THEN "InProgress" ELSE "Queued"
ExpectedDone(i, n) ==
  LET counted == Earlier(i, n, Quantities)
  IN IF counted = {} THEN 0
     ELSE ledger[CHOOSE m \in counted : \A o \in counted : o <= m].fact.done
AcceptedBy(i, n, cook) == \E m \in Earlier(i, n, {"Accepted"}) : ledger[m].fact.cook = cook

(* The n-th operation names the version of item i that it found, and is    *)
(* an accept, a start or a completion in its place, the latter two by the  *)
(* cook who accepted, with a quantity that adds up.                        *)
FollowsFrom(i, n) ==
  LET command == ledger[n].command
      fact == ledger[n].fact
  IN /\ command.itemVersion = 1 + Cardinality(Earlier(i, n, Events))
     /\ \/ /\ fact.kind = "Accepted"
           /\ ExpectedStatus(i, n) = "Queued" /\ Earlier(i, n, {"Accepted"}) = {}
        \/ /\ fact.kind = "Started"
           /\ ExpectedStatus(i, n) = "Queued" /\ AcceptedBy(i, n, fact.cook)
        \/ /\ fact.kind \in Quantities
           /\ ExpectedStatus(i, n) = "InProgress" /\ AcceptedBy(i, n, fact.cook)
           /\ fact.done = ExpectedDone(i, n) + command.quantity
           /\ IF fact.kind = "Progress" THEN fact.done < Required[i] ELSE fact.done = Required[i]

(* The stored work item is what its operations lead to.                    *)
End == Len(ledger) + 1
StandsAsTold(i) ==
  /\ items[i].version = 1 + Cardinality(Earlier(i, End, Events))
  /\ items[i].cook # NoCook <=> Earlier(i, End, {"Accepted"}) # {}
  /\ items[i].status = ExpectedStatus(i, End)
  /\ items[i].done = ExpectedDone(i, End)
  /\ items[i].ready <=> Earlier(i, End, Readies) # {}

(* A readiness is the only one of its item, of its whole quantity and of   *)
(* the version the item has kept since.                                    *)
ReadyAsTold(i) ==
  \A n \in Earlier(i, End, Readies) :
    /\ \A m \in Earlier(i, End, Readies) : m = n
    /\ ledger[n].fact.done = Required[i]
    /\ items[i].version = ledger[n].command.itemVersion
                            + (IF ledger[n].fact.kind = "Ready" THEN 0 ELSE 1)

Reconciles ==
  /\ ticketVersion = Len(ledger)
  /\ \A n \in 2 .. Len(ledger) : ledger[n].command.ticketVersion = n - 1
  /\ \A i \in Items :
       /\ \A n \in Earlier(i, End, Events) : FollowsFrom(i, n)
       /\ StandsAsTold(i)
       /\ ReadyAsTold(i)

(* The queue's projector never rejects what cooks have committed, however  *)
(* their sessions raced, failed and were repeated: at every moment the     *)
(* ticket, its work items and its operations pass its whole check.  One    *)
(* that did not pass would be rejected by every consumption and rebuild,   *)
(* for good.                                                               *)
ReaderAccepts == Created => Reconciles

(***************************************************************************)
(* The ticket keeps the kitchen's promise about its history                *)
(***************************************************************************)

Phase(w) ==
  CASE ~Created -> "Absent"
    [] Created /\ w.ready -> "Ready"
    [] Created /\ ~w.ready /\ w.status = "Queued" -> IF w.cook = NoCook THEN "Queued" ELSE "Accepted"
    [] OTHER -> w.status

History == INSTANCE KitchenHistory WITH
  Tickets <- {Ticket},
  log <- [n \in DOMAIN ledger |-> ledger[n].fact],
  stage <- [t \in {Ticket} |-> [i \in Items |->
             [phase |-> Phase(items[i]), cook |-> items[i].cook, done |-> items[i].done]]]

(* What is committed for the ticket is a history its readers accept.       *)
HistoryHolds == History!Spec
=============================================================================
