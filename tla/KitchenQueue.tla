---------------------------- MODULE KitchenQueue ----------------------------
(***************************************************************************)
(* The kitchen queue of one store: a projection of the store's history of  *)
(* kitchen facts, kept up to date by consuming the facts' events in any    *)
(* order and rebuilt from the history on request, with readers that page   *)
(* through it while it changes.                                            *)
(*                                                                         *)
(* A generation is a checkpoint of the history and one row per work item.  *)
(* Exactly one is active.  A consumed event may only advance the active    *)
(* generation over facts of its own ticket; a rebuild advances it over     *)
(* everything.  Both do so in a transaction that takes the lock of the     *)
(* store's projection, reads the active generation and the history, and    *)
(* replaces the active generation if it is still the one it read; the      *)
(* consumption's receipt is part of the same transaction.                  *)
(*                                                                         *)
(* The checkpoint of the history that a read answers with and the          *)
(* comparison of two checkpoints belong to adapters outside the            *)
(* repository; they are modelled by what the service demands of them.      *)
(***************************************************************************)
EXTENDS Kitchen, Sequences, FiniteSets

CONSTANTS
  Tickets,         \* kitchen tickets of the store
  Workers,         \* transactions that may be under way
  Rebuilds,        \* rebuild references
  Limit,           \* rows on a page
  MaxFacts,        \* bound: facts of the history
  MaxGenerations   \* bound: generations activated

ASSUME FinitenessAssumption == IsFiniteSet(Items) /\ IsFiniteSet(Tickets)
ASSUME QueueAssumption == MaxFacts \in Nat /\ MaxGenerations \in Nat /\ Limit \in Nat \ {0}

VARIABLES
  log,        \* the committed facts of the store, in order
  stage,      \* where each item stands
  active,     \* the active generation
  completed,  \* facts whose event was consumed
  parked,     \* facts whose event was rejected for good
  requests,   \* rebuild references that were issued, with what they expect and were told
  work,       \* the transaction each worker is in
  reader      \* one reader paging through the queue

source == <<log, stage>>
projection == <<active, completed, parked>>
queueVars == <<log, stage, active, completed, parked, requests, work, reader>>

Source == INSTANCE KitchenHistory

(***************************************************************************)
(* What the history says as of a checkpoint                                *)
(***************************************************************************)

Facts(t, c) == {n \in 1 .. c : log[n].ticket = t}
ItemFacts(t, i, c) == {n \in Facts(t, c) : log[n].item = i}
TicketsAt(c) == {t \in Tickets : Facts(t, c) # {}}

Says(t, i, c, kinds) == \E n \in ItemFacts(t, i, c) : log[n].kind \in kinds

(* The row of an item, rebuilt from its facts.                             *)
RowAt(t, i, c) ==
  [ticketVersion |-> Cardinality(Facts(t, c)),
   status |-> IF Says(t, i, c, {"Completed", "CompletedReady"}) THEN "Completed"
              ELSE IF Says(t, i, c, {"Started"}) THEN "InProgress" ELSE "Queued",
   accepted |-> Says(t, i, c, {"Accepted"}),
   done |-> IF ItemFacts(t, i, c) = {} THEN 0
            ELSE log[CHOOSE n \in ItemFacts(t, i, c) : \A m \in ItemFacts(t, i, c) : m <= n].done,
   ready |-> Says(t, i, c, {"CompletedReady", "Ready"})]

TicketAt(t, c) == [i \in Items |-> RowAt(t, i, c)]

Rows == [ticketVersion : Nat, status : {"Queued", "InProgress", "Completed"},
         accepted : BOOLEAN, done : Nat, ready : BOOLEAN]

(* Facts that are announced by an event.  A manual readiness is not.       *)
Announced == {n \in DOMAIN log : log[n].kind # "Ready"}

(***************************************************************************)
(* Generations                                                             *)
(***************************************************************************)

Generation(reference, checkpoint, rows) ==
  [reference |-> reference, checkpoint |-> checkpoint, rows |-> rows]
Nothing == Generation(0, 0, <<>>)     \* no generation was ever activated
Exists(g) == g.reference # 0

Projected(g) == DOMAIN g.rows

NoRequest == [expected |-> 0, told |-> "not issued", kept |-> 0]
NoWork == [kind |-> "idle"]
Consumes(n, base) == [kind |-> "consume", fact |-> n, base |-> base]
Serves(r, base) == [kind |-> "rebuild", rebuild |-> r, base |-> base]

NotReading == [generation |-> 0, rows |-> <<>>, shown |-> {}, whole |-> <<>>, ended |-> FALSE]

QueueInit ==
  /\ Source!Init
  /\ active = Nothing
  /\ completed = {}
  /\ parked = {}
  /\ requests = [r \in Rebuilds |-> NoRequest]
  /\ work = [w \in Workers |-> NoWork]
  /\ reader = NotReading

(* The kitchen goes on working.                                            *)
KitchenWorks ==
  /\ Len(log) < MaxFacts
  /\ Source!Next
  /\ UNCHANGED <<active, completed, parked, requests, work, reader>>

(***************************************************************************)
(* Transactions                                                            *)
(***************************************************************************)

LockFree == \A w \in Workers : work[w] = NoWork

BeginConsume(w, n) ==
  /\ work[w] = NoWork
  /\ LockFree
  /\ n \in Announced \ (completed \cup parked)
  /\ work' = [work EXCEPT ![w] = Consumes(n, active)]
  /\ UNCHANGED <<source, projection, requests, reader>>

BeginRebuild(w, r) ==
  /\ work[w] = NoWork
  /\ LockFree
  /\ requests[r].told # "not issued"
  /\ work' = [work EXCEPT ![w] = Serves(r, active)]
  /\ UNCHANGED <<source, projection, requests, reader>>

Leaves(w) == work' = [work EXCEPT ![w] = NoWork]

(* A transaction is rolled back: something it depends on is not available, *)
(* the process dies, a rule of the service asks for a retry, or the        *)
(* replacement finds another generation active than the one that was read, *)
(* which is answered as an unavailable dependency: an event's next         *)
(* delivery, or the next request for the rebuild, tries again.             *)
RollsBack(w) ==
  /\ work[w] # NoWork
  /\ Leaves(w)
  /\ UNCHANGED <<source, projection, requests, reader>>

(* The replacement of the active generation by the next one, if it is      *)
(* still the one that was read.                                            *)
StillActive(base) == active.reference = base.reference
Activates(checkpoint, rows) ==
  /\ active.reference < MaxGenerations
  /\ active' = Generation(active.reference + 1, checkpoint, rows)

(***************************************************************************)
(* Consuming an event                                                      *)
(***************************************************************************)

(* Checkpoint c follows that of generation g by facts of ticket t alone:   *)
(* the adapter answers Initial, Exact, Current or Successor, and a retry   *)
(* for a gap, a regression or another ticket's fact in between.            *)
OnlyAbout(t, from, to) == \A n \in from + 1 .. to : log[n].ticket = t
SlipFollows(g, t, c) == c >= g.checkpoint   \* mutant: other tickets' facts are passed over
Follows(g, t, c) == c >= g.checkpoint /\ OnlyAbout(t, g.checkpoint, c)

(* A KitchenWorkCreated event, the source answering as of checkpoint c,    *)
(* must find its ticket as it was created.                                 *)
AsCreated(t, c) == Cardinality(Facts(t, c)) = 1

\* mutant: an event behind a gap is rejected like one whose ticket moved on
SlipCreatedVerdict(n, base, c) ==
  LET t == log[n].ticket
      differs == t \in Projected(base) /\ base.rows[t] # TicketAt(t, c)
  IN IF ~AsCreated(t, c) \/ ~Follows(base, t, c) \/ differs THEN "park"
     ELSE IF c > base.checkpoint THEN "switch" ELSE "complete"
CreatedVerdict(n, base, c) ==
  LET t == log[n].ticket
      known == t \in Projected(base)
      differs == known /\ base.rows[t] # TicketAt(t, c)
  IN IF ~AsCreated(t, c) THEN "park"
     ELSE IF ~Follows(base, t, c) THEN "retry"
     ELSE IF differs THEN "park"
     ELSE IF c > base.checkpoint THEN "switch"
     ELSE IF known THEN "complete" ELSE "retry"

(* The event of a later fact takes the rows of its ticket from the source  *)
(* as of c, except the readiness, which stays what the active rows say.    *)
KeepingReady(g, t, c) ==
  [i \in Items |-> [RowAt(t, i, c) EXCEPT !.ready = g.rows[t][i].ready]]

LifecycleVerdict(n, base, c) ==
  LET t == log[n].ticket
  IN IF t \notin Projected(base) \/ ~Follows(base, t, c) THEN "retry"
     ELSE IF c > base.checkpoint THEN "switch"
     ELSE IF base.rows[t] = KeepingReady(base, t, c) THEN "complete" ELSE "retry"

Verdict(n, base, c) ==
  IF log[n].kind = "Created" THEN CreatedVerdict(n, base, c) ELSE LifecycleVerdict(n, base, c)

Candidate(n, base, c) ==
  IF log[n].kind = "Created" THEN TicketAt(log[n].ticket, c)
  ELSE KeepingReady(base, log[n].ticket, c)

Extended(g, t, rows) == [u \in Projected(g) \cup {t} |-> IF u = t THEN rows ELSE g.rows[u]]

Completes(n) == completed' = completed \cup {n} /\ UNCHANGED parked
Parks(n) == parked' = parked \cup {n} /\ UNCHANGED <<active, completed>>

(* The event is completed in the transaction that switches, or is found to *)
(* be projected already, or is rejected for good.  A verdict of "retry"    *)
(* and a switch that lost to another generation are RollsBack.             *)
Consume(w) ==
  /\ work[w].kind = "consume"
  /\ LET n == work[w].fact
         base == work[w].base
     IN \E c \in n .. Len(log) :
          \/ /\ Verdict(n, base, c) = "switch"
             /\ StillActive(base)
             /\ Activates(c, Extended(base, log[n].ticket, Candidate(n, base, c)))
             /\ Completes(n)
          \/ /\ Verdict(n, base, c) = "complete"
             /\ Completes(n)
             /\ UNCHANGED active
          \/ /\ Verdict(n, base, c) = "park"
             /\ Parks(n)
  /\ Leaves(w)
  /\ UNCHANGED <<source, requests, reader>>

(***************************************************************************)
(* Rebuilding                                                              *)
(***************************************************************************)

(* A rebuild is asked for, expecting the generation that is active.        *)
AskRebuild(r) ==
  /\ requests[r].told = "not issued"
  /\ requests' = [requests EXCEPT ![r] = [expected |-> active.reference, told |-> "nothing", kept |-> 0]]
  /\ UNCHANGED <<source, projection, work, reader>>

Tell(r, answer) == requests' = [requests EXCEPT ![r].told = answer]

Kept(r) == requests[r].kept # 0

(* The checkpoints a rebuild may be made at.                               *)
SlipRebuildAt(base) == 0 .. Len(log)   \* mutant: a regression is not refused
RebuildAt(base) == base.checkpoint .. Len(log)

(* A rebuild that took effect is answered by the generation it made,       *)
(* active or retired.  Another must find the generation it expects; it     *)
(* takes everything from the source, at the active checkpoint or later.    *)
Rebuild(w) ==
  /\ work[w].kind = "rebuild"
  /\ LET r == work[w].rebuild
         base == work[w].base
     IN \/ /\ Kept(r)
           /\ Tell(r, "Done")
           /\ UNCHANGED projection
        \/ /\ ~Kept(r)
           /\ requests[r].expected # base.reference
           /\ Tell(r, "Conflict")
           /\ UNCHANGED projection
        \/ /\ ~Kept(r)
           /\ requests[r].expected = base.reference /\ StillActive(base)
           /\ \E c \in RebuildAt(base) :
                Activates(c, [t \in TicketsAt(c) |-> TicketAt(t, c)])
           /\ \E answer \in {"Done", requests[r].told} :    \* the answer may be lost
                requests' = [requests EXCEPT ![r].told = answer,
                                             ![r].kept = active.reference + 1]
           /\ UNCHANGED <<completed, parked>>
  /\ Leaves(w)
  /\ UNCHANGED <<source, reader>>

(***************************************************************************)
(* Paging through the queue                                                *)
(***************************************************************************)

(* Rows come in the order of their tickets' creation, and page by page.    *)
RowKeys(g) == Projected(g) \X Items
CreatedAt(t) == CHOOSE n \in DOMAIN log : log[n].ticket = t /\ log[n].kind = "Created"
Pages(g, shown) ==
  LET left == RowKeys(g) \ shown
  IN {page \in SUBSET left :
        /\ Cardinality(page) = IF Cardinality(left) <= Limit THEN Cardinality(left) ELSE Limit
        /\ \A k \in page, o \in left \ page : CreatedAt(k[1]) <= CreatedAt(o[1])}

Shows(g, shown, whole, page) ==
  reader' = [generation |-> g.reference,
             rows |-> [k \in DOMAIN reader.rows \cup page |->
                         IF k \in page THEN g.rows[k[1]][k[2]] ELSE reader.rows[k]],
             shown |-> shown \cup page,
             whole |-> whole,
             ended |-> RowKeys(g) = shown \cup page]

FirstPage ==
  /\ reader = NotReading
  /\ Exists(active)
  /\ \E page \in Pages(active, {}) : Shows(active, {}, active.rows, page)
  /\ UNCHANGED <<source, projection, requests, work>>

(* The cursor names the generation it was issued under.                    *)
SlipCursorHolds == TRUE   \* mutant: the cursor is not bound to its generation
CursorHolds == reader.generation = active.reference
NextPage ==
  /\ reader # NotReading /\ ~reader.ended
  /\ CursorHolds
  /\ \E page \in Pages(active, reader.shown) : Shows(active, reader.shown, reader.whole, page)
  /\ UNCHANGED <<source, projection, requests, work>>

(* A list that came to its end, or a cursor that no longer holds: the      *)
(* reader starts again.                                                    *)
StartOver ==
  /\ reader # NotReading
  /\ reader.ended \/ ~CursorHolds
  /\ reader' = NotReading
  /\ UNCHANGED <<source, projection, requests, work>>

QueueNext ==
  \/ KitchenWorks
  \/ \E w \in Workers :
       \/ \E n \in 1 .. Len(log) : BeginConsume(w, n)
       \/ \E r \in Rebuilds : BeginRebuild(w, r)
       \/ Consume(w) \/ Rebuild(w) \/ RollsBack(w)
  \/ \E r \in Rebuilds : AskRebuild(r)
  \/ FirstPage \/ NextPage \/ StartOver

QueueSpec == QueueInit /\ [][QueueNext]_queueVars

(***************************************************************************)
(* Properties                                                              *)
(***************************************************************************)

QueueTypeOK ==
  /\ log \in Seq(Source!Facts)
  /\ active.reference \in 0 .. MaxGenerations /\ active.checkpoint \in 0 .. Len(log)
  /\ Projected(active) \subseteq Tickets
  /\ \A t \in Projected(active) : active.rows[t] \in [Items -> Rows]
  /\ completed \subseteq Announced
  /\ parked \subseteq Announced
  /\ requests \in [Rebuilds -> [expected : 0 .. MaxGenerations, kept : 0 .. MaxGenerations,
                                told : {"not issued", "nothing", "Done", "Conflict"}]]
  /\ reader.shown \subseteq Tickets \X Items

(* The active queue is the history as of its checkpoint: every ticket      *)
(* created by then and no other, each row as its facts say, no item shown  *)
(* ready that is not, and every event acknowledged as consumed in it.      *)
QueueIsHistory ==
  /\ \A n \in completed : Exists(active) /\ n <= active.checkpoint
  /\ Exists(active) =>
       /\ Projected(active) = TicketsAt(active.checkpoint)
       /\ \A t \in Projected(active), i \in Items :
            LET row == active.rows[t][i]
                fact == RowAt(t, i, active.checkpoint)
            IN /\ [row EXCEPT !.ready = FALSE] = [fact EXCEPT !.ready = FALSE]
               /\ row.ready => fact.ready

(* The queue never goes back: no checkpoint before the one shown, no item  *)
(* taken away, no readiness withdrawn, by events in any order, a rebuild,  *)
(* or the two together.                                                    *)
NeverBackwards ==
  [][/\ active'.checkpoint >= active.checkpoint
     /\ \A t \in Projected(active) :
          /\ t \in Projected(active')
          /\ \A i \in Items : /\ active.rows[t][i].ready => active'.rows[t][i].ready
                             /\ active'.rows[t][i].done >= active.rows[t][i].done]_queueVars

(* Consumption comes to a stop only behind a manual readiness, which has   *)
(* no event, or behind a creation that was given up; until then some       *)
(* waiting event can be settled, whichever order they came in.  An event   *)
(* is given up only for the creation of a ticket that has already moved    *)
(* on, never because it came before the events of other tickets or beside  *)
(* another transaction (processIncremental, lifecycleCheckpoint).          *)
Waiting == Announced \ (completed \cup parked)
CanSettle(n) == \E c \in n .. Len(log) : Verdict(n, active, c) # "retry"
Overtaken(n) ==
  log[n].kind = "Created" /\ Cardinality(Facts(log[n].ticket, Len(log))) > 1
StopsOnlyBehindSilence ==
  /\ \A n \in parked : Overtaken(n)
  /\ Waiting # {} =>
       \/ \E n \in Waiting : CanSettle(n)
       \/ /\ active.checkpoint < Len(log)
          /\ LET next == active.checkpoint + 1
             IN log[next].kind = "Ready" \/ next \in parked

(* The pages read to the end are together one generation, whatever was     *)
(* activated in between.                                                   *)
PagesAreOneGeneration ==
  reader.ended =>
    /\ DOMAIN reader.rows = (DOMAIN reader.whole) \X Items
    /\ \A k \in DOMAIN reader.rows : reader.rows[k] = reader.whole[k[1]][k[2]]
=============================================================================
