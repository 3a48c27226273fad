--------------------------- MODULE KitchenProofs ---------------------------
(***************************************************************************)
(* Proofs about the kitchen: first KitchenWork, for any items, cooks,      *)
(* sessions and bounds, and that it keeps the history it promises; then    *)
(* KitchenQueue, for any tickets, workers, rebuilds and bounds, which      *)
(* reads such a history.                                                   *)
(***************************************************************************)
EXTENDS KitchenWork, KitchenQueue, FiniteSetTheorems, TLAPS

(***************************************************************************)
(* KitchenWork                                                             *)
(***************************************************************************)

(* A request being served is about a command and a key.                    *)
Requesting ==
  \A s \in Sessions : Serving(s) => sessions[s].key \in Keys /\ sessions[s].command \in Commands
Recorded ==
  \A n \in DOMAIN ledger : ledger[n].key # NoKey => ledger[n].command \in Commands

(* Before the ticket exists nothing has been asked of it.                  *)
Fresh == [status |-> "Queued", cook |-> NoCook, done |-> 0, version |-> 1, ready |-> FALSE]
Untouched ==
  ~Created => /\ \A i \in Items : items[i] = Fresh
              /\ \A s \in Sessions : ~Serving(s)

(* Claim, quantity and readiness of a work item agree with its status.     *)
SoundItem(w, required) ==
  /\ w.ready => w.status = "Completed"
  /\ w.status = "Queued" => w.done = 0
  /\ w.status = "InProgress" => w.done < required
  /\ w.status = "Completed" => w.done = required
SoundItems == \A i \in Items : SoundItem(items[i], Required[i])

(* The fence of a key and the lock of the ticket have one holder.          *)
Holds(s) == sessions[s].phase \in {"fenced", "loaded"}
OneFence ==
  \A s, o \in Sessions : Holds(s) /\ Holds(o) /\ sessions[s].key = sessions[o].key => s = o
OneLock ==
  \A s, o \in Sessions : sessions[s].phase = "loaded" /\ sessions[o].phase = "loaded" => s = o

(* What a holder looked up under the fence and read under the lock stays   *)
(* true until it commits.                                                  *)
FencedIsNew == \A s \in Sessions : Holds(s) => Stored(sessions[s].key) = {}
LoadedIsCurrent ==
  \A s \in Sessions : sessions[s].phase = "loaded" =>
    LET command == sessions[s].command
    IN /\ sessions[s].seen = [ticketVersion |-> ticketVersion, item |-> items[command.item],
                              othersReady |-> \A i \in Items \ {command.item} : items[i].ready]
       /\ SameVersions(command)
       /\ Admissible(command)
       /\ sessions[s].automatic => Finishes(command)

(* KitchenOrderReady is recorded when and only when every item is ready.   *)
AllReady == \A i \in Items : items[i].ready
ReadyIsAnnounced == (\E n \in DOMAIN ledger : ledger[n].orderReady) <=> AllReady
AnnouncedOnce ==
  \A m, n \in DOMAIN ledger : ledger[m].orderReady /\ ledger[n].orderReady => m = n

TicketCounts == ticketVersion = Len(ledger)

IInv ==
  /\ TypeOK
  /\ Requesting
  /\ Recorded
  /\ Untouched
  /\ SoundItems
  /\ OneFence
  /\ OneLock
  /\ FencedIsNew
  /\ LoadedIsCurrent
  /\ KeyTakesEffectOnce
  /\ ReadyIsAnnounced
  /\ AnnouncedOnce
  /\ TicketCounts

-----------------------------------------------------------------------------
(* Sequences: what appending one element changes.                          *)

LEMMA Appending ==
  ASSUME NEW S, NEW seq \in Seq(S), NEW e \in S
  PROVE  /\ Append(seq, e) \in Seq(S)
         /\ Len(Append(seq, e)) = Len(seq) + 1
         /\ DOMAIN Append(seq, e) = DOMAIN seq \cup {Len(seq) + 1}
         /\ Len(seq) + 1 \notin DOMAIN seq
         /\ \A n \in DOMAIN seq : Append(seq, e)[n] = seq[n]
         /\ Append(seq, e)[Len(seq) + 1] = e
PROOF OBVIOUS

(* A nonempty set of positions has a last one: otherwise adding one would  *)
(* be an injection of the positions up to its elements into themselves     *)
(* that misses the first.                                                  *)
LEMMA LastExists ==
  ASSUME NEW c \in Nat, NEW S \in SUBSET (1 .. c), S # {}
  PROVE  \E n \in S : \A m \in S : m <= n
<1> DEFINE D == {x \in 1 .. c : \E n \in S : x <= n}
           after == [x \in D |-> x + 1]
<1>1. IsFiniteSet(D)
  BY FS_Interval, FS_Subset, 1 \in Int, c \in Int
<1>2. SUFFICES ASSUME \A n \in S : \E m \in S : ~(m <= n)
               PROVE  FALSE
  OBVIOUS
<1>3. \A x \in D : x + 1 \in D
  BY <1>2
<1>4. after \in Injection(D, D)
  BY <1>3 DEF Injection, IsInjective
<1>5. after \in Surjection(D, D)
  BY <1>1, <1>4, FS_Injection
<1>6. 1 \in D
  <2>1. PICK n \in S : TRUE
    OBVIOUS
  <2>2. n \in 1 .. c
    BY <2>1
  <2> QED BY <2>2
<1>7. PICK x \in D : after[x] = 1
  BY <1>5, <1>6 DEF Surjection
<1> QED BY <1>7

(* A request in the type, taken apart.                                     *)
LEMMA IdleRequest == Idle \in Requests /\ \A a \in Answerings : [Idle EXCEPT !.answer = a] \in Requests
PROOF BY DEF Idle, Requests, Answerings

(* No command is the absent one, so no key is the absent key.              *)
LEMMA NoKeyIsNoKey == NoKey \notin Keys /\ NoCommand \notin Commands
<1>1. \A c \in Commands : c.action \in Actions
  BY DEF Commands
<1>2. NoCommand.action \notin Actions
  BY DEF NoCommand, Actions
<1> QED BY <1>1, <1>2 DEF NoKey, Keys

-----------------------------------------------------------------------------
(* A step that changes one session and none of what is stored keeps the    *)
(* invariant if the session holds what its new phase says it holds.        *)
LEMMA SessionStep ==
  ASSUME IInv, NEW s \in Sessions, NEW r \in Requests,
         UNCHANGED <<ticketVersion, items, ledger>>,
         sessions' = [sessions EXCEPT ![s] = r],
         planning' \subseteq Deliveries,
         faults' \in 0 .. MaxFaults,
         r.phase # "idle" => r.key \in Keys /\ r.command \in Commands /\ Created,
         r.phase \in {"fenced", "loaded"} =>
           /\ Stored(r.key) = {}
           /\ \A o \in Sessions \ {s} : Holds(o) => sessions[o].key # r.key,
         r.phase = "loaded" =>
           /\ \A o \in Sessions \ {s} : sessions[o].phase # "loaded"
           /\ r.seen = [ticketVersion |-> ticketVersion, item |-> items[r.command.item],
                        othersReady |-> \A i \in Items \ {r.command.item} : items[i].ready]
           /\ SameVersions(r.command)
           /\ Admissible(r.command)
           /\ r.automatic => Finishes(r.command)
  PROVE  IInv'
<1>s. /\ sessions' \in [Sessions -> Requests]
      /\ sessions'[s] = r
      /\ \A o \in Sessions \ {s} : sessions'[o] = sessions[o]
  BY DEF IInv, TypeOK
<1>p. r.phase \in {"idle", "asked", "fenced", "loaded"}
  BY DEF Requests
<1>1. TypeOK'
  BY <1>s DEF IInv, TypeOK
<1>2. Requesting'
  BY <1>s DEF IInv, Requesting, Serving
<1>3. Recorded' /\ SoundItems' /\ KeyTakesEffectOnce' /\ ReadyIsAnnounced' /\ AnnouncedOnce'
  BY DEF IInv, Recorded, SoundItems, KeyTakesEffectOnce, ReadyIsAnnounced, AnnouncedOnce, AllReady
<1>4. Untouched'
  BY <1>s, <1>p DEF IInv, Untouched, Serving, Created
<1>5. OneFence'
  BY <1>s DEF IInv, OneFence, Holds
<1>6. OneLock'
  BY <1>s DEF IInv, OneLock
<1>7. FencedIsNew'
  BY <1>s DEF IInv, FencedIsNew, Holds, Stored
<1>a. \A command : /\ SameVersions(command)' = SameVersions(command)
                    /\ Admissible(command)' = Admissible(command)
                    /\ Finishes(command)' = Finishes(command)
  BY DEF SameVersions, Admissible, Finishes
<1>8. LoadedIsCurrent'
  <2>1. ASSUME NEW o \in Sessions, sessions'[o].phase = "loaded"
        PROVE  /\ sessions'[o].seen =
                    [ticketVersion |-> ticketVersion, item |-> items[sessions'[o].command.item],
                     othersReady |-> \A i \in Items \ {sessions'[o].command.item} : items[i].ready]
               /\ SameVersions(sessions'[o].command)
               /\ Admissible(sessions'[o].command)
               /\ sessions'[o].automatic => Finishes(sessions'[o].command)
    <3>1. CASE o = s
      BY <1>s, <2>1, <3>1
    <3>2. CASE o # s
      BY <1>s, <2>1, <3>2 DEF IInv, LoadedIsCurrent
    <3> QED BY <3>1, <3>2
  <2> HIDE DEF IInv
  <2> QED BY <1>a, <2>1 DEF LoadedIsCurrent
<1>9. TicketCounts'
  BY DEF IInv, TicketCounts
<1> QED BY <1>1, <1>2, <1>3, <1>4, <1>5, <1>6, <1>7, <1>8, <1>9 DEF IInv

-----------------------------------------------------------------------------
(* A command the ticket admits leaves a sound work item, ready only if it  *)
(* was not ready before.                                                   *)
LEMMA WorkAfterIsSound ==
  ASSUME NEW command \in Commands, NEW w \in WorkItems, w = items[command.item],
         SoundItem(w, Required[command.item]), Admissible(command),
         NEW automatic \in BOOLEAN, automatic = TRUE => Finishes(command)
  PROVE  LET after == WorkAfter(w, command, automatic)
         IN /\ after \in WorkItems
            /\ SoundItem(after, Required[command.item])
            /\ ~w.ready
            /\ after.version = w.version + (IF command.action = "MarkReady" THEN 0 ELSE 1)
            /\ KindOf(command, after) \in FactKinds
            /\ KindOf(command, after) = "Ready" <=> command.action = "MarkReady"
<1>0. /\ command.action \in Actions /\ command.item \in Items /\ command.quantity \in Nat
      /\ command.cook \in Cooks \cup {NoCook}
      /\ Required[command.item] \in Nat \ {0}
      /\ command.quantity = 0 <=> command.action # "Complete"
  BY RequiredAssumption DEF Commands
<1>w. /\ w.status \in {"Queued", "InProgress", "Completed"} /\ w.cook \in Cooks \cup {NoCook}
      /\ w.done \in Nat /\ w.version \in Nat
  BY DEF WorkItems
<1>v. w.version + 1 \in Nat /\ w.done + command.quantity \in Nat
  BY <1>0, <1>w
<1> DEFINE after == WorkAfter(w, command, automatic)
<1>1. CASE command.action = "Accept"
  <2>1. after = [w EXCEPT !.cook = command.cook, !.version = @ + 1]
    BY <1>1 DEF WorkAfter
  <2>a. \A v \in Nat : [w EXCEPT !.cook = command.cook, !.version = v] \in WorkItems
    BY <1>0 DEF WorkItems
  <2>b. after \in WorkItems
    BY <1>v, <2>1, <2>a
  <2>c. after.status = w.status /\ after.done = w.done
        /\ after.ready = w.ready /\ after.version = w.version + 1
    BY <2>1 DEF WorkItems
  <2>2. after \in WorkItems /\ after.status = w.status /\ after.done = w.done
        /\ after.ready = w.ready /\ after.version = w.version + 1
    <3> HIDE DEF after
    <3> QED BY <2>b, <2>c
  <2>3. w.status = "Queued" /\ ~w.ready
    BY <1>1 DEF Admissible, SoundItem
  <2>4. KindOf(command, after) = "Accepted"
    BY <1>1 DEF KindOf
  <2> HIDE DEF after
  <2> QED BY <1>1, <2>2, <2>3, <2>4 DEF SoundItem, FactKinds, after
<1>2. CASE command.action = "Start"
  <2>1. after = [w EXCEPT !.status = "InProgress", !.version = @ + 1]
    BY <1>2 DEF WorkAfter
  <2>a. \A v \in Nat : [w EXCEPT !.status = "InProgress", !.version = v] \in WorkItems
    BY DEF WorkItems
  <2>b. after \in WorkItems
    BY <1>v, <2>1, <2>a
  <2>c. after.status = "InProgress" /\ after.done = w.done
        /\ after.ready = w.ready /\ after.version = w.version + 1
    BY <2>1 DEF WorkItems
  <2>2. after \in WorkItems /\ after.status = "InProgress" /\ after.done = w.done
        /\ after.ready = w.ready /\ after.version = w.version + 1
    <3> HIDE DEF after
    <3> QED BY <2>b, <2>c
  <2>3. w.status = "Queued" /\ ~w.ready
    BY <1>2 DEF Admissible, SoundItem
  <2>4. KindOf(command, after) = "Started"
    BY <1>2 DEF KindOf
  <2> HIDE DEF after
  <2> QED BY <1>0, <1>2, <2>2, <2>3, <2>4 DEF SoundItem, FactKinds, after
<1>3. CASE command.action = "Complete"
  <2>1. /\ w.status = "InProgress" /\ w.done + command.quantity <= Required[command.item]
        /\ command.quantity > 0 /\ ~w.ready
    BY <1>0, <1>w, <1>3 DEF Admissible, SoundItem
  <2>2. automatic = TRUE => w.done + command.quantity = Required[command.item]
    BY DEF Finishes
  <2> DEFINE st == IF w.done + command.quantity = Required[command.item]
                   THEN "Completed" ELSE "InProgress"
             d == w.done + command.quantity
             v == w.version + 1
  <2>3. after = [w EXCEPT !.status = st, !.done = d, !.version = v, !.ready = automatic]
    BY <1>3 DEF WorkAfter
  <2>a. st \in {"InProgress", "Completed"} /\ d \in Nat /\ v \in Nat
    BY <1>v
  <2>4. /\ after \in WorkItems
        /\ after.status = st
        /\ after.done = d
        /\ after.version = v
    <3> HIDE DEF st, d, v
    <3> QED BY <2>3, <2>a DEF WorkItems
  <2>5. after.ready = automatic
    BY <1>w, <2>3 DEF WorkItems
  <2>6. KindOf(command, after) \in {"Progress", "Completed", "CompletedReady"}
    BY <1>3 DEF KindOf
  <2> HIDE DEF after
  <2> QED BY <1>0, <1>w, <1>3, <2>1, <2>2, <2>4, <2>5, <2>6 DEF SoundItem, FactKinds, after
<1>4. CASE command.action = "MarkReady"
  <2>1. after = [w EXCEPT !.ready = TRUE]
    BY <1>4 DEF WorkAfter
  <2>2. after \in WorkItems /\ after.status = w.status /\ after.done = w.done
        /\ after.version = w.version
    BY <1>0, <1>w, <2>1 DEF WorkItems
  <2>3. w.status = "Completed" /\ ~w.ready
    BY <1>4 DEF Admissible
  <2>4. KindOf(command, after) = "Ready"
    BY <1>4 DEF KindOf
  <2> HIDE DEF after
  <2> QED BY <1>w, <1>4, <2>2, <2>3, <2>4 DEF SoundItem, FactKinds, after
<1> QED BY <1>0, <1>1, <1>2, <1>3, <1>4 DEF Actions

(* The operation a loaded session would commit, and the work item it       *)
(* leaves, in terms of what is stored now.                                 *)
Op(s) == LET command == sessions[s].command
             after == WorkAfter(items[command.item], command, sessions[s].automatic)
         IN [key |-> sessions[s].key, command |-> command,
             fact |-> Fact(command.item, KindOf(command, after), command.cook, after.done),
             orderReady |-> /\ after.ready
                            /\ \A i \in Items \ {command.item} : items[i].ready]

LEMMA CommitsOp ==
  ASSUME IInv, NEW s \in Sessions, sessions[s].phase = "loaded", CommitEffect(s)
  PROVE  LET command == sessions[s].command
             after == WorkAfter(items[command.item], command, sessions[s].automatic)
         IN /\ command \in Commands /\ sessions[s].key \in Keys /\ Created
            /\ items' = [items EXCEPT ![command.item] = after]
            /\ ticketVersion' = ticketVersion + 1
            /\ ledger' = Append(ledger, Op(s))
            /\ Op(s) \in Operations
            /\ after \in WorkItems
            /\ SoundItem(after, Required[command.item])
            /\ ~items[command.item].ready
            /\ SameVersions(command) /\ Admissible(command)
            /\ sessions[s].automatic \in BOOLEAN
            /\ after.version = items[command.item].version
                                 + (IF command.action = "MarkReady" THEN 0 ELSE 1)
            /\ Op(s).fact.kind = "Ready" <=> command.action = "MarkReady"
<1> DEFINE command == sessions[s].command
           w == items[command.item]
           automatic == sessions[s].automatic
           after == WorkAfter(w, command, automatic)
<1>1. command \in Commands /\ sessions[s].key \in Keys /\ Created
  BY DEF IInv, Requesting, Untouched, Serving
<1>2. command.item \in Items /\ w \in WorkItems /\ command.cook \in Cooks \cup {NoCook}
  BY <1>1 DEF Commands, IInv, TypeOK
<1>3. /\ sessions[s].seen = [ticketVersion |-> ticketVersion, item |-> w,
                             othersReady |-> \A i \in Items \ {command.item} : items[i].ready]
      /\ SameVersions(command) /\ Admissible(command) /\ (automatic = TRUE => Finishes(command))
  BY DEF IInv, LoadedIsCurrent
<1>4. automatic \in BOOLEAN
  BY DEF IInv, TypeOK, Requests
<1>5. SoundItem(w, Required[command.item])
  BY <1>2 DEF IInv, SoundItems
<1>6. /\ after \in WorkItems
      /\ SoundItem(after, Required[command.item])
      /\ ~w.ready
      /\ after.version = w.version + (IF command.action = "MarkReady" THEN 0 ELSE 1)
      /\ KindOf(command, after) \in FactKinds
      /\ KindOf(command, after) = "Ready" <=> command.action = "MarkReady"
  <2> HIDE DEF command, automatic, w
  <2> QED BY <1>1, <1>2, <1>3, <1>4, <1>5, WorkAfterIsSound DEF w
<1>7. after.done \in Nat /\ after.ready \in BOOLEAN
  BY <1>6 DEF WorkItems
<1>8. Op(s) \in Operations
  BY <1>1, <1>2, <1>6, <1>7 DEF Op, Operations, Fact
<1>9. ledger' = Append(ledger, Op(s)) /\ items' = [items EXCEPT ![command.item] = after]
      /\ ticketVersion' = ticketVersion + 1
  <2>1. /\ sessions[s].seen.item = w /\ sessions[s].seen.ticketVersion = ticketVersion
        /\ sessions[s].seen.othersReady = \A i \in Items \ {command.item} : items[i].ready
    BY <1>3
  <2> QED BY <2>1, Zenon DEF CommitEffect, Op
<1> QED BY <1>1, <1>3, <1>4, <1>6, <1>8, <1>9 DEF Op, Fact

(* A commit keeps the invariant, whether its session has its answer or     *)
(* will look the key up again.                                             *)
LEMMA CommitStep ==
  ASSUME IInv, NEW s \in Sessions, sessions[s].phase = "loaded", CommitEffect(s),
         NEW r \in Requests, sessions' = [sessions EXCEPT ![s] = r],
         r.phase \in {"idle", "asked"},
         r.phase = "asked" => r.key = sessions[s].key /\ r.command = sessions[s].command,
         planning' = planning, faults' \in 0 .. MaxFaults
  PROVE  IInv'
<1> DEFINE command == sessions[s].command
           i == command.item
           after == WorkAfter(items[i], command, sessions[s].automatic)
           op == Op(s)
           last == Len(ledger) + 1
<1>c. /\ command \in Commands /\ sessions[s].key \in Keys /\ Created
      /\ items' = [items EXCEPT ![i] = after]
      /\ ticketVersion' = ticketVersion + 1
      /\ ledger' = Append(ledger, op)
      /\ op \in Operations
      /\ after \in WorkItems
      /\ SoundItem(after, Required[i])
      /\ ~items[i].ready
      /\ after.version = items[i].version + (IF command.action = "MarkReady" THEN 0 ELSE 1)
      /\ op.fact.kind = "Ready" <=> command.action = "MarkReady"
  BY CommitsOp
<1>o. /\ op.key = sessions[s].key /\ op.command = command /\ op.fact.item = i
      /\ op.orderReady <=> (after.ready /\ \A j \in Items \ {i} : items[j].ready)
  BY DEF Op, Fact
<1>i. i \in Items
  BY <1>c DEF Commands
<1>l. /\ ledger \in Seq(Operations) /\ ledger' \in Seq(Operations)
      /\ Len(ledger') = last /\ last \notin DOMAIN ledger
      /\ DOMAIN ledger' = DOMAIN ledger \cup {last}
      /\ \A n \in DOMAIN ledger : ledger'[n] = ledger[n]
      /\ ledger'[last] = op
  <2>1. ledger \in Seq(Operations) /\ op \in Operations /\ ledger' = Append(ledger, op)
    BY <1>c DEF IInv, TypeOK
  <2> HIDE DEF op, command, i, after
  <2> QED BY <2>1, Appending
<1>s. /\ sessions' \in [Sessions -> Requests]
      /\ sessions'[s] = r
      /\ \A o \in Sessions \ {s} : sessions'[o] = sessions[o] /\ sessions[o].phase # "loaded"
  BY DEF IInv, TypeOK, OneLock
<1>j. /\ items' \in [Items -> WorkItems]
      /\ items'[i] = after
      /\ \A j \in Items \ {i} : items'[j] = items[j]
  <2> HIDE DEF after
  <2> QED BY <1>c, <1>i DEF IInv, TypeOK
<1> HIDE DEF command, i, after, op, last
<1>1. TypeOK'
  BY <1>c, <1>l, <1>s, <1>j DEF IInv, TypeOK
<1>2. Requesting'
  BY <1>c, <1>s DEF IInv, Requesting, Serving, command
<1>3. Recorded'
  BY <1>c, <1>l, <1>o DEF IInv, Recorded
<1>4. Untouched'
  BY <1>c DEF IInv, TypeOK, Untouched, Created
<1>5. SoundItems'
  BY <1>c, <1>j, <1>i DEF IInv, SoundItems
<1>6. OneFence' /\ OneLock'
  BY <1>s DEF IInv, OneFence, OneLock, Holds
<1>7. FencedIsNew'
  <2> SUFFICES ASSUME NEW o \in Sessions, Holds(o)', NEW n \in DOMAIN ledger',
                      ledger'[n].key = sessions'[o].key
               PROVE  FALSE
    BY DEF FencedIsNew, Stored
  <2>1. o # s /\ Holds(o) /\ sessions'[o] = sessions[o]
    BY <1>s DEF Holds
  <2>2. sessions[o].key # sessions[s].key
    BY <2>1 DEF IInv, OneFence, Holds
  <2>3. \A m \in DOMAIN ledger : ledger[m].key # sessions[o].key
    BY <2>1 DEF IInv, FencedIsNew, Stored
  <2> QED BY <2>1, <2>2, <2>3, <1>l, <1>o
<1>8. LoadedIsCurrent'
  BY <1>s DEF LoadedIsCurrent
<1>9. KeyTakesEffectOnce'
  <2>1. \A n \in DOMAIN ledger : ledger[n].key # op.key
    BY <1>o DEF IInv, FencedIsNew, Holds, Stored
  <2> QED BY <2>1, <1>l DEF IInv, KeyTakesEffectOnce
<1>10. ReadyIsAnnounced' /\ AnnouncedOnce'
  <2>1. \A n \in DOMAIN ledger : ~ledger[n].orderReady
    BY <1>c, <1>i DEF IInv, ReadyIsAnnounced, AllReady
  <2>2. AllReady' <=> op.orderReady
    BY <1>j, <1>i, <1>o DEF AllReady
  <2> QED BY <2>1, <2>2, <1>l DEF ReadyIsAnnounced, AnnouncedOnce
<1>11. TicketCounts'
  BY <1>c, <1>l DEF IInv, TicketCounts, last
<1> QED BY <1>1, <1>2, <1>3, <1>4, <1>5, <1>6, <1>7, <1>8, <1>9, <1>10, <1>11 DEF IInv

(* A step of the planning of the ticket that stores nothing else keeps the *)
(* invariant, and so does a step that changes nothing.                     *)
LEMMA NothingElse ==
  ASSUME IInv, planning' \subseteq Deliveries,
         UNCHANGED <<ticketVersion, ledger, items, sessions, faults>>
  PROVE  IInv'
<1>1. TypeOK'
  BY DEF IInv, TypeOK
<1>2. Requesting'
  BY DEF IInv, Requesting, Serving
<1>3. Recorded' /\ SoundItems' /\ TicketCounts'
  BY DEF IInv, Recorded, SoundItems, TicketCounts
<1>4. Untouched'
  BY DEF IInv, Untouched, Serving, Created
<1>5. OneFence' /\ OneLock'
  BY DEF IInv, OneFence, OneLock, Holds
<1>6. FencedIsNew'
  BY DEF IInv, FencedIsNew, Holds, Stored
<1>7. LoadedIsCurrent'
  <2>1. \A command : /\ SameVersions(command)' = SameVersions(command)
                     /\ Admissible(command)' = Admissible(command)
                     /\ Finishes(command)' = Finishes(command)
    BY DEF SameVersions, Admissible, Finishes
  <2>2. LoadedIsCurrent
    BY DEF IInv
  <2> QED BY <2>1, <2>2 DEF LoadedIsCurrent
<1>8. KeyTakesEffectOnce' /\ AnnouncedOnce'
  BY DEF IInv, KeyTakesEffectOnce, AnnouncedOnce
<1>9. ReadyIsAnnounced'
  BY DEF IInv, ReadyIsAnnounced, AllReady
<1> QED BY <1>1, <1>2, <1>3, <1>4, <1>5, <1>6, <1>7, <1>8, <1>9 DEF IInv

(* The creation of the ticket keeps the invariant: it is the first         *)
(* operation, and nothing has been asked.                                  *)
LEMMA CreationStep ==
  ASSUME IInv, NEW d \in Deliveries, CommitTicket(d)
  PROVE  IInv'
<1>0. CASE Adopts
  <2>1. planning' \subseteq Deliveries /\ UNCHANGED <<ticketVersion, ledger, items, sessions, faults>>
    BY <1>0 DEF CommitTicket, IInv, TypeOK
  <2> QED BY <2>1, NothingElse
<1>1. CASE ~Adopts
  <2> DEFINE op == [key |-> NoKey, command |-> NoCommand, orderReady |-> FALSE,
                    fact |-> Fact(NoItem, "Created", NoCook, 0)]
  <2>1. /\ ticketVersion' = 1 /\ ledger' = Append(ledger, op)
        /\ planning' \subseteq Deliveries
        /\ UNCHANGED <<items, sessions, faults>>
    BY <1>1 DEF CommitTicket, IInv, TypeOK
  <2>2. op \in Operations
    BY DEF Operations, Fact, FactKinds
  <2>3. ledger = <<>>
    BY <1>1 DEF IInv, TypeOK, TicketCounts, Adopts, Created
  <2>4. /\ ledger' = <<op>> /\ DOMAIN ledger' = {1} /\ ledger'[1] = op
        /\ ledger' \in Seq(Operations) /\ Len(ledger') = 1
    <3> HIDE DEF op
    <3> QED BY <2>1, <2>2, <2>3
  <2>5. op.key = NoKey /\ ~op.orderReady /\ op.fact.item = NoItem
    BY DEF Fact
  <2>6. /\ \A i \in Items : items[i] = Fresh /\ ~items[i].ready /\ items[i].version = 1
        /\ \A s \in Sessions : sessions[s].phase = "idle"
    BY <1>1 DEF IInv, TypeOK, Requests, Untouched, Fresh, Serving, Adopts, Created
  <2> HIDE DEF op
  <2>7. TypeOK'
    BY <2>1, <2>4 DEF IInv, TypeOK
  <2>8. Requesting' /\ Recorded' /\ Untouched' /\ SoundItems' /\ KeyTakesEffectOnce'
    BY <2>1, <2>4, <2>5, <2>6 DEF IInv, Requesting, Recorded, Untouched, Created, SoundItems,
       KeyTakesEffectOnce, Serving
  <2>9. OneFence' /\ OneLock' /\ FencedIsNew' /\ LoadedIsCurrent'
    BY <2>1, <2>6 DEF OneFence, OneLock, FencedIsNew, LoadedIsCurrent, Holds
  <2>10. ReadyIsAnnounced' /\ AnnouncedOnce'
    BY <2>1, <2>4, <2>5, <2>6, ItemsAssumption DEF ReadyIsAnnounced, AnnouncedOnce, AllReady
  <2>11. TicketCounts'
    BY <2>1, <2>4 DEF TicketCounts
  <2> QED BY <2>7, <2>8, <2>9, <2>10, <2>11 DEF IInv
<1> QED BY <1>0, <1>1

LEMMA InitInv == Init => IInv
<1> SUFFICES ASSUME Init PROVE IInv
  OBVIOUS
<1>0. /\ ledger = <<>> /\ DOMAIN ledger = {} /\ Len(ledger) = 0 /\ ~Created
      /\ \A i \in Items : items[i] = Fresh /\ ~items[i].ready /\ items[i].version = 1
      /\ \A i \in Items : items[i].status = "Queued" /\ items[i].done = 0
      /\ \A s \in Sessions : sessions[s].phase = "idle"
  BY DEF Init, Fresh, Idle, Created
<1>1. TypeOK
  <2>1. Fresh \in WorkItems
    BY DEF Fresh, WorkItems
  <2>2. items \in [Items -> WorkItems]
    BY <2>1 DEF Init, Fresh
  <2>3. faults \in 0 .. MaxFaults
    BY BoundAssumption DEF Init
  <2>4. sessions \in [Sessions -> Requests]
    BY IdleRequest DEF Init
  <2>5. ledger \in Seq(Operations) /\ ticketVersion \in Nat /\ planning \subseteq Deliveries
    BY DEF Init
  <2> QED BY <2>2, <2>3, <2>4, <2>5 DEF TypeOK
<1>2. Requesting /\ Recorded /\ Untouched /\ SoundItems /\ KeyTakesEffectOnce
  <2>1. SoundItems
    BY <1>0 DEF SoundItems, SoundItem
  <2> QED BY <1>0, <2>1 DEF Requesting, Recorded, Untouched, KeyTakesEffectOnce, Serving
<1>3. OneFence /\ OneLock /\ FencedIsNew /\ LoadedIsCurrent
  BY <1>0 DEF OneFence, OneLock, FencedIsNew, LoadedIsCurrent, Holds
<1>4. ReadyIsAnnounced /\ AnnouncedOnce
  BY <1>0, ItemsAssumption DEF ReadyIsAnnounced, AnnouncedOnce, AllReady
<1>5. TicketCounts
  BY <1>0 DEF TicketCounts, Init
<1> QED BY <1>1, <1>2, <1>3, <1>4, <1>5 DEF IInv

(* A request that is taken carries the command and the key it is given.    *)
LEMMA TakesStep ==
  ASSUME IInv, NEW s \in Sessions, NEW k \in Keys, NEW command \in Commands, Takes(s, k, command),
         Created, faults' \in 0 .. MaxFaults
  PROVE  IInv'
<1> DEFINE r == [Idle EXCEPT !.phase = "asked", !.key = k, !.command = command,
                             !.known = Stored(k) # {}]
<1>1. r \in Requests /\ r.phase = "asked" /\ r.key = k /\ r.command = command
  BY DEF Idle, Requests, Answerings
<1>2. sessions' = [sessions EXCEPT ![s] = r] /\ UNCHANGED <<ticketVersion, items, ledger, planning>>
  BY DEF Takes
<1> HIDE DEF r
<1> QED BY <1>1, <1>2, SessionStep DEF IInv, TypeOK

(* A request that ends leaves nothing behind.                              *)
LEMMA AnswerStep ==
  ASSUME IInv, NEW s \in Sessions, NEW a \in Answerings, Answers(s, a),
         UNCHANGED <<ticketVersion, items, ledger, planning>>, faults' \in 0 .. MaxFaults
  PROVE  IInv'
<1> DEFINE r == [Idle EXCEPT !.answer = a]
<1>1. r \in Requests /\ r.phase = "idle"
  BY IdleRequest DEF Idle
<1>2. sessions' = [sessions EXCEPT ![s] = r]
  BY DEF Answers
<1> HIDE DEF r
<1> QED BY <1>1, <1>2, SessionStep DEF IInv, TypeOK

-----------------------------------------------------------------------------
(* Every action keeps the invariant.                                       *)
LEMMA NextInv == IInv /\ [Next]_vars => IInv'
<1> SUFFICES ASSUME IInv, [Next]_vars PROVE IInv'
  OBVIOUS
<1>f. faults \in Nat /\ (faults < MaxFaults => faults + 1 \in 0 .. MaxFaults)
  BY BoundAssumption DEF IInv, TypeOK
<1>1. CASE UNCHANGED vars
  <2>1. planning' \subseteq Deliveries /\ UNCHANGED <<ticketVersion, ledger, items, sessions, faults>>
    BY <1>1 DEF vars, IInv, TypeOK
  <2> QED BY <2>1, NothingElse
<1>2. ASSUME NEW d \in Deliveries, ResolveTicket(d) \/ IntakeFails(d) PROVE IInv'
  <2>1. planning' \subseteq Deliveries /\ UNCHANGED <<ticketVersion, ledger, items, sessions, faults>>
    BY <1>2 DEF ResolveTicket, IntakeFails, IInv, TypeOK
  <2> QED BY <2>1, NothingElse
<1>3. ASSUME NEW d \in Deliveries, CommitTicket(d) PROVE IInv'
  BY <1>3, CreationStep
<1>4. ASSUME NEW s \in Sessions, Ask(s) PROVE IInv'
  <2>1. PICK i \in Items : \E command \in Offered(i), n \in Copies : Takes(s, <<command, n>>, command)
    <3>1. PICK i \in Items : \E command \in Offered(i) :
            LET free == {n \in Copies : ~InUse(<<command, n>>)}
            IN free # {} /\ Takes(s, <<command, CHOOSE n \in free : TRUE>>, command)
      BY <1>4 DEF Ask
    <3>2. PICK command \in Offered(i) :
            LET free == {n \in Copies : ~InUse(<<command, n>>)}
            IN free # {} /\ Takes(s, <<command, CHOOSE n \in free : TRUE>>, command)
      BY <3>1
    <3> DEFINE free == {n \in Copies : ~InUse(<<command, n>>)}
               n == CHOOSE m \in free : TRUE
    <3>3. n \in Copies /\ Takes(s, <<command, n>>, command)
      BY <3>2
    <3> QED BY <3>3
  <2>a. PICK command \in Offered(i), n \in Copies : Takes(s, <<command, n>>, command)
    BY <2>1
  <2>2. command \in Commands
    <3>1. items[i] \in WorkItems /\ ticketVersion \in Nat /\ items[i].version \in Nat
      BY DEF IInv, TypeOK, WorkItems
    <3> QED BY <2>a, <3>1, RequiredAssumption, CooksAssumption DEF Offered, Commands, Actions
  <2>3. Created /\ faults' = faults
    BY <1>4 DEF Ask
  <2> QED BY <2>a, <2>2, <2>3, <1>f, TakesStep DEF Keys, IInv, TypeOK
<1>5. ASSUME NEW s \in Sessions, AskAgain(s) PROVE IInv'
  <2>0. faults' \in 0 .. MaxFaults
    BY <1>5, <1>f DEF AskAgain
  <2>1. CASE \E n \in DOMAIN ledger : ledger[n].key # NoKey /\ Takes(s, ledger[n].key, ledger[n].command)
    <3>1. PICK n \in DOMAIN ledger : ledger[n].key # NoKey /\ Takes(s, ledger[n].key, ledger[n].command)
      BY <2>1
    <3>2. ledger[n].key \in Keys /\ ledger[n].command \in Commands
      <4>1. ledger[n] \in Operations
        BY DEF IInv, TypeOK
      <4> QED BY <3>1, <4>1 DEF IInv, Operations, Recorded
    <3>3. Created
      BY <3>1 DEF IInv, TypeOK, TicketCounts, Created
    <3> QED BY <2>0, <3>1, <3>2, <3>3, TakesStep
  <2>2. CASE \E o \in Sessions : Serving(o) /\ Takes(s, sessions[o].key, sessions[o].command)
    <3>1. PICK o \in Sessions : Serving(o) /\ Takes(s, sessions[o].key, sessions[o].command)
      BY <2>2
    <3>2. sessions[o].key \in Keys /\ sessions[o].command \in Commands /\ Created
      BY <3>1 DEF IInv, Requesting, Untouched
    <3> QED BY <2>0, <3>1, <3>2, TakesStep
  <2> QED BY <1>5, <2>1, <2>2 DEF AskAgain
<1>6. ASSUME NEW s \in Sessions, AskOther(s) PROVE IInv'
  <2>0. faults' \in 0 .. MaxFaults
    BY <1>6, <1>f DEF AskOther
  <2>1. PICK n \in DOMAIN ledger, i \in Items : 
          ledger[n].key # NoKey /\ \E command \in Offered(i) : Takes(s, ledger[n].key, command)
    BY <1>6 DEF AskOther
  <2>2. PICK command \in Offered(i) : Takes(s, ledger[n].key, command)
    BY <2>1
  <2>3. command \in Commands
    <3>1. items[i] \in WorkItems /\ ticketVersion \in Nat /\ items[i].version \in Nat
      BY DEF IInv, TypeOK, WorkItems
    <3> QED BY <2>2, <3>1, RequiredAssumption, CooksAssumption DEF Offered, Commands, Actions
  <2>4. ledger[n].key \in Keys /\ Created
    <3>1. ledger[n] \in Operations /\ Len(ledger) # 0
      BY DEF IInv, TypeOK
    <3> QED BY <2>1, <3>1 DEF IInv, Operations, TicketCounts, Created
  <2> QED BY <2>0, <2>2, <2>3, <2>4, TakesStep
<1>7. ASSUME NEW s \in Sessions, Fence(s) PROVE IInv'
  <2>0. faults' \in 0 .. MaxFaults /\ UNCHANGED <<ticketVersion, items, ledger, planning, faults>>
    BY <1>7 DEF Fence, IInv, TypeOK
  <2>1. CASE Stored(sessions[s].key) # {}
    <3>1. \E a \in Answerings : Answers(s, a)
      BY <1>7, <2>1 DEF Fence, Replays, Answerings
    <3> QED BY <2>0, <3>1, AnswerStep
  <2>2. CASE Stored(sessions[s].key) = {}
    <3> DEFINE r == [sessions[s] EXCEPT !.phase = "fenced"]
    <3>1. sessions' = [sessions EXCEPT ![s] = r]
      BY <1>7, <2>2 DEF Fence
    <3>2. r \in Requests /\ r.phase = "fenced" /\ r.key = sessions[s].key
          /\ r.command = sessions[s].command
      BY DEF IInv, TypeOK, Requests
    <3>3. r.key \in Keys /\ r.command \in Commands /\ Created
      BY <1>7, <3>2 DEF Fence, IInv, Requesting, Untouched, Serving
    <3>4. \A o \in Sessions \ {s} : Holds(o) => sessions[o].key # r.key
      BY <1>7, <3>2 DEF Fence, FenceFree, Holds
    <3> HIDE DEF r
    <3> QED BY <2>0, <2>2, <3>1, <3>2, <3>3, <3>4, SessionStep DEF IInv, TypeOK
  <2> QED BY <2>1, <2>2
<1>8. ASSUME NEW s \in Sessions, Load(s) PROVE IInv'
  <2> DEFINE command == sessions[s].command
             seen == [ticketVersion |-> ticketVersion, item |-> items[command.item],
                      othersReady |-> \A i \in Items \ {command.item} : items[i].ready]
  <2>0. faults' \in 0 .. MaxFaults /\ UNCHANGED <<ticketVersion, items, ledger, planning, faults>>
    BY <1>8 DEF Load, IInv, TypeOK
  <2>1. CASE \E a \in Answerings : Answers(s, a)
    BY <2>0, <2>1, AnswerStep
  <2>2. CASE /\ SameVersions(command) /\ Admissible(command)
             /\ \E automatic \in (IF Finishes(command) THEN BOOLEAN ELSE {FALSE}) :
                  sessions' = [sessions EXCEPT ![s].phase = "loaded", ![s].seen = seen,
                                               ![s].automatic = automatic]
    <3>1. PICK automatic \in (IF Finishes(command) THEN BOOLEAN ELSE {FALSE}) :
                  sessions' = [sessions EXCEPT ![s].phase = "loaded", ![s].seen = seen,
                                               ![s].automatic = automatic]
      BY <2>2
    <3> DEFINE r == [sessions[s] EXCEPT !.phase = "loaded", !.seen = seen, !.automatic = automatic]
    <3>2. sessions' = [sessions EXCEPT ![s] = r]
      BY <3>1 DEF IInv, TypeOK
    <3>3. command \in Commands /\ sessions[s].key \in Keys /\ Created /\ Holds(s)
      BY <1>8 DEF Load, IInv, Requesting, Untouched, Serving, Holds
    <3>4. seen \in Snapshots
      BY <3>3 DEF Snapshots, IInv, TypeOK, Commands
    <3>5. automatic \in BOOLEAN /\ (automatic = TRUE => Finishes(command))
      BY <3>1
    <3>6. /\ r \in Requests /\ r.phase = "loaded" /\ r.key = sessions[s].key
          /\ r.command = command /\ r.seen = seen /\ r.automatic = automatic
      <4> HIDE DEF seen
      <4> QED BY <3>4, <3>5 DEF IInv, TypeOK, Requests
    <3>7. /\ Stored(r.key) = {}
          /\ \A o \in Sessions \ {s} : Holds(o) => sessions[o].key # r.key
      BY <3>3, <3>6 DEF IInv, FencedIsNew, OneFence
    <3>8. \A o \in Sessions \ {s} : sessions[o].phase # "loaded"
      BY <1>8 DEF Load, TicketFree
    <3> HIDE DEF r
    <3> QED BY <2>0, <2>2, <3>2, <3>3, <3>5, <3>6, <3>7, <3>8, SessionStep DEF IInv, TypeOK
  <2> QED BY <1>8, <2>1, <2>2 DEF Load, Answerings
<1>9. ASSUME NEW s \in Sessions, Commit(s) PROVE IInv'
  <2> DEFINE r == [Idle EXCEPT !.answer = "Done"]
  <2>1. r \in Requests /\ r.phase = "idle"
    BY IdleRequest DEF Idle, Answerings
  <2>2. /\ sessions[s].phase = "loaded" /\ CommitEffect(s)
        /\ sessions' = [sessions EXCEPT ![s] = r] /\ UNCHANGED <<planning, faults>>
    BY <1>9 DEF Commit, Answers
  <2> HIDE DEF r
  <2> QED BY <2>1, <2>2, CommitStep DEF IInv, TypeOK
<1>10. ASSUME NEW s \in Sessions, TransactionFails(s) PROVE IInv'
  <2>0. faults' \in 0 .. MaxFaults /\ planning' = planning
    BY <1>10, <1>f DEF TransactionFails
  <2>1. PICK r \in Requests : /\ sessions' = [sessions EXCEPT ![s] = r]
                              /\ r.phase \in {"idle", "asked"}
                              /\ r.phase = "asked" => /\ r.key = sessions[s].key
                                                      /\ r.command = sessions[s].command
    <3>1. CASE sessions[s].retried
      <4> DEFINE r == [Idle EXCEPT !.answer = "Refused"]
      <4>1. r \in Requests /\ r.phase = "idle"
        BY IdleRequest DEF Idle, Answerings
      <4>2. sessions' = [sessions EXCEPT ![s] = r]
        BY <1>10, <3>1 DEF TransactionFails, Answers
      <4> HIDE DEF r
      <4> QED BY <4>1, <4>2
    <3>2. CASE ~sessions[s].retried
      <4> DEFINE r == [sessions[s] EXCEPT !.phase = "asked", !.retried = TRUE,
                                          !.seen = <<>>, !.automatic = FALSE]
      <4>1. r \in Requests /\ r.phase = "asked" /\ r.key = sessions[s].key
            /\ r.command = sessions[s].command
        BY DEF IInv, TypeOK, Requests
      <4>2. sessions' = [sessions EXCEPT ![s] = r]
        BY <1>10, <3>2 DEF TransactionFails, IInv, TypeOK
      <4> HIDE DEF r
      <4> QED BY <4>1, <4>2
    <3> QED BY <3>1, <3>2
  <2>2. CASE UNCHANGED <<ticketVersion, items, ledger>>
    <3>1. r.phase # "idle" => r.key \in Keys /\ r.command \in Commands /\ Created
      BY <1>10, <2>1 DEF TransactionFails, IInv, Requesting, Untouched, Serving
    <3> QED BY <2>0, <2>1, <2>2, <3>1, SessionStep DEF IInv, TypeOK
  <2>3. CASE sessions[s].phase = "loaded" /\ CommitEffect(s)
    BY <2>0, <2>1, <2>3, CommitStep
  <2> QED BY <1>10, <2>2, <2>3 DEF TransactionFails
<1> QED BY <1>1, <1>2, <1>3, <1>4, <1>5, <1>6, <1>7, <1>8, <1>9, <1>10 DEF Next

THEOREM Invariance == Spec => []IInv
BY InitInv, NextInv, PTL DEF Spec

(* The state of a ticket, its ledger and its requests has its type.        *)
THEOREM TypeCorrect == Spec => []TypeOK
<1>1. IInv => TypeOK
  BY DEF IInv
<1> QED BY <1>1, Invariance, PTL

(* However a command is repeated and whatever acknowledgement is lost, its *)
(* key takes effect at most once.                                          *)
THEOREM KeysTakeEffectOnce == Spec => []KeyTakesEffectOnce
<1>1. IInv => KeyTakesEffectOnce
  BY DEF IInv
<1> QED BY <1>1, Invariance, PTL

(* KitchenOrderReady is recorded exactly once, by the operation that made  *)
(* the last item ready.                                                    *)
THEOREM OrderIsReadyOnce == Spec => []OrderReadyOnce
<1>1. IInv => OrderReadyOnce
  <2> SUFFICES ASSUME IInv PROVE OrderReadyOnce
    OBVIOUS
  <2> DEFINE R == {n \in DOMAIN ledger : ledger[n].orderReady}
  <2>1. CASE AllReady
    <3>1. PICK n \in DOMAIN ledger : ledger[n].orderReady
      BY <2>1 DEF IInv, ReadyIsAnnounced
    <3>2. R = {n}
      BY <3>1 DEF IInv, AnnouncedOnce
    <3>3. Cardinality(R) = 1
      BY <3>2, FS_Singleton
    <3> QED BY <2>1, <3>3 DEF OrderReadyOnce, AllReady
  <2>2. CASE ~AllReady
    <3>1. R = {}
      BY <2>2 DEF IInv, ReadyIsAnnounced
    <3>2. Cardinality(R) = 0
      BY <3>1, FS_EmptySet
    <3> QED BY <2>2, <3>2 DEF OrderReadyOnce, AllReady
  <2> QED BY <2>1, <2>2
<1> QED BY <1>1, Invariance, PTL

(* What a request is told is so, also after an attempt whose fate was      *)
(* unknown: Done has an effect under its key for its command, Conflict has *)
(* none.                                                                   *)
THEOREM AnswersHold == Spec => AnswersAreTrue
<1> DEFINE True(s) ==
      Ends(s) =>
        /\ sessions'[s].answer = "Done" =>
             \E n \in DOMAIN ledger' : /\ ledger'[n].key = sessions[s].key
                                      /\ ledger'[n].command = sessions[s].command
        /\ sessions'[s].answer = "Conflict" => Mine(s) = {} \/ sessions[s].known
<1>1. ASSUME IInv, [Next]_vars, NEW s \in Sessions, Ends(s) PROVE True(s)
  <2>0. sessions \in [Sessions -> Requests]
    BY <1>1 DEF IInv, TypeOK
  <2>1. PICK o \in Sessions : Fence(o) \/ Load(o) \/ Commit(o) \/ TransactionFails(o)
    <3>1. sessions' # sessions
      BY <1>1 DEF Ends, Serving
    <3>2. ASSUME NEW o \in Sessions, Ask(o) \/ AskAgain(o) \/ AskOther(o) PROVE FALSE
      <4>1. PICK k, c : Takes(o, k, c)
        BY <3>2 DEF Ask, AskAgain, AskOther
      <4>2. o # s /\ sessions'[s] = sessions[s]
        BY <1>1, <2>0, <4>1 DEF Takes, Ends, Idle
      <4> QED BY <1>1, <4>2 DEF Ends, Serving
    <3> QED BY <1>1, <3>1, <3>2 DEF Next, vars, ResolveTicket, CommitTicket, IntakeFails
  <2>2. o = s
    BY <1>1, <2>0, <2>1 DEF Fence, Replays, Load, Commit, TransactionFails, Answers, Ends, Serving
  <2>3. CASE Fence(s)
    <3>1. Stored(sessions[s].key) # {} /\ ledger' = ledger
      BY <1>1, <2>0, <2>3 DEF Fence, Ends, Requests
    <3>2. PICK n \in DOMAIN ledger : ledger[n].key = sessions[s].key
      BY <3>1 DEF Stored
    <3>3. CASE \E m \in Stored(sessions[s].key) : ledger[m].command # sessions[s].command
      <4>1. PICK m \in DOMAIN ledger : /\ ledger[m].key = sessions[s].key
                                       /\ ledger[m].command # sessions[s].command
        BY <3>3 DEF Stored
      <4>2. sessions[s].key # NoKey
        BY <1>1, NoKeyIsNoKey DEF Ends, IInv, Requesting
      <4>3. Mine(s) = {}
        BY <1>1, <4>1, <4>2 DEF Mine, IInv, KeyTakesEffectOnce
      <4>4. sessions'[s].answer = "Conflict"
        BY <2>0, <2>3, <3>1, <3>3 DEF Fence, Replays, Answers, Idle
      <4> QED BY <4>3, <4>4
    <3>4. CASE \A m \in Stored(sessions[s].key) : ledger[m].command = sessions[s].command
      <4>1. ledger[n].command = sessions[s].command
        BY <3>2, <3>4 DEF Stored
      <4>2. \/ sessions'[s].answer \in {"Done", "Refused"}
            \/ sessions[s].known /\ sessions'[s].answer = "Conflict"
        BY <2>0, <2>3, <3>1, <3>4 DEF Fence, Replays, Answers, Idle
      <4> QED BY <3>1, <3>2, <4>1, <4>2
    <3> QED BY <3>3, <3>4
  <2>4. CASE Load(s)
    <3>1. sessions'[s].answer \in {"Conflict", "Refused"}
      <4>1. CASE \E a \in {"Conflict", "Refused"} : Answers(s, a)
        BY <2>0, <4>1 DEF Answers, Idle
      <4>2. ASSUME NEW seen, NEW automatic,
                   sessions' = [sessions EXCEPT ![s].phase = "loaded", ![s].seen = seen,
                                                ![s].automatic = automatic]
            PROVE  FALSE
        <5> DEFINE r == [sessions[s] EXCEPT !.phase = "loaded", !.seen = seen, !.automatic = automatic]
        <5>1. sessions' = [sessions EXCEPT ![s] = r] /\ r.phase = "loaded"
          BY <2>0, <4>2 DEF Requests
        <5> HIDE DEF r
        <5> QED BY <1>1, <2>0, <5>1 DEF Ends
      <4> QED BY <2>4, <4>1, <4>2 DEF Load
    <3>2. Mine(s) = {}
      BY <1>1, <2>4 DEF Load, Mine, IInv, FencedIsNew, Holds, Stored
    <3> QED BY <3>1, <3>2
  <2>5. CASE Commit(s)
    <3>1. /\ ledger' = Append(ledger, Op(s)) /\ Op(s) \in Operations
      BY <1>1, <2>5, CommitsOp DEF Commit
    <3>2. Len(ledger) + 1 \in DOMAIN ledger' /\ ledger'[Len(ledger) + 1] = Op(s)
      BY <1>1, <3>1, Appending DEF IInv, TypeOK
    <3>3. Op(s).key = sessions[s].key /\ Op(s).command = sessions[s].command
      BY DEF Op
    <3>4. sessions'[s].answer = "Done"
      BY <2>0, <2>5 DEF Commit, Answers, Idle
    <3> QED BY <3>2, <3>3, <3>4
  <2>6. CASE TransactionFails(s)
    <3>1. sessions'[s].answer = "Refused"
      <4>1. CASE sessions[s].retried
        BY <2>0, <2>6, <4>1 DEF TransactionFails, Answers, Idle
      <4>2. CASE ~sessions[s].retried
        <5> DEFINE r == [sessions[s] EXCEPT !.phase = "asked", !.retried = TRUE,
                                            !.seen = <<>>, !.automatic = FALSE]
        <5>1. sessions' = [sessions EXCEPT ![s] = r] /\ r.phase = "asked"
          BY <2>0, <2>6, <4>2 DEF TransactionFails, Requests
        <5> HIDE DEF r
        <5> QED BY <1>1, <2>0, <5>1 DEF Ends
      <4> QED BY <4>1, <4>2
    <3> QED BY <3>1
  <2> QED BY <2>1, <2>2, <2>3, <2>4, <2>5, <2>6
<1>2. IInv /\ [Next]_vars => [\A s \in Sessions : True(s)]_vars
  BY <1>1
<1> QED BY <1>2, Invariance, PTL DEF Spec, AnswersAreTrue

-----------------------------------------------------------------------------
(***************************************************************************)
(* What the projector checks                                               *)
(***************************************************************************)

(* An item is claimed by the cook whose accept is on record.               *)
ClaimIsTold ==
  \A i \in Items : \A m \in Earlier(i, End, {"Accepted"}) : ledger[m].fact.cook = items[i].cook

(* One operation more changes nothing that was before it.                  *)
LEMMA EarlierGrows ==
  ASSUME ledger \in Seq(Operations), NEW op \in Operations, ledger' = Append(ledger, op),
         NEW i, NEW kinds
  PROVE  /\ \A n \in 1 .. End : Earlier(i, n, kinds)' = Earlier(i, n, kinds)
         /\ Earlier(i, End, kinds)' = Earlier(i, End, kinds) \cup
              (IF op.fact.item = i /\ op.fact.kind \in kinds THEN {End} ELSE {})
         /\ End' = End + 1
         /\ \A n \in 1 .. Len(ledger) : ledger'[n] = ledger[n]
         /\ ledger'[End] = op
         /\ Earlier(i, End, kinds) \in SUBSET (1 .. Len(ledger))
         /\ Len(ledger) \in Nat
<1>1. /\ Len(ledger') = Len(ledger) + 1 /\ ledger'[Len(ledger) + 1] = op
      /\ \A n \in DOMAIN ledger : ledger'[n] = ledger[n]
      /\ DOMAIN ledger = 1 .. Len(ledger) /\ Len(ledger) \in Nat
  BY Appending
<1>2. \A n \in 1 .. End : Earlier(i, n, kinds)' = Earlier(i, n, kinds)
  BY <1>1 DEF Earlier, End
<1>3. Earlier(i, End, kinds)' = Earlier(i, End, kinds) \cup
        (IF op.fact.item = i /\ op.fact.kind \in kinds THEN {End} ELSE {})
  BY <1>1 DEF Earlier, End
<1>4. Earlier(i, End, kinds) \in SUBSET (1 .. Len(ledger))
  BY <1>1 DEF Earlier, End
<1> QED BY <1>1, <1>2, <1>3, <1>4 DEF End

LEMMA EarlierStays ==
  ASSUME ledger \in Seq(Operations), NEW op \in Operations, ledger' = Append(ledger, op),
         NEW i, NEW kinds, NEW n \in 1 .. End
  PROVE  Earlier(i, n, kinds)' = Earlier(i, n, kinds)
<1>1. \A m \in 1 .. End : Earlier(i, m, kinds)' = Earlier(i, m, kinds)
  BY EarlierGrows
<1> QED BY <1>1

LEMMA ExpectationsStay ==
  ASSUME ledger \in Seq(Operations), NEW op \in Operations, ledger' = Append(ledger, op),
         NEW i, NEW n \in 1 .. End
  PROVE  /\ ExpectedStatus(i, n)' = ExpectedStatus(i, n)
         /\ ExpectedDone(i, n)' = ExpectedDone(i, n)
         /\ \A c : AcceptedBy(i, n, c)' = AcceptedBy(i, n, c)
<1>s. ASSUME NEW kinds
      PROVE  Earlier(i, n, kinds)' = Earlier(i, n, kinds)
  BY EarlierStays
<1>1. ExpectedStatus(i, n)' = ExpectedStatus(i, n)
  <2>1. Earlier(i, n, Finishing)' = Earlier(i, n, Finishing)
    BY <1>s DEF Finishing
  <2>2. Earlier(i, n, {"Started"})' = Earlier(i, n, {"Started"})
    BY <1>s
  <2> QED BY <2>1, <2>2 DEF ExpectedStatus, Finishing
<1>2. \A c : AcceptedBy(i, n, c)' = AcceptedBy(i, n, c)
  <2>1. /\ Earlier(i, n, {"Accepted"})' = Earlier(i, n, {"Accepted"})
        /\ \A m \in 1 .. Len(ledger) : ledger'[m] = ledger[m]
    BY EarlierGrows
  <2>2. Earlier(i, n, {"Accepted"}) \subseteq 1 .. Len(ledger)
    BY DEF Earlier, End
  <2> QED BY <2>1, <2>2 DEF AcceptedBy
<1>3. ExpectedDone(i, n)' = ExpectedDone(i, n)
  <2> DEFINE counted == Earlier(i, n, Quantities)
             last == CHOOSE m \in counted : \A o \in counted : o <= m
  <2>1. counted' = counted /\ \A m \in 1 .. Len(ledger) : ledger'[m] = ledger[m]
    BY EarlierGrows DEF Quantities, Finishing
  <2>2. CASE counted = {}
    BY <2>1, <2>2 DEF ExpectedDone
  <2>3. CASE counted # {}
    <3>1. Len(ledger) \in Nat /\ counted \in SUBSET (1 .. Len(ledger))
      BY DEF Earlier, End
    <3>2. \E m \in counted : \A o \in counted : o <= m
      <4> HIDE DEF counted
      <4> QED BY <2>3, <3>1, LastExists
    <3>3. last \in 1 .. Len(ledger)
      BY <3>1, <3>2
    <3>4. ExpectedDone(i, n) = ledger[last].fact.done
      BY <2>3 DEF ExpectedDone
    <3>5. ExpectedDone(i, n)' = ledger'[last].fact.done
      BY <2>1, <2>3 DEF ExpectedDone
    <3> QED BY <2>1, <3>3, <3>4, <3>5
  <2> QED BY <2>2, <2>3
<1> QED BY <1>1, <1>2, <1>3

(* What is expected after one operation more.                              *)
LEMMA ExpectationsGrow ==
  ASSUME ledger \in Seq(Operations), NEW op \in Operations, ledger' = Append(ledger, op), NEW i
  PROVE  /\ op.fact.item # i => /\ ExpectedStatus(i, End)' = ExpectedStatus(i, End)
                                /\ ExpectedDone(i, End)' = ExpectedDone(i, End)
         /\ op.fact.item = i =>
              /\ op.fact.kind \in {"Accepted", "Ready"} =>
                    ExpectedStatus(i, End)' = ExpectedStatus(i, End)
              /\ op.fact.kind = "Started" /\ ExpectedStatus(i, End) = "Queued" =>
                    ExpectedStatus(i, End)' = "InProgress"
              /\ op.fact.kind = "Progress" => ExpectedStatus(i, End)' = ExpectedStatus(i, End)
              /\ op.fact.kind \in Finishing => ExpectedStatus(i, End)' = "Completed"
              /\ op.fact.kind \in Quantities => ExpectedDone(i, End)' = op.fact.done
              /\ op.fact.kind \notin Quantities => ExpectedDone(i, End)' = ExpectedDone(i, End)
<1> DEFINE counted == Earlier(i, End, Quantities)
<1>1. /\ Earlier(i, End, Finishing)' = Earlier(i, End, Finishing) \cup
            (IF op.fact.item = i /\ op.fact.kind \in Finishing THEN {End} ELSE {})
      /\ Earlier(i, End, {"Started"})' = Earlier(i, End, {"Started"}) \cup
            (IF op.fact.item = i /\ op.fact.kind = "Started" THEN {End} ELSE {})
  BY EarlierGrows DEF Finishing
<1>2. /\ counted' = counted \cup (IF op.fact.item = i /\ op.fact.kind \in Quantities THEN {End} ELSE {})
      /\ \A m \in 1 .. Len(ledger) : ledger'[m] = ledger[m]
      /\ ledger'[End] = op
      /\ Len(ledger) \in Nat /\ counted \in SUBSET (1 .. Len(ledger))
  <2>1. counted' = counted \cup (IF op.fact.item = i /\ op.fact.kind \in Quantities THEN {End} ELSE {})
    BY EarlierGrows DEF Quantities, Finishing
  <2>2. /\ \A m \in 1 .. Len(ledger) : ledger'[m] = ledger[m]
        /\ ledger'[End] = op
        /\ Len(ledger) \in Nat
    BY EarlierGrows
  <2>3. counted \in SUBSET (1 .. Len(ledger))
    BY <2>2 DEF Earlier, End
  <2> QED BY <2>1, <2>2, <2>3
<1>3. op.fact.item = i /\ op.fact.kind \in Quantities => ExpectedDone(i, End)' = op.fact.done
  <2> SUFFICES ASSUME op.fact.item = i, op.fact.kind \in Quantities
               PROVE  ExpectedDone(i, End)' = op.fact.done
    OBVIOUS
  <2>1. counted' = counted \cup {End}
    BY <1>2
  <2>2. End \in Nat /\ \A m \in counted : m <= End /\ m # End
    BY <1>2 DEF End
  <2> HIDE DEF counted
  <2> DEFINE last == CHOOSE m \in counted \cup {End} : \A o \in counted \cup {End} : o <= m
  <2>3. last = End
    <3>1. End \in counted \cup {End} /\ \A o \in counted \cup {End} : o <= End
      BY <2>2
    <3>2. last \in counted \cup {End} /\ End <= last
      BY <3>1
    <3>3. \A m \in counted : m \in Nat /\ ~(End <= m)
      BY <1>2 DEF End
    <3> QED BY <3>2, <3>3
  <2>4. ExpectedDone(i, End)' = ledger'[last].fact.done
    BY <2>1 DEF ExpectedDone, counted
  <2> QED BY <2>3, <2>4, <1>2
<1>4. ~(op.fact.item = i /\ op.fact.kind \in Quantities) => ExpectedDone(i, End)' = ExpectedDone(i, End)
  <2> SUFFICES ASSUME ~(op.fact.item = i /\ op.fact.kind \in Quantities)
               PROVE  ExpectedDone(i, End)' = ExpectedDone(i, End)
    OBVIOUS
  <2>1. counted' = counted
    BY <1>2
  <2>2. CASE counted = {}
    BY <2>1, <2>2 DEF ExpectedDone
  <2>3. CASE counted # {}
    <3> DEFINE last == CHOOSE m \in counted : \A o \in counted : o <= m
    <3>1. \E m \in counted : \A o \in counted : o <= m
      <4> HIDE DEF counted
      <4> QED BY <2>3, <1>2, LastExists
    <3>2. last \in 1 .. Len(ledger)
      BY <3>1, <1>2
    <3>3. ExpectedDone(i, End) = ledger[last].fact.done /\ ExpectedDone(i, End)' = ledger'[last].fact.done
      BY <2>1, <2>3 DEF ExpectedDone
    <3> QED BY <1>2, <3>2, <3>3
  <2> QED BY <2>2, <2>3
<1>5. op.fact.item # i \/ op.fact.kind \in {"Accepted", "Ready", "Progress"} =>
        ExpectedStatus(i, End)' = ExpectedStatus(i, End)
  BY <1>1 DEF ExpectedStatus, Finishing
<1>6. op.fact.item = i /\ op.fact.kind = "Started" /\ ExpectedStatus(i, End) = "Queued" =>
        ExpectedStatus(i, End)' = "InProgress"
  BY <1>1 DEF ExpectedStatus, Finishing
<1>7. op.fact.item = i /\ op.fact.kind \in Finishing => ExpectedStatus(i, End)' = "Completed"
  BY <1>1 DEF ExpectedStatus, Finishing
<1> QED BY <1>3, <1>4, <1>5, <1>6, <1>7

(* What each kind of operation finds and leaves of its work item.          *)
Leads(kind, command, w, after) ==
  \/ /\ kind = "Accepted"
     /\ w.status = "Queued" /\ w.cook = NoCook /\ command.cook # NoCook
     /\ after.cook = command.cook
     /\ after.status = w.status /\ after.done = w.done /\ ~after.ready
  \/ /\ kind = "Started"
     /\ w.status = "Queued" /\ w.cook = command.cook /\ command.cook # NoCook
     /\ after.cook = w.cook
     /\ after.status = "InProgress" /\ after.done = w.done /\ ~after.ready
  \/ /\ kind = "Progress"
     /\ w.status = "InProgress" /\ w.cook = command.cook /\ command.cook # NoCook
     /\ after.cook = w.cook
     /\ after.done = w.done + command.quantity /\ after.done < Required[command.item]
     /\ after.status = "InProgress" /\ ~after.ready
  \/ /\ kind \in Finishing
     /\ w.status = "InProgress" /\ w.cook = command.cook /\ command.cook # NoCook
     /\ after.cook = w.cook
     /\ after.done = w.done + command.quantity /\ after.done = Required[command.item]
     /\ after.status = "Completed" /\ (after.ready <=> kind = "CompletedReady")
  \/ /\ kind = "Ready"
     /\ after.cook = w.cook
     /\ after.done = w.done /\ after.done = Required[command.item]
     /\ after.status = w.status /\ after.ready

LEMMA Outcome ==
  ASSUME NEW command \in Commands, NEW w \in WorkItems, w = items[command.item],
         SoundItem(w, Required[command.item]), Admissible(command),
         NEW automatic \in BOOLEAN, automatic = TRUE => Finishes(command)
  PROVE  LET after == WorkAfter(w, command, automatic)
         IN Leads(KindOf(command, after), command, w, after)
<1>0. /\ command.action \in Actions /\ command.item \in Items /\ command.quantity \in Nat
      /\ command.cook = NoCook <=> command.action = "MarkReady"
      /\ Required[command.item] \in Nat /\ w.done \in Nat
  BY RequiredAssumption DEF Commands, WorkItems
<1> DEFINE after == WorkAfter(w, command, automatic)
           kind == KindOf(command, after)
<1>1. CASE command.action = "Accept"
  <2>1. after = [w EXCEPT !.cook = command.cook, !.version = @ + 1] /\ kind = "Accepted"
    BY <1>1 DEF WorkAfter, KindOf
  <2>2. w.status = "Queued" /\ w.cook = NoCook /\ ~w.ready
    BY <1>1 DEF Admissible, SoundItem
  <2> QED BY <1>0, <1>1, <2>1, <2>2 DEF WorkItems, Leads
<1>2. CASE command.action = "Start"
  <2>1. after = [w EXCEPT !.status = "InProgress", !.version = @ + 1] /\ kind = "Started"
    BY <1>2 DEF WorkAfter, KindOf
  <2>2. w.status = "Queued" /\ w.cook = command.cook /\ ~w.ready
    BY <1>2 DEF Admissible, SoundItem
  <2> QED BY <1>0, <1>2, <2>1, <2>2 DEF WorkItems, Leads
<1>3. CASE command.action = "Complete"
  <2>1. /\ w.status = "InProgress" /\ w.cook = command.cook
        /\ w.done + command.quantity <= Required[command.item]
    BY <1>3 DEF Admissible
  <2>2. Finishes(command) <=> w.done + command.quantity = Required[command.item]
    BY <1>3 DEF Finishes
  <2>3. after = [w EXCEPT !.status = IF w.done + command.quantity = Required[command.item]
                                     THEN "Completed" ELSE "InProgress",
                          !.done = @ + command.quantity, !.version = @ + 1, !.ready = automatic]
    BY <1>3 DEF WorkAfter
  <2>4. /\ after.status = IF w.done + command.quantity = Required[command.item]
                          THEN "Completed" ELSE "InProgress"
        /\ after.done = w.done + command.quantity /\ after.ready = automatic /\ after.cook = w.cook
    BY <2>3 DEF WorkItems
  <2>5. kind = IF after.status # "Completed" THEN "Progress"
               ELSE IF after.ready THEN "CompletedReady" ELSE "Completed"
    BY <1>3 DEF KindOf
  <2> HIDE DEF after, kind
  <2>6. CASE w.done + command.quantity = Required[command.item]
    BY <1>0, <1>3, <2>1, <2>4, <2>5, <2>6 DEF Finishing, after, kind, Leads
  <2>7. CASE w.done + command.quantity # Required[command.item]
    <3>1. w.done + command.quantity < Required[command.item]
      BY <1>0, <2>1, <2>7
    <3> QED BY <1>0, <1>3, <2>1, <2>2, <2>4, <2>5, <2>7, <3>1 DEF after, kind, Leads
  <2> QED BY <2>6, <2>7
<1>4. CASE command.action = "MarkReady"
  <2>1. after = [w EXCEPT !.ready = TRUE] /\ kind = "Ready"
    BY <1>4 DEF WorkAfter, KindOf
  <2>2. w.status = "Completed" /\ w.done = Required[command.item]
    BY <1>4 DEF Admissible, SoundItem
  <2> QED BY <1>0, <1>4, <2>1, <2>2 DEF WorkItems, Leads
<1> QED BY <1>0, <1>1, <1>2, <1>3, <1>4 DEF Actions

(* A commit leaves a ticket that passes the check.                         *)
LEMMA CommitIsAccepted ==
  ASSUME IInv, Reconciles, ClaimIsTold, NEW s \in Sessions, sessions[s].phase = "loaded",
         CommitEffect(s)
  PROVE  Reconciles' /\ ClaimIsTold'
<1>q. PICK command \in Commands : command = sessions[s].command
  BY CommitsOp
<1> DEFINE i == command.item
           w == items[i]
           after == WorkAfter(w, command, sessions[s].automatic)
<1>p. PICK op \in Operations : op = Op(s)
  BY CommitsOp
<1> DEFINE kind == op.fact.kind
<1>c. /\ command \in Commands
      /\ items' = [items EXCEPT ![i] = after]
      /\ ticketVersion' = ticketVersion + 1
      /\ ledger' = Append(ledger, op)
      /\ op \in Operations
      /\ ~w.ready
      /\ SameVersions(command) /\ Admissible(command)
      /\ sessions[s].automatic \in BOOLEAN
      /\ after.version = w.version + (IF kind = "Ready" THEN 0 ELSE 1)
  BY <1>p, <1>q, CommitsOp
<1>o. /\ op.command = command /\ op.fact.item = i
      /\ kind = KindOf(command, after) /\ op.fact.cook = command.cook /\ op.fact.done = after.done
  BY <1>p, <1>q DEF Op, Fact
<1>i. i \in Items /\ w \in WorkItems /\ ledger \in Seq(Operations)
  BY <1>c DEF Commands, IInv, TypeOK
<1>j. items'[i] = after /\ \A j \in Items \ {i} : items'[j] = items[j]
  <2> HIDE DEF after
  <2> QED BY <1>c, <1>i DEF IInv, TypeOK
<1>v. command.itemVersion = w.version /\ command.ticketVersion = ticketVersion
  BY <1>c DEF SameVersions, w
<1>w. Leads(kind, command, w, after)
  <2>1. SoundItem(w, Required[i]) /\ (sessions[s].automatic = TRUE => Finishes(command))
    BY <1>i, <1>q DEF IInv, SoundItems, LoadedIsCurrent
  <2>2. PICK automatic \in BOOLEAN : automatic = sessions[s].automatic
    BY <1>c
  <2>3. automatic = TRUE => Finishes(command)
    BY <2>1, <2>2
  <2>4. after = WorkAfter(w, command, automatic)
    BY <2>2
  <2>5. w = items[command.item] /\ SoundItem(w, Required[command.item]) /\ w \in WorkItems
    BY <1>i, <2>1
  <2> HIDE DEF w, after, kind
  <2> QED BY <1>c, <1>o, <2>3, <2>4, <2>5, Outcome
<1> HIDE DEF i, w, after, kind
<1>e. /\ End' = End + 1 /\ Len(ledger) \in Nat /\ ledger'[End] = op
      /\ \A n \in 1 .. Len(ledger) : ledger'[n] = ledger[n]
      /\ End = Len(ledger) + 1
  BY <1>c, <1>i, EarlierGrows DEF End
<1>k. ASSUME NEW j, NEW kinds
      PROVE  Earlier(j, End, kinds)' = Earlier(j, End, kinds) \cup
               (IF i = j /\ kind \in kinds THEN {End} ELSE {})
  BY <1>c, <1>i, <1>o, EarlierGrows DEF kind
<1>s. ASSUME NEW j, NEW n \in 1 .. End, NEW kinds
      PROVE  Earlier(j, n, kinds)' = Earlier(j, n, kinds)
  BY <1>c, <1>i, EarlierStays
<1>r. StandsAsTold(i)
  BY <1>i DEF Reconciles
<1>1. ticketVersion' = Len(ledger') /\ \A n \in 2 .. Len(ledger') : ledger'[n].command.ticketVersion = n - 1
  <2>1. Len(ledger') = End /\ ticketVersion = Len(ledger)
    BY <1>e, <1>c DEF End, Reconciles
  <2>2. \A n \in 2 .. Len(ledger) : ledger'[n].command.ticketVersion = n - 1
    BY <1>e DEF Reconciles
  <2> QED BY <1>c, <1>e, <1>o, <1>v, <2>1, <2>2
<1>2. ASSUME NEW j \in Items, NEW n \in Earlier(j, End, Events)'
      PROVE  FollowsFrom(j, n)'
  <2>1. CASE n \in Earlier(j, End, Events)
    <3>1. n \in 1 .. Len(ledger) /\ n \in 1 .. End
      BY <2>1, <1>e DEF Earlier
    <3>2. FollowsFrom(j, n)
      BY <2>1 DEF Reconciles
    <3>3. Earlier(j, n, Events)' = Earlier(j, n, Events)
      BY <3>1, <1>s DEF Events, FactKinds
    <3>6. Earlier(j, n, {"Accepted"})' = Earlier(j, n, {"Accepted"})
      BY <3>1, <1>s
    <3>4. /\ ExpectedStatus(j, n)' = ExpectedStatus(j, n)
          /\ ExpectedDone(j, n)' = ExpectedDone(j, n)
          /\ \A c : AcceptedBy(j, n, c)' = AcceptedBy(j, n, c)
      BY <3>1, <1>c, <1>i, ExpectationsStay
    <3>5. ledger'[n] = ledger[n]
      BY <3>1, <1>e
    <3> QED BY <3>2, <3>3, <3>4, <3>5, <3>6 DEF FollowsFrom, Quantities, Finishing
  <2>2. CASE n \notin Earlier(j, End, Events)
    <3>1. n = End /\ j = i /\ kind # "Ready"
      BY <2>2, <1>k DEF Events, FactKinds
    <3>2. End \in 1 .. End
      BY <1>e
    <3>3. Earlier(i, End, Events) = Earlier(i, n, Events)'
          /\ Earlier(i, End, {"Accepted"}) = Earlier(i, n, {"Accepted"})'
      <4>1. Earlier(i, End, Events) = Earlier(i, n, Events)'
        BY <3>1, <3>2, <1>s DEF Events, FactKinds
      <4>2. Earlier(i, End, {"Accepted"}) = Earlier(i, n, {"Accepted"})'
        BY <3>1, <3>2, <1>s
      <4> QED BY <4>1, <4>2
    <3>4. /\ ExpectedStatus(i, n)' = w.status
          /\ ExpectedDone(i, n)' = w.done
          /\ \A c : AcceptedBy(i, n, c)' = AcceptedBy(i, End, c)
      BY <3>1, <3>2, <1>c, <1>i, <1>r, ExpectationsStay DEF StandsAsTold, w
    <3>5. command.itemVersion = 1 + Cardinality(Earlier(i, n, Events)')
      BY <3>3, <1>v, <1>r DEF StandsAsTold, w
    <3>6. w.cook # NoCook => AcceptedBy(i, End, w.cook)
      BY <1>i, <1>r DEF ClaimIsTold, StandsAsTold, AcceptedBy, w
    <3>7. w.cook = NoCook => Earlier(i, n, {"Accepted"})' = {}
      BY <3>3, <1>r DEF StandsAsTold, w
    <3>8. ledger'[n].command = command /\ ledger'[n].fact.kind = kind
          /\ ledger'[n].fact.cook = command.cook /\ ledger'[n].fact.done = after.done
      BY <3>1, <1>e, <1>o DEF kind
    <3>9. \/ kind = "Accepted" /\ w.status = "Queued" /\ w.cook = NoCook
          \/ kind = "Started" /\ w.status = "Queued" /\ AcceptedBy(i, n, command.cook)'
          \/ /\ kind \in Quantities /\ w.status = "InProgress" /\ AcceptedBy(i, n, command.cook)'
             /\ after.done = w.done + command.quantity
             /\ IF kind = "Progress" THEN after.done < Required[i] ELSE after.done = Required[i]
      BY <3>1, <3>4, <3>6, <1>w DEF Leads, i, Quantities, Finishing
    <3> QED BY <3>1, <3>4, <3>5, <3>7, <3>8, <3>9 DEF FollowsFrom, Quantities, Finishing
  <2> QED BY <2>1, <2>2
<1>3. ASSUME NEW j \in Items
      PROVE  StandsAsTold(j)'
  <2>1. CASE j # i
    <3>1. Earlier(j, End, Events)' = Earlier(j, End, Events)
      <4>1. Earlier(j, End, Events)' = Earlier(j, End, Events) \cup
              (IF i = j /\ kind \in Events THEN {End} ELSE {})
        BY <1>k DEF Events, FactKinds
      <4> QED BY <2>1, <4>1
    <3>4. Earlier(j, End, {"Accepted"})' = Earlier(j, End, {"Accepted"})
      <4>1. Earlier(j, End, {"Accepted"})' = Earlier(j, End, {"Accepted"}) \cup
              (IF i = j /\ kind \in {"Accepted"} THEN {End} ELSE {})
        BY <1>k
      <4> QED BY <2>1, <4>1
    <3>5. Earlier(j, End, Readies)' = Earlier(j, End, Readies)
      <4>1. Earlier(j, End, Readies)' = Earlier(j, End, Readies) \cup
              (IF i = j /\ kind \in Readies THEN {End} ELSE {})
        BY <1>k DEF Readies
      <4> QED BY <2>1, <4>1
    <3>2. ExpectedStatus(j, End)' = ExpectedStatus(j, End) /\ ExpectedDone(j, End)' = ExpectedDone(j, End)
      BY <2>1, <1>c, <1>i, <1>o, ExpectationsGrow
    <3>3. StandsAsTold(j) /\ items'[j] = items[j]
      BY <2>1, <1>j DEF Reconciles
    <3> QED BY <3>1, <3>2, <3>3, <3>4, <3>5 DEF StandsAsTold
  <2>2. CASE j = i
    <3>1. after.version = 1 + Cardinality(Earlier(i, End, Events)')
      <4> DEFINE E == Earlier(i, End, Events)
      <4>1. IsFiniteSet(E) /\ End \notin E
        <5>1. E \subseteq 1 .. Len(ledger)
          BY <1>e DEF Earlier
        <5>2. IsFiniteSet(1 .. Len(ledger)) /\ End \notin 1 .. Len(ledger)
          BY <1>e, FS_Interval
        <5> QED BY <5>1, <5>2, FS_Subset
      <4>2. E' = IF kind = "Ready" THEN E ELSE E \cup {End}
        <5>1. Earlier(i, End, Events)' = Earlier(i, End, Events) \cup
                (IF kind \in Events THEN {End} ELSE {})
          BY <1>k DEF Events, FactKinds
        <5>2. kind \in Events <=> kind # "Ready"
          BY <1>w DEF Leads, Events, FactKinds, Finishing
        <5> QED BY <5>1, <5>2
      <4>3. w.version = 1 + Cardinality(E)
        BY <1>r DEF StandsAsTold, w
      <4> HIDE DEF E
      <4>4. Cardinality(E) \in Nat /\ Cardinality(E \cup {End}) = Cardinality(E) + 1
        BY <4>1, FS_CardinalityType, FS_AddElement
      <4>5. Cardinality(E') = Cardinality(E) + (IF kind = "Ready" THEN 0 ELSE 1)
        BY <4>2, <4>4
      <4>6. after.version = 1 + Cardinality(E')
        BY <1>c, <4>3, <4>4, <4>5
      <4> QED BY <4>6 DEF E
    <3>2. after.cook # NoCook <=> Earlier(i, End, {"Accepted"})' # {}
      BY <1>k, <1>r, <1>w DEF Leads, i, StandsAsTold, w, Finishing
    <3>3. after.status = ExpectedStatus(i, End)' /\ after.done = ExpectedDone(i, End)'
      <4>1. w.status = ExpectedStatus(i, End) /\ w.done = ExpectedDone(i, End)
        BY <1>r DEF StandsAsTold, w
      <4>2. /\ kind \in {"Accepted", "Ready"} => ExpectedStatus(i, End)' = ExpectedStatus(i, End)
            /\ kind = "Started" /\ ExpectedStatus(i, End) = "Queued" =>
                 ExpectedStatus(i, End)' = "InProgress"
            /\ kind = "Progress" => ExpectedStatus(i, End)' = ExpectedStatus(i, End)
            /\ kind \in Finishing => ExpectedStatus(i, End)' = "Completed"
            /\ kind \in Quantities => ExpectedDone(i, End)' = op.fact.done
            /\ kind \notin Quantities => ExpectedDone(i, End)' = ExpectedDone(i, End)
        BY <1>c, <1>i, <1>o, ExpectationsGrow DEF kind
      <4> QED BY <4>1, <4>2, <1>o, <1>w DEF Leads, i, Quantities, Finishing
    <3>4. after.ready <=> Earlier(i, End, Readies)' # {}
      <4>1. Earlier(i, End, Readies) = {}
        BY <1>c, <1>r DEF StandsAsTold, w
      <4> QED BY <4>1, <1>k, <1>w DEF Leads, i, Readies, Finishing
    <3> QED BY <2>2, <1>j, <3>1, <3>2, <3>3, <3>4 DEF StandsAsTold
  <2> QED BY <2>1, <2>2
<1>4. ASSUME NEW j \in Items
      PROVE  ReadyAsTold(j)'
  <2>1. CASE j # i
    <3>1. Earlier(j, End, Readies)' = Earlier(j, End, Readies)
      <4>1. Earlier(j, End, Readies)' = Earlier(j, End, Readies) \cup
              (IF i = j /\ kind \in Readies THEN {End} ELSE {})
        BY <1>k DEF Readies
      <4> QED BY <2>1, <4>1
    <3>2. \A n \in Earlier(j, End, Readies) : ledger'[n] = ledger[n]
      BY <1>e DEF Earlier
    <3>3. ReadyAsTold(j) /\ items'[j] = items[j]
      BY <2>1, <1>j DEF Reconciles
    <3> QED BY <3>1, <3>2, <3>3 DEF ReadyAsTold
  <2>2. CASE j = i
    <3>1. Earlier(i, End, Readies) = {}
      BY <1>c, <1>r DEF StandsAsTold, w
    <3>2. Earlier(i, End, Readies)' = IF kind \in Readies THEN {End} ELSE {}
      BY <3>1, <1>k DEF Readies
    <3>3. kind \in Readies => /\ ledger'[End].fact.done = Required[i]
                              /\ after.version = ledger'[End].command.itemVersion
                                                   + (IF ledger'[End].fact.kind = "Ready" THEN 0 ELSE 1)
      BY <1>c, <1>e, <1>o, <1>v, <1>w DEF Leads, i, Readies, Finishing, kind
    <3> QED BY <2>2, <1>j, <3>2, <3>3 DEF ReadyAsTold
  <2> QED BY <2>1, <2>2
<1>5. ClaimIsTold'
  <2> SUFFICES ASSUME NEW j \in Items, NEW m \in Earlier(j, End, {"Accepted"})'
               PROVE  ledger'[m].fact.cook = items'[j].cook
    BY DEF ClaimIsTold
  <2>1. CASE m \in Earlier(j, End, {"Accepted"})
    <3>1. ledger'[m] = ledger[m] /\ ledger[m].fact.cook = items[j].cook
      BY <2>1, <1>e DEF ClaimIsTold, Earlier
    <3>2. j = i => w.cook # NoCook
      BY <2>1, <1>r DEF StandsAsTold, w
    <3>3. j = i => after.cook = w.cook
      BY <3>2, <1>w DEF Leads, Finishing
    <3> QED BY <3>1, <3>3, <1>j DEF w
  <2>2. CASE m \notin Earlier(j, End, {"Accepted"})
    <3>1. m = End /\ j = i /\ kind = "Accepted"
      BY <2>2, <1>k
    <3> QED BY <3>1, <1>e, <1>j, <1>o, <1>w DEF Leads, i, Finishing
  <2> QED BY <2>1, <2>2
<1> QED BY <1>1, <1>2, <1>3, <1>4, <1>5 DEF Reconciles

(* So does the creation: nothing was done to any item.                     *)
LEMMA CreationIsAccepted ==
  ASSUME IInv, ~Created, NEW d \in Deliveries, CommitTicket(d)
  PROVE  Reconciles' /\ ClaimIsTold'
<1> DEFINE op == [key |-> NoKey, command |-> NoCommand, orderReady |-> FALSE,
                  fact |-> Fact(NoItem, "Created", NoCook, 0)]
<1>1. ticketVersion' = 1 /\ ledger' = Append(ledger, op) /\ items' = items
  BY DEF CommitTicket, Adopts
<1>2. ledger = <<>>
  BY DEF IInv, TypeOK, TicketCounts, Created
<1>3. op \in Operations /\ op.fact.item = NoItem
  BY DEF Operations, Fact, FactKinds
<1> HIDE DEF op
<1>4. Len(ledger') = 1 /\ ledger'[1] = op /\ End' = 2
  BY <1>1, <1>2, <1>3 DEF End
<1>5. \A i \in Items : \A kinds : Earlier(i, End, kinds)' = {}
  BY <1>3, <1>4, ItemsAssumption DEF Earlier
<1>6. \A i \in Items : items'[i] = Fresh
  BY <1>1 DEF IInv, Untouched
<1>7. \A i \in Items : StandsAsTold(i)'
  <2>1. Cardinality({}) = 0
    BY FS_EmptySet
  <2>2. \A i \in Items : ExpectedStatus(i, End)' = "Queued" /\ ExpectedDone(i, End)' = 0
    BY <1>5 DEF ExpectedStatus, ExpectedDone
  <2> QED BY <1>5, <1>6, <2>1, <2>2 DEF StandsAsTold, Fresh
<1>8. \A i \in Items : ReadyAsTold(i)'
  BY <1>5 DEF ReadyAsTold
<1> QED BY <1>1, <1>4, <1>5, <1>7, <1>8 DEF Reconciles, ClaimIsTold

(* What is stored passes the check in every reachable state.               *)
LEMMA ReaderStep ==
  ASSUME IInv, ReaderAccepts, ClaimIsTold, [Next]_vars
  PROVE  ReaderAccepts' /\ ClaimIsTold'
<1>1. CASE UNCHANGED <<ticketVersion, items, ledger>>
  <2>1. End' = End /\ Created' = Created
    BY <1>1 DEF End, Created
  <2>2. ASSUME NEW i \in Items
        PROVE  (\A n \in Earlier(i, End, Events) : FollowsFrom(i, n))
                  => \A n \in Earlier(i, End, Events)' : FollowsFrom(i, n)'
    <3>1. ASSUME NEW n \in Earlier(i, End, Events), FollowsFrom(i, n)
          PROVE  FollowsFrom(i, n)'
      <4>1. ledger' = ledger
        BY <1>1
      <4>2. ExpectedStatus(i, n)' = ExpectedStatus(i, n) /\ ExpectedDone(i, n)' = ExpectedDone(i, n)
        BY <4>1 DEF ExpectedStatus, ExpectedDone, Earlier
      <4>3. \A c : AcceptedBy(i, n, c)' = AcceptedBy(i, n, c)
        BY <4>1 DEF AcceptedBy, Earlier
      <4>4. Cardinality(Earlier(i, n, Events))' = Cardinality(Earlier(i, n, Events))
            /\ (Earlier(i, n, {"Accepted"}) = {})' = (Earlier(i, n, {"Accepted"}) = {})
        BY <4>1 DEF Earlier
      <4> QED BY <3>1, <4>1, <4>2, <4>3, <4>4 DEF FollowsFrom
    <3>2. Earlier(i, End, Events)' = Earlier(i, End, Events)
      BY <1>1, <2>1 DEF Earlier
    <3> QED BY <3>1, <3>2
  <2>3. ASSUME NEW i \in Items
        PROVE  StandsAsTold(i) => StandsAsTold(i)'
    BY <1>1, <2>1 DEF StandsAsTold, ExpectedStatus, ExpectedDone, Earlier
  <2>4. ASSUME NEW i \in Items
        PROVE  ReadyAsTold(i) => ReadyAsTold(i)'
    BY <1>1, <2>1 DEF ReadyAsTold, Earlier
  <2>5. Reconciles => Reconciles'
    BY <1>1, <2>2, <2>3, <2>4 DEF Reconciles
  <2>6. ClaimIsTold'
    BY <1>1, <2>1 DEF ClaimIsTold, Earlier
  <2> QED BY <2>1, <2>5, <2>6 DEF ReaderAccepts
<1>2. ASSUME NEW d \in Deliveries, CommitTicket(d), ~UNCHANGED <<ticketVersion, items, ledger>>
      PROVE  ReaderAccepts' /\ ClaimIsTold'
  <2>1. ~Created
    BY <1>2 DEF CommitTicket, Adopts
  <2> QED BY <1>2, <2>1, CreationIsAccepted DEF ReaderAccepts
<1>3. ASSUME NEW s \in Sessions, sessions[s].phase = "loaded", CommitEffect(s)
      PROVE  ReaderAccepts' /\ ClaimIsTold'
  <2>1. Created
    BY <1>3, CommitsOp
  <2> QED BY <1>3, <2>1, CommitIsAccepted DEF ReaderAccepts
<1>4. CASE UNCHANGED vars
  BY <1>1, <1>4 DEF vars
<1>5. ASSUME NEW d \in Deliveries, ResolveTicket(d) \/ CommitTicket(d) \/ IntakeFails(d)
      PROVE  ReaderAccepts' /\ ClaimIsTold'
  BY <1>1, <1>2, <1>5 DEF ResolveTicket, IntakeFails
<1>6. ASSUME NEW s \in Sessions,
             \/ Ask(s) \/ AskAgain(s) \/ AskOther(s)
             \/ Fence(s) \/ Load(s) \/ Commit(s) \/ TransactionFails(s)
      PROVE  ReaderAccepts' /\ ClaimIsTold'
  <2>1. CASE Ask(s) \/ AskAgain(s) \/ AskOther(s)
    <3>1. UNCHANGED <<ticketVersion, items, ledger>>
      BY <2>1 DEF Ask, AskAgain, AskOther, Takes
    <3> QED BY <1>1, <3>1
  <2>2. CASE Fence(s) \/ Load(s)
    BY <1>1, <2>2 DEF Fence, Load
  <2>3. CASE Commit(s)
    BY <1>3, <2>3 DEF Commit
  <2>4. CASE TransactionFails(s)
    BY <1>1, <1>3, <2>4 DEF TransactionFails
  <2> QED BY <1>6, <2>1, <2>2, <2>3, <2>4
<1> QED BY <1>4, <1>5, <1>6 DEF Next

(* The queue's projector never rejects what was committed for a ticket.    *)
THEOREM HistoryIsAccepted == Spec => []ReaderAccepts
<1>1. Init => ReaderAccepts /\ ClaimIsTold
  BY DEF Init, ReaderAccepts, ClaimIsTold, Created, Earlier, End
<1>2. IInv /\ ReaderAccepts /\ ClaimIsTold /\ [Next]_vars => ReaderAccepts' /\ ClaimIsTold'
  BY ReaderStep
<1> QED BY <1>1, <1>2, Invariance, PTL DEF Spec

-----------------------------------------------------------------------------
(* The refinement of KitchenHistory.                                       *)

Log == [n \in DOMAIN ledger |-> ledger[n].fact]
StageOf(w) == [phase |-> Phase(w), cook |-> w.cook, done |-> w.done]
Stage == [t \in {Ticket} |-> [i \in Items |-> StageOf(items[i])]]

(* The log of a ledger with one operation more has that operation's fact.  *)
LEMMA LogGrows ==
  ASSUME NEW seq \in Seq(Operations), NEW op \in Operations
  PROVE  [n \in DOMAIN Append(seq, op) |-> Append(seq, op)[n].fact]
           = Append([n \in DOMAIN seq |-> seq[n].fact], op.fact)
<1> DEFINE F == {o.fact : o \in Operations}
           facts == [n \in DOMAIN seq |-> seq[n].fact]
           longer == Append(seq, op)
<1>1. \A n \in 1 .. Len(seq) : seq[n] \in Operations
  OBVIOUS
<1>2. facts \in Seq(F) /\ Len(facts) = Len(seq) /\ op.fact \in F
  BY <1>1
<1>3. /\ DOMAIN longer = DOMAIN seq \cup {Len(seq) + 1}
      /\ Len(seq) + 1 \notin DOMAIN seq
      /\ \A n \in DOMAIN seq : longer[n] = seq[n]
      /\ longer[Len(seq) + 1] = op
  BY Appending
<1>4. /\ DOMAIN Append(facts, op.fact) = DOMAIN longer
      /\ \A n \in DOMAIN seq : Append(facts, op.fact)[n] = seq[n].fact
      /\ Append(facts, op.fact)[Len(seq) + 1] = op.fact
  <2> HIDE DEF F
  <2> QED BY <1>2, <1>3
<1>5. \A n \in DOMAIN longer : Append(facts, op.fact)[n] = longer[n].fact
  BY <1>3, <1>4
<1>6. \E g : g = Append(facts, op.fact)
  OBVIOUS
<1>7. Append(facts, op.fact) = [n \in DOMAIN Append(facts, op.fact) |-> Append(facts, op.fact)[n]]
  <2> HIDE DEF F, facts
  <2> QED BY <1>2
<1> QED BY <1>4, <1>5, <1>7

LEMMA HistoryInit == Init => History!Init
<1> SUFFICES ASSUME Init PROVE History!Init
  OBVIOUS
<1>1. Log = <<>>
  BY DEF Init, Log
<1>2. \A i \in Items : StageOf(items[i]) = [phase |-> "Absent", cook |-> "nobody", done |-> 0]
  <2>1. \A i \in Items : items[i].cook = "nobody" /\ items[i].done = 0
    BY DEF Init, NoCook
  <2>2. \A i \in Items : Phase(items[i]) = "Absent"
    BY DEF Init, Phase, Created
  <2> QED BY <2>1, <2>2 DEF StageOf
<1> QED BY <1>1, <1>2 DEF History!Init, History!At, History!NoCook, Log, StageOf

(* The creation of the ticket is the history's Create.                     *)
LEMMA CreationCreates ==
  ASSUME IInv, NEW d \in Deliveries, CommitTicket(d), ~Created
  PROVE  History!Create(Ticket)
<1> DEFINE op == [key |-> NoKey, command |-> NoCommand, orderReady |-> FALSE,
                  fact |-> Fact(NoItem, "Created", NoCook, 0)]
<1>1. ledger' = Append(ledger, op) /\ ticketVersion' = 1 /\ items' = items
  BY DEF CommitTicket, Adopts
<1>2. op \in Operations /\ op.fact = Fact(NoItem, "Created", NoCook, 0)
  BY DEF Operations, Fact, FactKinds
<1>3. Log' = Append(Log, op.fact)
  <2> HIDE DEF op
  <2> QED BY <1>1, <1>2, LogGrows DEF Log, IInv, TypeOK
<1>4. \A i \in Items : items[i] = Fresh /\ items'[i] = Fresh
  BY <1>1 DEF IInv, Untouched
<1>5. \A i \in Items : StageOf(items[i]).phase = "Absent"
  <2>1. \A i \in Items : Phase(items[i]) = "Absent"
    BY DEF Phase
  <2> QED BY <2>1 DEF StageOf
<1>6. \A i \in Items : StageOf(items[i])' = [phase |-> "Queued", cook |-> "nobody", done |-> 0]
  <2>1. Created' /\ Fresh.status = "Queued" /\ ~Fresh.ready /\ Fresh.cook = NoCook /\ Fresh.done = 0
    BY <1>1 DEF Created, Fresh
  <2>2. \A i \in Items : Phase(items[i])' = "Queued"
    BY <1>4, <2>1 DEF Phase
  <2> QED BY <1>4, <2>1, <2>2 DEF StageOf, NoCook
<1>7. Stage' = [Stage EXCEPT ![Ticket] = [i \in Items |-> [phase |-> "Queued", cook |-> "nobody", done |-> 0]]]
  BY <1>6 DEF Stage
<1> HIDE DEF op
<1> QED BY <1>2, <1>3, <1>5, <1>7 DEF History!Create, History!Fact, History!At, History!NoCook,
      History!NoItem, Fact, NoItem, NoCook, Log, Stage, StageOf

(* The phase an item of a created ticket is in.                            *)
PhaseIn(w) ==
  CASE w.ready -> "Ready"
    [] ~w.ready /\ w.status = "Queued" -> IF w.cook = NoCook THEN "Queued" ELSE "Accepted"
    [] OTHER -> w.status

(* A commit moves the one item of its command as its operation says.       *)
LEMMA CommitMoves ==
  ASSUME IInv, NEW s \in Sessions, sessions[s].phase = "loaded", CommitEffect(s)
  PROVE  LET command == sessions[s].command
             i == command.item
             w == items[i]
             after == WorkAfter(w, command, sessions[s].automatic)
         IN /\ i \in Items
            /\ Stage[Ticket][i] = [phase |-> PhaseIn(w), cook |-> w.cook, done |-> w.done]
            /\ History!Moves(Ticket, i, KindOf(command, after), command.cook,
                             [phase |-> PhaseIn(after), cook |-> after.cook, done |-> after.done])
<1> DEFINE command == sessions[s].command
           i == command.item
           w == items[i]
           after == WorkAfter(w, command, sessions[s].automatic)
           next == [phase |-> PhaseIn(after), cook |-> after.cook, done |-> after.done]
<1>1. /\ command \in Commands /\ Created
      /\ items' = [items EXCEPT ![i] = after]
      /\ ticketVersion' = ticketVersion + 1
      /\ ledger' = Append(ledger, Op(s))
      /\ Op(s) \in Operations
  BY CommitsOp
<1>2. i \in Items /\ items \in [Items -> WorkItems] /\ ticketVersion \in Nat
  BY <1>1 DEF Commands, IInv, TypeOK
<1>3. Created' 
  BY <1>1, <1>2 DEF Created
<1>4. Op(s).fact = Fact(i, KindOf(command, after), command.cook, next.done)
  BY DEF Op, Fact
<1>5. Log' = Append(Log, Op(s).fact)
  BY <1>1, LogGrows DEF Log, IInv, TypeOK
<1>6. \A x : Phase(x) = PhaseIn(x)
  BY <1>1 DEF Phase, PhaseIn
<1>7. \A j \in Items : StageOf(items[j])' = [phase |-> PhaseIn(items'[j]), cook |-> items'[j].cook,
                                            done |-> items'[j].done]
  BY <1>3 DEF StageOf, Phase, PhaseIn
<1>8. \A j \in Items : StageOf(items[j]) = [phase |-> PhaseIn(items[j]), cook |-> items[j].cook,
                                           done |-> items[j].done]
  BY <1>6 DEF StageOf
<1> HIDE DEF command, i, after
<1>9. items'[i] = after /\ \A j \in Items \ {i} : items'[j] = items[j]
  BY <1>1, <1>2
<1>10. Stage' = [Stage EXCEPT ![Ticket][i] = next]
  <2>1. \A j \in Items : j = i => StageOf(items[j])' = next
    BY <1>2, <1>7, <1>9
  <2>2. \A j \in Items \ {i} : StageOf(items[j])' = StageOf(items[j])
    BY <1>7, <1>8, <1>9
  <2> HIDE DEF next
  <2> QED BY <1>2, <2>1, <2>2 DEF Stage
<1>11. Stage[Ticket][i] = [phase |-> PhaseIn(w), cook |-> w.cook, done |-> w.done]
  BY <1>2, <1>8 DEF Stage
<1>12. History!Moves(Ticket, i, KindOf(command, after), command.cook, next)
  BY <1>4, <1>5, <1>10 DEF History!Moves, History!Fact, Fact, Log, Stage, StageOf
<1> QED BY <1>2, <1>11, <1>12 DEF command, i, after

(* A commit is a step of the history.                                      *)
LEMMA CommitIsHistory ==
  ASSUME IInv, NEW s \in Sessions, sessions[s].phase = "loaded", CommitEffect(s)
  PROVE  History!Next
<1> DEFINE command == sessions[s].command
           i == command.item
           w == items[i]
           after == WorkAfter(w, command, sessions[s].automatic)
           next == [phase |-> PhaseIn(after), cook |-> after.cook, done |-> after.done]
           at == Stage[Ticket][i]
<1>1. /\ command \in Commands /\ i \in Items
      /\ at = [phase |-> PhaseIn(w), cook |-> w.cook, done |-> w.done]
      /\ History!Moves(Ticket, i, KindOf(command, after), command.cook, next)
  BY CommitsOp, CommitMoves
<1>2. w \in WorkItems /\ SoundItem(w, Required[i]) /\ Admissible(command) /\ ~w.ready
  BY <1>1, CommitsOp DEF IInv, TypeOK, SoundItems, LoadedIsCurrent
<1>3. /\ command.action \in Actions /\ command.quantity \in Nat
      /\ command.cook = NoCook <=> command.action = "MarkReady"
      /\ command.cook \in Cooks \cup {NoCook}
      /\ command.quantity = 0 <=> command.action # "Complete"
  BY <1>1 DEF Commands
<1>4. w.done \in Nat /\ Required[i] \in Nat \ {0}
  BY <1>1, <1>2, RequiredAssumption DEF WorkItems
<1>5. \E t \in {Ticket} : t = Ticket
  OBVIOUS
<1>6. Stage = [t \in {Ticket} |-> [j \in Items |->
                [phase |-> Phase(items[j]), cook |-> items[j].cook, done |-> items[j].done]]]
  BY DEF Stage, StageOf
<1> HIDE DEF at
<1>7. CASE command.action = "Accept"
  <2>1. /\ after.status = "Queued" /\ after.cook = command.cook /\ after.done = 0 /\ ~after.ready
        /\ PhaseIn(w) = "Queued" /\ KindOf(command, after) = "Accepted"
    <3>1. after = [w EXCEPT !.cook = command.cook, !.version = @ + 1]
      BY <1>7 DEF WorkAfter
    <3>2. w.status = "Queued" /\ w.cook = NoCook /\ w.done = 0
      BY <1>1, <1>2, <1>7 DEF Admissible, SoundItem
    <3>3. PhaseIn(w) = "Queued"
      BY <1>2, <3>2 DEF PhaseIn
    <3>4. KindOf(command, after) = "Accepted"
      BY <1>7 DEF KindOf
    <3> QED BY <1>2, <3>1, <3>2, <3>3, <3>4 DEF WorkItems
  <2>2. command.cook \in Cooks
    BY <1>3, <1>7
  <2>3. next = [phase |-> "Accepted", cook |-> command.cook, done |-> 0]
    BY <2>1, <2>2, CooksAssumption DEF PhaseIn
  <2>4. at.phase = "Queued"
    BY <1>1, <2>1
  <2>5. History!Accept(Ticket, i, command.cook)
    <3> HIDE DEF command, i, w, after, next
    <3> QED BY <1>1, <1>6, <2>1, <2>3, <2>4 DEF History!Accept, History!Moves, History!At, at
  <2> QED BY <1>1, <2>2, <2>5 DEF History!Next
<1>8. CASE command.action = "Start"
  <2>1. /\ after.status = "InProgress" /\ after.cook = w.cook /\ after.done = 0 /\ ~after.ready
        /\ w.cook = command.cook /\ PhaseIn(w) = "Accepted" /\ KindOf(command, after) = "Started"
    <3>1. after = [w EXCEPT !.status = "InProgress", !.version = @ + 1]
      BY <1>8 DEF WorkAfter
    <3>2. w.status = "Queued" /\ w.cook = command.cook /\ w.done = 0 /\ w.cook # NoCook
      BY <1>1, <1>2, <1>3, <1>8 DEF Admissible, SoundItem
    <3>3. PhaseIn(w) = "Accepted"
      BY <1>2, <3>2 DEF PhaseIn
    <3>4. KindOf(command, after) = "Started"
      BY <1>8 DEF KindOf
    <3> QED BY <1>2, <3>1, <3>2, <3>3, <3>4 DEF WorkItems
  <2>3. next = [phase |-> "InProgress", cook |-> command.cook, done |-> 0]
    BY <2>1 DEF PhaseIn
  <2>4. at.phase = "Accepted" /\ at.cook = command.cook
    BY <1>1, <2>1
  <2>5. History!Start(Ticket, i)
    <3> HIDE DEF command, i, w, after, next
    <3> QED BY <1>1, <1>6, <2>1, <2>3, <2>4 DEF History!Start, History!Moves, History!At, at
  <2> QED BY <1>1, <2>5 DEF History!Next
<1>9. CASE command.action = "Complete"
  <2> DEFINE d == w.done + command.quantity
  <2>1. /\ w.status = "InProgress" /\ w.cook = command.cook /\ d <= Required[i]
        /\ command.quantity > 0 /\ d \in Nat
    <3>1. w.status = "InProgress" /\ w.cook = command.cook /\ d <= Required[i]
      BY <1>2, <1>9 DEF Admissible
    <3>2. command.quantity > 0 /\ d \in Nat
      <4> HIDE DEF command, i, w, after, next
      <4> QED BY <1>3, <1>4, <1>9
    <3> QED BY <3>1, <3>2
  <2>2. at = [phase |-> "InProgress", cook |-> command.cook, done |-> w.done]
    BY <1>1, <1>2, <2>1 DEF PhaseIn
  <2>3. after = [w EXCEPT !.status = IF d = Required[i] THEN "Completed" ELSE "InProgress",
                          !.done = d, !.version = @ + 1, !.ready = sessions[s].automatic]
    BY <1>9 DEF WorkAfter
  <2>4. /\ after.status = IF d = Required[i] THEN "Completed" ELSE "InProgress"
        /\ after.cook = command.cook /\ after.done = d
    <3> HIDE DEF d
    <3> QED BY <1>2, <2>1, <2>3 DEF WorkItems
  <2>5. after.ready = sessions[s].automatic
    BY <1>2, <2>3 DEF WorkItems
  <2>6. CASE d < Required[i]
    <3>1. after.status = "InProgress"
      <4> HIDE DEF command, i, w, after, next, d
      <4> QED BY <1>4, <2>1, <2>4, <2>6
    <3>2. ~after.ready
      <4>1. ~Finishes(command)
        BY <2>6, <1>4, <2>1 DEF Finishes
      <4> QED BY <2>5, <4>1 DEF IInv, LoadedIsCurrent
    <3>3. next = [phase |-> "InProgress", cook |-> command.cook, done |-> d]
      BY <2>4, <3>1, <3>2 DEF PhaseIn
    <3>4. KindOf(command, after) = "Progress"
      BY <1>9, <3>1 DEF KindOf
    <3>5. command.quantity \in 1 .. Required[i]
      BY <1>3, <1>4, <2>1
    <3>6. History!Progress(Ticket, i, command.quantity)
      <4> HIDE DEF command, i, w, after, next
      <4> QED BY <1>1, <1>6, <2>2, <2>6, <3>3, <3>4 DEF History!Progress, History!Moves, History!At, at
    <3> QED BY <1>1, <3>5, <3>6 DEF History!Next
  <2>7. CASE d = Required[i]
    <3>1. after.status = "Completed"
      BY <2>4, <2>7
    <3>2. CASE after.ready
      <4>1. next = [phase |-> "Ready", cook |-> command.cook, done |-> Required[i]]
        BY <2>4, <2>7, <3>2 DEF PhaseIn
      <4>2. KindOf(command, after) = "CompletedReady"
        BY <1>9, <3>1, <3>2 DEF KindOf
      <4>3. History!Complete(Ticket, i)
        <5> HIDE DEF command, i, w, after, next
        <5> QED BY <1>1, <1>6, <2>2, <4>1, <4>2 DEF History!Complete, History!Moves, History!At, at
      <4> QED BY <1>1, <4>3 DEF History!Next
    <3>3. CASE ~after.ready
      <4>1. next = [phase |-> "Completed", cook |-> command.cook, done |-> Required[i]]
        BY <2>4, <2>7, <3>1, <3>3 DEF PhaseIn
      <4>2. KindOf(command, after) = "Completed"
        BY <1>9, <3>1, <3>3 DEF KindOf
      <4>3. History!Complete(Ticket, i)
        <5> HIDE DEF command, i, w, after, next
        <5> QED BY <1>1, <1>6, <2>2, <4>1, <4>2 DEF History!Complete, History!Moves, History!At, at
      <4> QED BY <1>1, <4>3 DEF History!Next
    <3> QED BY <3>2, <3>3
  <2> QED BY <1>4, <2>1, <2>6, <2>7
<1>10. CASE command.action = "MarkReady"
  <2>1. /\ after.ready /\ after.cook = w.cook /\ after.done = w.done
        /\ PhaseIn(w) = "Completed" /\ KindOf(command, after) = "Ready"
    <3>1. after = [w EXCEPT !.ready = TRUE]
      BY <1>10 DEF WorkAfter
    <3>2. w.status = "Completed"
      BY <1>1, <1>2, <1>10 DEF Admissible
    <3>3. PhaseIn(w) = "Completed"
      BY <1>2, <3>2 DEF PhaseIn
    <3>4. KindOf(command, after) = "Ready"
      BY <1>10 DEF KindOf
    <3> QED BY <1>2, <3>1, <3>2, <3>3, <3>4 DEF WorkItems
  <2>2. command.cook = "nobody"
    BY <1>3, <1>10 DEF NoCook
  <2>3. next = [phase |-> "Ready", cook |-> w.cook, done |-> w.done]
    BY <2>1 DEF PhaseIn
  <2>4. at = [phase |-> "Completed", cook |-> w.cook, done |-> w.done]
    BY <1>1, <2>1
  <2>5. History!MarkReady(Ticket, i)
    <3> HIDE DEF command, i, w, after, next
    <3> QED BY <1>1, <1>6, <2>1, <2>2, <2>3, <2>4 DEF History!MarkReady, History!Moves, History!At, History!NoCook, at
  <2> QED BY <1>1, <2>5 DEF History!Next
<1> QED BY <1>3, <1>7, <1>8, <1>9, <1>10 DEF Actions

(* What the ticket's operations record is always a history its readers     *)
(* accept: KitchenWork implements KitchenHistory.                          *)
THEOREM HistoryIsKept == Spec => HistoryHolds
<1>1. IInv /\ [Next]_vars => [History!Next]_(History!vars)
  <2> SUFFICES ASSUME IInv, [Next]_vars PROVE History!Next \/ UNCHANGED History!vars
    OBVIOUS
  <2>1. CASE UNCHANGED <<ticketVersion, items, ledger>>
    BY <2>1 DEF History!vars, Phase, Created
  <2>2. ASSUME NEW d \in Deliveries, CommitTicket(d), ~Created PROVE History!Next
    BY <2>2, CreationCreates DEF History!Next
  <2>3. ASSUME NEW d \in Deliveries, CommitTicket(d), Created
        PROVE  UNCHANGED <<ticketVersion, items, ledger>>
    BY <2>3 DEF CommitTicket, Adopts
  <2>4. ASSUME NEW s \in Sessions, sessions[s].phase = "loaded", CommitEffect(s) PROVE History!Next
    BY <2>4, CommitIsHistory
  <2> QED BY <2>1, <2>2, <2>3, <2>4 DEF Next, vars, ResolveTicket, IntakeFails, Ask, AskAgain,
        AskOther, Takes, Fence, Load, Commit, TransactionFails
<1> QED BY <1>1, HistoryInit, Invariance, PTL DEF Spec, HistoryHolds, History!Spec


(***************************************************************************)
(* KitchenQueue                                                            *)
(***************************************************************************)

(* The history: a ticket begins with its one creation, and the quantity    *)
(* done of an item never falls.                                            *)
HistoryTypeOK ==
  /\ log \in Seq(Source!Facts)
  /\ stage \in [Tickets -> [Items -> Source!Stages]]
AbsentUntilCreated ==
  \A t \in Tickets, i \in Items :
    stage[t][i].phase = "Absent" <=> \A n \in DOMAIN log : log[n].ticket # t
Counts(at, required) ==
  /\ at.phase \in {"Absent", "Queued", "Accepted"} => at.done = 0
  /\ at.phase = "InProgress" => at.done < required
StagesCount == \A t \in Tickets, i \in Items : Counts(stage[t][i], Required[i])
CreatedBegins ==
  \A n \in DOMAIN log :
    /\ \E m \in 1 .. n : log[m].ticket = log[n].ticket /\ log[m].kind = "Created"
    /\ log[n].kind = "Created" =>
         \A m \in DOMAIN log : log[m].ticket = log[n].ticket => n <= m
ItemGrows ==
  \A n \in DOMAIN log : log[n].item \in Items =>
    /\ log[n].done <= stage[log[n].ticket][log[n].item].done
    /\ \A m \in 1 .. n :
         log[m].ticket = log[n].ticket /\ log[m].item = log[n].item => log[m].done <= log[n].done

HistoryInv == HistoryTypeOK /\ AbsentUntilCreated /\ StagesCount /\ CreatedBegins /\ ItemGrows

(* A transaction under way is the only one, and the generation it read is  *)
(* the active one.                                                         *)
Underway(w) ==
  \/ work[w] = NoWork
  \/ \E n \in Announced : work[w] = Consumes(n, active)
  \/ \E r \in Rebuilds : requests[r].told # "not issued" /\ work[w] = Serves(r, active)
LockHolds ==
  /\ DOMAIN work = Workers
  /\ \A w \in Workers : Underway(w)
  /\ \A v, w \in Workers : work[v] # NoWork /\ work[w] # NoWork => v = w

Activated ==
  /\ active = Generation(active.reference, active.checkpoint, active.rows)
  /\ ~Exists(active) => active = Nothing

(* What the reader has seen is the generation its cursor names.            *)
ReaderSees ==
  /\ reader.generation \in 0 .. active.reference
  /\ reader.generation = active.reference => reader.whole = active.rows
  /\ DOMAIN reader.rows = reader.shown
  /\ reader.shown \subseteq (DOMAIN reader.whole) \X Items
  /\ \A k \in reader.shown : reader.rows[k] = reader.whole[k[1]][k[2]]
  /\ reader.ended => reader.shown = (DOMAIN reader.whole) \X Items

GivenUp == \A n \in parked : Overtaken(n)

QInv ==
  /\ QueueTypeOK
  /\ HistoryInv
  /\ LockHolds
  /\ Activated
  /\ QueueIsHistory
  /\ ReaderSees
  /\ GivenUp

-----------------------------------------------------------------------------
(* What a fact is.                                                        *)
LEMMA LogFacts ==
  ASSUME HistoryTypeOK
  PROVE  /\ Len(log) \in Nat
         /\ DOMAIN log = 1 .. Len(log)
         /\ \A n \in DOMAIN log : log[n] \in Source!Facts
BY DEF HistoryTypeOK

-----------------------------------------------------------------------------
(* The facts of a ticket as of a checkpoint: finitely many, and more as    *)
(* the checkpoint moves on.                                                *)
LEMMA FactsGrow ==
  ASSUME NEW t, NEW c \in Nat, NEW b \in 0 .. c
  PROVE  /\ Facts(t, b) \subseteq Facts(t, c)
         /\ IsFiniteSet(Facts(t, b)) /\ IsFiniteSet(Facts(t, c))
         /\ Cardinality(Facts(t, b)) \in Nat
         /\ Cardinality(Facts(t, b)) <= Cardinality(Facts(t, c))
         /\ \A i : ItemFacts(t, i, b) \subseteq ItemFacts(t, i, c)
<1>1. Facts(t, b) \subseteq Facts(t, c)
  BY DEF Facts
<1>2. IsFiniteSet(Facts(t, c))
  <2>1. IsFiniteSet(1 .. c)
    BY FS_Interval, 1 \in Int, c \in Int
  <2>2. Facts(t, c) \in SUBSET (1 .. c)
    BY DEF Facts
  <2> QED BY <2>1, <2>2, FS_Subset
<1>3. IsFiniteSet(Facts(t, b)) /\ Cardinality(Facts(t, b)) <= Cardinality(Facts(t, c))
  BY <1>1, <1>2, FS_Subset
<1>4. Cardinality(Facts(t, b)) \in Nat
  BY <1>3, FS_CardinalityType
<1>5. \A i : ItemFacts(t, i, b) \subseteq ItemFacts(t, i, c)
  BY <1>1 DEF ItemFacts
<1> QED BY <1>1, <1>2, <1>3, <1>4, <1>5

(* The same facts say the same.                                            *)
LEMMA SameFactsSameRow ==
  ASSUME NEW t, NEW b, NEW c, Facts(t, b) = Facts(t, c), NEW i
  PROVE  RowAt(t, i, b) = RowAt(t, i, c)
<1>1. ItemFacts(t, i, b) = ItemFacts(t, i, c)
  BY DEF ItemFacts
<1>2. /\ Says(t, i, b, {"Completed", "CompletedReady"}) = Says(t, i, c, {"Completed", "CompletedReady"})
      /\ Says(t, i, b, {"Started"}) = Says(t, i, c, {"Started"})
      /\ Says(t, i, b, {"Accepted"}) = Says(t, i, c, {"Accepted"})
      /\ Says(t, i, b, {"CompletedReady", "Ready"}) = Says(t, i, c, {"CompletedReady", "Ready"})
  BY <1>1 DEF Says
<1> QED BY ONLY Facts(t, b) = Facts(t, c), <1>1, <1>2 DEF RowAt

(* The fact a row takes its quantity from.                                 *)
Latest(t, i, c) == CHOOSE n \in ItemFacts(t, i, c) : \A m \in ItemFacts(t, i, c) : m <= n
LEMMA LatestFact ==
  ASSUME NEW t, NEW i, NEW c \in Nat, ItemFacts(t, i, c) # {}
  PROVE  /\ Latest(t, i, c) \in ItemFacts(t, i, c)
         /\ \A m \in ItemFacts(t, i, c) : m <= Latest(t, i, c)
<1>1. ItemFacts(t, i, c) \in SUBSET (1 .. c)
  BY DEF ItemFacts, Facts
<1>2. \E n \in ItemFacts(t, i, c) : \A m \in ItemFacts(t, i, c) : m <= n
  BY <1>1, LastExists
<1> QED BY <1>2 DEF Latest

LEMMA RowsAreTyped ==
  ASSUME HistoryTypeOK, NEW t \in Tickets, NEW i \in Items, NEW c \in 0 .. Len(log)
  PROVE  RowAt(t, i, c) \in Rows
<1>1. c \in Nat /\ c \in 0 .. c
  BY LogFacts
<1>2. Cardinality(Facts(t, c)) \in Nat
  BY <1>1, FactsGrow
<1>3. ItemFacts(t, i, c) # {} => log[Latest(t, i, c)].done \in Nat
  <2> SUFFICES ASSUME ItemFacts(t, i, c) # {}
               PROVE  log[Latest(t, i, c)].done \in Nat
    OBVIOUS
  <2>1. Latest(t, i, c) \in ItemFacts(t, i, c)
    BY <1>1, LatestFact
  <2>2. Latest(t, i, c) \in DOMAIN log
    BY <2>1, <1>1, LogFacts DEF ItemFacts, Facts
  <2> QED BY <2>2, LogFacts DEF Source!Facts
<1>4. \A kinds : Says(t, i, c, kinds) \in BOOLEAN
  BY DEF Says
<1> QED BY <1>2, <1>3, <1>4 DEF RowAt, Rows, Latest

(* A row's readiness and quantity never fall as the checkpoint moves on.   *)
LEMMA RowsGrow ==
  ASSUME HistoryTypeOK, ItemGrows, NEW t \in Tickets, NEW i \in Items,
         NEW c \in 0 .. Len(log), NEW b \in 0 .. c
  PROVE  /\ RowAt(t, i, b).ready => RowAt(t, i, c).ready
         /\ RowAt(t, i, b).done <= RowAt(t, i, c).done
<1>1. b \in Nat /\ c \in Nat /\ b \in 0 .. Len(log)
  BY LogFacts
<1>2. ItemFacts(t, i, b) \subseteq ItemFacts(t, i, c)
  BY <1>1, FactsGrow
<1>3. RowAt(t, i, b).ready => RowAt(t, i, c).ready
  BY <1>2 DEF RowAt, Says
<1>4. RowAt(t, i, b).done <= RowAt(t, i, c).done
  <2>1. RowAt(t, i, b).done \in Nat /\ RowAt(t, i, c).done \in Nat
    BY <1>1, RowsAreTyped DEF Rows
  <2>2. CASE ItemFacts(t, i, b) = {}
    BY <2>1, <2>2 DEF RowAt
  <2>3. CASE ItemFacts(t, i, b) # {}
    <3> DEFINE m == Latest(t, i, b)
               n == Latest(t, i, c)
    <3>1. m \in ItemFacts(t, i, b) /\ n \in ItemFacts(t, i, c) /\ m <= n
      BY <1>1, <1>2, <2>3, LatestFact
    <3>2. /\ m \in 1 .. n /\ n \in DOMAIN log
          /\ log[n].ticket = t /\ log[n].item = i /\ log[m].ticket = t /\ log[m].item = i
      BY <3>1, <1>1, LogFacts DEF ItemFacts, Facts
    <3>3. log[m].done <= log[n].done
      BY <3>2 DEF ItemGrows
    <3>4. RowAt(t, i, b).done = log[m].done /\ RowAt(t, i, c).done = log[n].done
      BY <1>2, <2>3, <3>1 DEF RowAt, Latest
    <3> QED BY <3>3, <3>4
  <2> QED BY <2>2, <2>3
<1> QED BY <1>3, <1>4

(* A ticket as of its creation alone is not ready.                         *)
LEMMA CreatedIsNotReady ==
  ASSUME HistoryTypeOK, NEW n \in DOMAIN log, log[n].kind = "Created",
         NEW c \in n .. Len(log), AsCreated(log[n].ticket, c)
  PROVE  /\ Facts(log[n].ticket, c) = {n}
         /\ \A i : RowAt(log[n].ticket, i, c).ready = FALSE
<1> DEFINE t == log[n].ticket
<1>1. n \in Facts(t, c) /\ c \in Nat /\ c \in 0 .. c
  BY LogFacts DEF Facts
<1>2. IsFiniteSet(Facts(t, c)) /\ Cardinality(Facts(t, c)) = 1
  BY <1>1, FactsGrow DEF AsCreated
<1>3. Facts(t, c) = {n}
  BY <1>1, <1>2, FS_Singleton
<1>4. \A i, kinds : "Created" \notin kinds => ~Says(t, i, c, kinds)
  BY <1>3 DEF Says, ItemFacts
<1> QED BY <1>3, <1>4 DEF RowAt

-----------------------------------------------------------------------------
LEMMA SameNames == Source!NoItem = NoItem /\ Source!NoCook = NoCook
PROOF BY DEF Source!NoItem, NoItem, Source!NoCook, NoCook

(* The kitchen keeps its history sound.                                    *)
LEMMA CreateStep ==
  ASSUME HistoryInv, NEW t \in Tickets, Source!Create(t)
  PROVE  HistoryInv' /\ \E e \in Source!Facts : log' = Append(log, e)
<1> DEFINE e == Source!Fact(t, NoItem, "Created", NoCook, 0)
           f == [i \in Items |-> Source!At("Queued", NoCook, 0)]
<1>t. HistoryTypeOK
  BY DEF HistoryInv
<1>e. e \in Source!Facts /\ e.ticket = t /\ e.item = NoItem /\ e.kind = "Created" /\ e.item \notin Items
  BY ItemsAssumption, SameNames DEF Source!Facts, Source!Fact, Source!Kinds
<1>f. /\ f \in [Items -> Source!Stages]
      /\ \A i \in Items : f[i].phase = "Queued" /\ f[i].done = 0 /\ Counts(f[i], Required[i])
  BY SameNames DEF Source!Stages, Source!At, Source!Phases, Counts
<1>n. \A n \in DOMAIN log : log[n].ticket # t
  BY ItemsAssumption DEF HistoryInv, AbsentUntilCreated, Source!Create
<1> HIDE DEF e, f
<1>c. log' = Append(log, e) /\ stage' = [stage EXCEPT ![t] = f]
  BY SameNames DEF Source!Create, e, f
<1>l. /\ log' \in Seq(Source!Facts) /\ Len(log) \in Nat
      /\ DOMAIN log = 1 .. Len(log) /\ DOMAIN log' = 1 .. (Len(log) + 1)
      /\ \A n \in DOMAIN log : log'[n] = log[n] /\ log[n] \in Source!Facts
      /\ log'[Len(log) + 1] = e
  BY <1>c, <1>e, <1>t, LogFacts, Appending DEF HistoryTypeOK
<1>s. /\ stage' \in [Tickets -> [Items -> Source!Stages]]
      /\ stage'[t] = f /\ \A u \in Tickets \ {t} : stage'[u] = stage[u]
  BY <1>c, <1>f, <1>t DEF HistoryTypeOK
<1>1. HistoryTypeOK'
  BY <1>l, <1>s DEF HistoryTypeOK
<1>2. AbsentUntilCreated'
  <2> SUFFICES ASSUME NEW u \in Tickets, NEW i \in Items
               PROVE  stage'[u][i].phase = "Absent" <=> \A n \in DOMAIN log' : log'[n].ticket # u
    BY DEF AbsentUntilCreated
  <2>1. CASE u = t
    BY <2>1, <1>l, <1>s, <1>e, <1>f
  <2>2. CASE u # t
    <3>1. stage[u][i].phase = "Absent" <=> \A n \in DOMAIN log : log[n].ticket # u
      BY DEF HistoryInv, AbsentUntilCreated
    <3>2. (\A n \in DOMAIN log' : log'[n].ticket # u) <=> (\A n \in DOMAIN log : log[n].ticket # u)
      BY <2>2, <1>l, <1>e
    <3> QED BY <2>2, <3>1, <3>2, <1>s
  <2> QED BY <2>1, <2>2
<1>3. StagesCount'
  BY <1>s, <1>f DEF HistoryInv, StagesCount
<1>4. CreatedBegins'
  <2> SUFFICES ASSUME NEW n \in DOMAIN log'
               PROVE  /\ \E m \in 1 .. n : log'[m].ticket = log'[n].ticket /\ log'[m].kind = "Created"
                      /\ log'[n].kind = "Created" =>
                           \A m \in DOMAIN log' : log'[m].ticket = log'[n].ticket => n <= m
    BY DEF CreatedBegins
  <2>1. CASE n = Len(log) + 1
    BY <2>1, <1>l, <1>e, <1>n
  <2>2. CASE n \in DOMAIN log
    <3>1. PICK m \in 1 .. n : log[m].ticket = log[n].ticket /\ log[m].kind = "Created"
      BY <2>2 DEF HistoryInv, CreatedBegins
    <3>2. m \in DOMAIN log /\ log'[m] = log[m] /\ log'[n] = log[n]
      BY <2>2, <1>l
    <3>3. log[n].kind = "Created" =>
            \A k \in DOMAIN log' : log'[k].ticket = log[n].ticket => n <= k
      BY <2>2, <1>l DEF HistoryInv, CreatedBegins
    <3> QED BY <3>1, <3>2, <3>3
  <2> QED BY <2>1, <2>2, <1>l
<1>5. ItemGrows'
  <2> SUFFICES ASSUME NEW n \in DOMAIN log', log'[n].item \in Items
               PROVE  /\ log'[n].done <= stage'[log'[n].ticket][log'[n].item].done
                      /\ \A m \in 1 .. n : log'[m].ticket = log'[n].ticket /\ log'[m].item = log'[n].item
                                             => log'[m].done <= log'[n].done
    BY DEF ItemGrows
  <2>1. n \in DOMAIN log /\ log'[n] = log[n] /\ \A m \in 1 .. n : log'[m] = log[m]
    BY <1>l, <1>e
  <2>2. log[n].ticket \in Tickets \ {t}
    BY <2>1, <1>l, <1>n DEF Source!Facts
  <2> QED BY <2>1, <2>2, <1>s DEF HistoryInv, ItemGrows
<1> QED BY <1>1, <1>2, <1>3, <1>4, <1>5, <1>c, <1>e DEF HistoryInv

LEMMA MoveStep ==
  ASSUME HistoryInv, NEW t \in Tickets, NEW i \in Items,
         NEW kind \in Source!Kinds \ {"Created"}, NEW c \in Cooks \cup {NoCook},
         NEW next \in Source!Stages, Source!Moves(t, i, kind, c, next),
         stage[t][i].phase # "Absent", next.phase # "Absent",
         stage[t][i].done <= next.done, Counts(next, Required[i])
  PROVE  HistoryInv' /\ \E e \in Source!Facts : log' = Append(log, e)
<1> DEFINE e == Source!Fact(t, i, kind, c, next.done)
<1>t. HistoryTypeOK
  BY DEF HistoryInv
<1>e. /\ e \in Source!Facts
      /\ e.ticket = t /\ e.item = i /\ e.kind # "Created" /\ e.done = next.done
  BY SameNames DEF Source!Facts, Source!Fact, Source!Stages
<1>n. \E n \in DOMAIN log : log[n].ticket = t
  BY DEF HistoryInv, AbsentUntilCreated
<1>c. log' = Append(log, e) /\ stage' = [stage EXCEPT ![t][i] = next]
  BY DEF Source!Moves
<1> HIDE DEF e
<1>l. /\ log' \in Seq(Source!Facts) /\ Len(log) \in Nat
      /\ DOMAIN log = 1 .. Len(log) /\ DOMAIN log' = 1 .. (Len(log) + 1)
      /\ \A n \in DOMAIN log : log'[n] = log[n] /\ log[n] \in Source!Facts
      /\ log'[Len(log) + 1] = e
  BY <1>c, <1>e, <1>t, LogFacts, Appending DEF HistoryTypeOK
<1>s. /\ stage' \in [Tickets -> [Items -> Source!Stages]]
      /\ stage'[t][i] = next
      /\ \A u \in Tickets, j \in Items : u # t \/ j # i => stage'[u][j] = stage[u][j]
  BY <1>c, <1>t DEF HistoryTypeOK
<1>1. HistoryTypeOK'
  BY <1>l, <1>s DEF HistoryTypeOK
<1>2. AbsentUntilCreated'
  <2> SUFFICES ASSUME NEW u \in Tickets, NEW j \in Items
               PROVE  stage'[u][j].phase = "Absent" <=> \A n \in DOMAIN log' : log'[n].ticket # u
    BY DEF AbsentUntilCreated
  <2>1. stage[u][j].phase = "Absent" <=> \A n \in DOMAIN log : log[n].ticket # u
    BY DEF HistoryInv, AbsentUntilCreated
  <2>2. (\A n \in DOMAIN log' : log'[n].ticket # u) <=> (\A n \in DOMAIN log : log[n].ticket # u)
    BY <1>l, <1>e, <1>n
  <2>3. stage'[u][j].phase = "Absent" <=> stage[u][j].phase = "Absent"
    BY <1>s
  <2> QED BY <2>1, <2>2, <2>3
<1>3. StagesCount'
  BY <1>s DEF HistoryInv, StagesCount
<1>4. CreatedBegins'
  <2> SUFFICES ASSUME NEW n \in DOMAIN log'
               PROVE  /\ \E m \in 1 .. n : log'[m].ticket = log'[n].ticket /\ log'[m].kind = "Created"
                      /\ log'[n].kind = "Created" =>
                           \A m \in DOMAIN log' : log'[m].ticket = log'[n].ticket => n <= m
    BY DEF CreatedBegins
  <2>1. CASE n = Len(log) + 1
    <3>1. PICK k \in DOMAIN log : log[k].ticket = t
      BY <1>n
    <3>2. PICK m \in 1 .. k : log[m].ticket = t /\ log[m].kind = "Created"
      BY <3>1 DEF HistoryInv, CreatedBegins
    <3> QED BY <2>1, <3>1, <3>2, <1>l, <1>e
  <2>2. CASE n \in DOMAIN log
    <3>1. PICK m \in 1 .. n : log[m].ticket = log[n].ticket /\ log[m].kind = "Created"
      BY <2>2 DEF HistoryInv, CreatedBegins
    <3>2. m \in DOMAIN log /\ log'[m] = log[m] /\ log'[n] = log[n]
      BY <2>2, <1>l
    <3>3. log[n].kind = "Created" =>
            \A k \in DOMAIN log' : log'[k].ticket = log[n].ticket => n <= k
      BY <2>2, <1>l DEF HistoryInv, CreatedBegins
    <3> QED BY <3>1, <3>2, <3>3
  <2> QED BY <2>1, <2>2, <1>l
<1>5. ItemGrows'
  <2> SUFFICES ASSUME NEW n \in DOMAIN log', log'[n].item \in Items
               PROVE  /\ log'[n].done <= stage'[log'[n].ticket][log'[n].item].done
                      /\ \A m \in 1 .. n : log'[m].ticket = log'[n].ticket /\ log'[m].item = log'[n].item
                                             => log'[m].done <= log'[n].done
    BY DEF ItemGrows
  <2>0. \A k \in DOMAIN log : log[k].ticket = t /\ log[k].item = i => log[k].done <= next.done
    <3> SUFFICES ASSUME NEW k \in DOMAIN log, log[k].ticket = t, log[k].item = i
                 PROVE  log[k].done <= next.done
      OBVIOUS
    <3>1. log[k].done <= stage[t][i].done
      BY DEF HistoryInv, ItemGrows
    <3>2. log[k].done \in Nat /\ stage[t][i].done \in Nat /\ next.done \in Nat
      BY <1>l, <1>t DEF HistoryTypeOK, Source!Facts, Source!Stages
    <3> QED BY <3>1, <3>2
  <2>1. CASE n = Len(log) + 1
    <3>1. log'[n] = e /\ next.done \in Nat
      BY <2>1, <1>l DEF Source!Stages
    <3>2. \A m \in 1 .. n : m = n \/ (m \in DOMAIN log /\ log'[m] = log[m])
      BY <2>1, <1>l
    <3> QED BY <3>1, <3>2, <2>0, <1>e, <1>s
  <2>2. CASE n \in DOMAIN log
    <3>1. log'[n] = log[n] /\ \A m \in 1 .. n : log'[m] = log[m]
      BY <2>2, <1>l
    <3>2. /\ log[n].done <= stage[log[n].ticket][log[n].item].done
          /\ \A m \in 1 .. n : log[m].ticket = log[n].ticket /\ log[m].item = log[n].item
                                 => log[m].done <= log[n].done
      BY <2>2, <3>1 DEF HistoryInv, ItemGrows
    <3>3. log[n].ticket \in Tickets
      BY <2>2, <1>l DEF Source!Facts
    <3>4. log[n].done <= stage'[log[n].ticket][log[n].item].done
      BY <2>0, <2>2, <3>1, <3>2, <3>3, <1>s
    <3> QED BY <3>1, <3>2, <3>4
  <2> QED BY <2>1, <2>2, <1>l
<1> QED BY <1>1, <1>2, <1>3, <1>4, <1>5, <1>c, <1>e DEF HistoryInv

LEMMA SourceStep ==
  ASSUME HistoryInv, Source!Next
  PROVE  HistoryInv' /\ \E e \in Source!Facts : log' = Append(log, e)
<1>t. /\ stage \in [Tickets -> [Items -> Source!Stages]] /\ StagesCount
      /\ \A i \in Items : Required[i] \in Nat \ {0}
  BY RequiredAssumption DEF HistoryInv, HistoryTypeOK
<1>1. PICK t \in Tickets :
        \/ Source!Create(t)
        \/ \E i \in Items :
             \/ \E c \in Cooks : Source!Accept(t, i, c)
             \/ Source!Start(t, i)
             \/ \E q \in 1 .. Required[i] : Source!Progress(t, i, q)
             \/ Source!Complete(t, i)
             \/ Source!MarkReady(t, i)
  BY DEF Source!Next
<1>2. CASE Source!Create(t)
  BY <1>2, CreateStep
<1>3. ASSUME NEW i \in Items,
             \/ \E c \in Cooks : Source!Accept(t, i, c)
             \/ Source!Start(t, i)
             \/ \E q \in 1 .. Required[i] : Source!Progress(t, i, q)
             \/ Source!Complete(t, i)
             \/ Source!MarkReady(t, i)
      PROVE  HistoryInv' /\ \E e \in Source!Facts : log' = Append(log, e)
  <2> DEFINE at == stage[t][i]
  <2>t. /\ at \in Source!Stages /\ at.cook \in Cooks \cup {NoCook} /\ at.done \in Nat
        /\ Counts(at, Required[i]) /\ Required[i] \in Nat \ {0}
    BY <1>t, SameNames DEF StagesCount, Source!Stages
  <2> HIDE DEF at
  <2>k. {"Accepted", "Started", "Progress", "Completed", "CompletedReady", "Ready"}
          \subseteq Source!Kinds \ {"Created"}
    BY DEF Source!Kinds
  <2>1. ASSUME NEW c \in Cooks, Source!Accept(t, i, c)
        PROVE  HistoryInv' /\ \E e \in Source!Facts : log' = Append(log, e)
    <3> DEFINE next == Source!At("Accepted", c, 0)
    <3>1. at.phase = "Queued" /\ Source!Moves(t, i, "Accepted", c, next)
      BY <2>1 DEF Source!Accept, at
    <3>2. next \in Source!Stages /\ next.phase # "Absent" /\ at.done <= next.done /\ Counts(next, Required[i])
      BY <2>t, <3>1, SameNames DEF Source!At, Source!Stages, Source!Phases, Counts
    <3> HIDE DEF next
    <3> QED BY <3>1, <3>2, <2>t, <2>k, MoveStep DEF at
  <2>2. CASE Source!Start(t, i)
    <3> DEFINE next == Source!At("InProgress", at.cook, 0)
    <3>1. at.phase = "Accepted" /\ Source!Moves(t, i, "Started", at.cook, next)
      BY <2>2 DEF Source!Start, at
    <3>2. next \in Source!Stages /\ next.phase # "Absent" /\ at.done <= next.done /\ Counts(next, Required[i])
      BY <2>t, <3>1, SameNames DEF Source!At, Source!Stages, Source!Phases, Counts
    <3> HIDE DEF next
    <3> QED BY <3>1, <3>2, <2>t, <2>k, MoveStep DEF at
  <2>3. ASSUME NEW q \in 1 .. Required[i], Source!Progress(t, i, q)
        PROVE  HistoryInv' /\ \E e \in Source!Facts : log' = Append(log, e)
    <3> DEFINE next == Source!At("InProgress", at.cook, at.done + q)
    <3>1. /\ at.phase = "InProgress" /\ at.done + q < Required[i]
          /\ Source!Moves(t, i, "Progress", at.cook, next)
      BY <2>3 DEF Source!Progress, at
    <3>2. next \in Source!Stages /\ next.phase # "Absent" /\ at.done <= next.done /\ Counts(next, Required[i])
      BY <2>t, <3>1, SameNames DEF Source!At, Source!Stages, Source!Phases, Counts
    <3> HIDE DEF next
    <3> QED BY <3>1, <3>2, <2>t, <2>k, MoveStep DEF at
  <2>4. CASE Source!Complete(t, i)
    <3>1. PICK phase \in {"Completed", "Ready"}, kind \in {"Completed", "CompletedReady"} :
            at.phase = "InProgress" /\ Source!Moves(t, i, kind, at.cook, Source!At(phase, at.cook, Required[i]))
      BY <2>4 DEF Source!Complete, at
    <3> DEFINE next == Source!At(phase, at.cook, Required[i])
    <3>2. next \in Source!Stages /\ next.phase # "Absent" /\ at.done <= next.done /\ Counts(next, Required[i])
      BY <2>t, <3>1, SameNames DEF Source!At, Source!Stages, Source!Phases, Counts
    <3>3. Source!Moves(t, i, kind, at.cook, next)
      BY <3>1
    <3> HIDE DEF next
    <3> QED BY <3>1, <3>2, <3>3, <2>t, <2>k, MoveStep DEF at
  <2>5. CASE Source!MarkReady(t, i)
    <3> DEFINE next == Source!At("Ready", at.cook, at.done)
    <3>1. at.phase = "Completed" /\ Source!Moves(t, i, "Ready", NoCook, next)
      BY <2>5, SameNames DEF Source!MarkReady, at
    <3>2. next \in Source!Stages /\ next.phase # "Absent" /\ at.done <= next.done /\ Counts(next, Required[i])
      BY <2>t, <3>1, SameNames DEF Source!At, Source!Stages, Source!Phases, Counts
    <3> HIDE DEF next
    <3> QED BY <3>1, <3>2, <2>t, <2>k, MoveStep DEF at
  <2> QED BY <1>3, <2>1, <2>2, <2>3, <2>4, <2>5
<1> QED BY <1>1, <1>2, <1>3

-----------------------------------------------------------------------------
(* What was said as of a checkpoint stays said, whatever is recorded next. *)
LEMMA SaidStaysSaid ==
  ASSUME HistoryTypeOK, UNCHANGED log \/ \E e \in Source!Facts : log' = Append(log, e)
  PROVE  /\ Len(log') \in Nat /\ Len(log) <= Len(log') /\ Announced \subseteq Announced'
         /\ \A n \in DOMAIN log : n \in DOMAIN log' /\ log'[n] = log[n]
         /\ \A c \in 0 .. Len(log) :
              /\ TicketsAt(c)' = TicketsAt(c)
              /\ \A t : Facts(t, c)' = Facts(t, c) /\ \A i : RowAt(t, i, c)' = RowAt(t, i, c)
<1>l. Len(log) \in Nat /\ DOMAIN log = 1 .. Len(log)
  BY LogFacts
<1>1. /\ Len(log') \in Nat /\ Len(log) <= Len(log')
      /\ \A n \in DOMAIN log : n \in DOMAIN log' /\ log'[n] = log[n]
  <2>1. CASE UNCHANGED log
    BY <2>1, <1>l
  <2>2. ASSUME NEW e \in Source!Facts, log' = Append(log, e)
        PROVE  /\ Len(log') = Len(log) + 1 /\ DOMAIN log' = DOMAIN log \cup {Len(log) + 1}
               /\ \A n \in DOMAIN log : log'[n] = log[n]
    BY <2>2, Appending DEF HistoryTypeOK
  <2> QED BY <2>1, <2>2, <1>l
<1>2. Announced \subseteq Announced'
  BY <1>1 DEF Announced
<1>3. ASSUME NEW c \in 0 .. Len(log)
      PROVE  /\ TicketsAt(c)' = TicketsAt(c)
             /\ \A t : Facts(t, c)' = Facts(t, c) /\ \A i : RowAt(t, i, c)' = RowAt(t, i, c)
  <2>1. \A n \in 1 .. c : log'[n] = log[n]
    BY <1>1, <1>l
  <2>2. \A t : Facts(t, c)' = Facts(t, c)
    BY <2>1 DEF Facts
  <2>3. \A t, i : ItemFacts(t, i, c)' = ItemFacts(t, i, c)
    BY <2>1, <2>2 DEF ItemFacts, Facts
  <2>4. \A t, i, kinds : Says(t, i, c, kinds)' <=> Says(t, i, c, kinds)
    BY <2>1, <2>3 DEF Says, ItemFacts, Facts
  <2>5. ASSUME NEW t, NEW i
        PROVE  RowAt(t, i, c)' = RowAt(t, i, c)
    <3>1. ItemFacts(t, i, c) # {} => log'[Latest(t, i, c)] = log[Latest(t, i, c)]
      <4> SUFFICES ASSUME ItemFacts(t, i, c) # {}
                   PROVE  log'[Latest(t, i, c)] = log[Latest(t, i, c)]
        OBVIOUS
      <4>1. c \in Nat /\ Latest(t, i, c) \in ItemFacts(t, i, c)
        BY <1>l, LatestFact
      <4> QED BY <4>1, <2>1 DEF ItemFacts, Facts
    <3>2. ItemFacts(t, i, c)' = ItemFacts(t, i, c) /\ Facts(t, c)' = Facts(t, c)
      BY <2>2, <2>3
    <3>3. /\ Says(t, i, c, {"Completed", "CompletedReady"})' = Says(t, i, c, {"Completed", "CompletedReady"})
          /\ Says(t, i, c, {"Started"})' = Says(t, i, c, {"Started"})
          /\ Says(t, i, c, {"Accepted"})' = Says(t, i, c, {"Accepted"})
          /\ Says(t, i, c, {"CompletedReady", "Ready"})' = Says(t, i, c, {"CompletedReady", "Ready"})
      BY <2>4 DEF Says
    <3> QED BY ONLY <3>1, <3>2, <3>3 DEF RowAt, Latest
  <2>6. TicketsAt(c)' = TicketsAt(c)
    BY <2>2 DEF TicketsAt
  <2> QED BY <2>2, <2>5, <2>6
<1> QED BY <1>1, <1>2, <1>3

-----------------------------------------------------------------------------
(* Steps                                                                   *)

(* What a row shows, compared with what the history says of its item.      *)
AsTold(row, fact) ==
  /\ [row EXCEPT !.ready = FALSE] = [fact EXCEPT !.ready = FALSE]
  /\ row.ready => fact.ready

Forward ==
  /\ active'.checkpoint >= active.checkpoint
  /\ \A t \in Projected(active) :
       /\ t \in Projected(active')
       /\ \A i \in Items : /\ active.rows[t][i].ready => active'.rows[t][i].ready
                          /\ active'.rows[t][i].done >= active.rows[t][i].done

RequestsTyped ==
  requests \in [Rebuilds -> [expected : 0 .. MaxGenerations, kept : 0 .. MaxGenerations,
                             told : {"not issued", "nothing", "Done", "Conflict"}]]

(* The projection as the invariant has it.                                 *)
LEMMA ProjectionFacts ==
  ASSUME QInv
  PROVE  /\ Len(log) \in Nat /\ DOMAIN log = 1 .. Len(log)
         /\ active.reference \in 0 .. MaxGenerations
         /\ active.checkpoint \in 0 .. Len(log)
         /\ Projected(active) = TicketsAt(active.checkpoint)
         /\ \A t \in Projected(active) :
              /\ t \in Tickets /\ active.rows[t] \in [Items -> Rows]
              /\ \A i \in Items : AsTold(active.rows[t][i], RowAt(t, i, active.checkpoint))
<1>1. Len(log) \in Nat /\ DOMAIN log = 1 .. Len(log)
  BY LogFacts DEF QInv, HistoryInv
<1>2. /\ active.reference \in 0 .. MaxGenerations
      /\ active.checkpoint \in 0 .. Len(log)
      /\ \A t \in Projected(active) : t \in Tickets /\ active.rows[t] \in [Items -> Rows]
  BY DEF QInv, QueueTypeOK
<1>3. CASE Exists(active)
  BY <1>1, <1>2, <1>3 DEF QInv, QueueIsHistory, AsTold
<1>4. CASE ~Exists(active)
  <2>1. active.checkpoint = 0 /\ Projected(active) = {}
    BY <1>4 DEF QInv, Activated, Nothing, Generation, Projected
  <2>2. TicketsAt(0) = {}
    BY DEF TicketsAt, Facts
  <2> QED BY <1>1, <1>2, <2>1, <2>2
<1> QED BY <1>3, <1>4

(* A step that leaves history and generation alone.                        *)
LEMMA QuietStep ==
  ASSUME QInv, UNCHANGED <<log, stage, active>>,
         completed' \subseteq Announced,
         \A n \in completed' : Exists(active) /\ n <= active.checkpoint,
         parked' \subseteq Announced,
         \A n \in parked' : Overtaken(n),
         RequestsTyped',
         LockHolds',
         ReaderSees', reader'.shown \subseteq Tickets \X Items
  PROVE  QInv' /\ Forward
<1>p. Len(log) \in Nat /\ Len(log) \in 0 .. Len(log) /\ active.checkpoint \in 0 .. Len(log)
  BY ProjectionFacts
<1>1. /\ Announced' = Announced
      /\ \A c \in 0 .. Len(log) :
           /\ TicketsAt(c)' = TicketsAt(c)
           /\ \A t : Facts(t, c)' = Facts(t, c) /\ \A i : RowAt(t, i, c)' = RowAt(t, i, c)
  BY SaidStaysSaid DEF QInv, HistoryInv, Announced
<1>2. QueueTypeOK'
  BY <1>1 DEF QInv, QueueTypeOK, RequestsTyped, Projected
<1>3. HistoryInv'
  BY DEF QInv, HistoryInv, HistoryTypeOK, AbsentUntilCreated, StagesCount, CreatedBegins, ItemGrows
<1>4. Activated' /\ QueueIsHistory'
  <2>1. TicketsAt(active.checkpoint)' = TicketsAt(active.checkpoint)
    BY <1>1, <1>p
  <2>2. \A t, i : RowAt(t, i, active.checkpoint)' = RowAt(t, i, active.checkpoint)
    BY <1>1, <1>p
  <2>3. Activated'
    BY DEF QInv, Activated
  <2>4. QueueIsHistory'
    BY <2>1, <2>2 DEF QInv, QueueIsHistory
  <2> QED BY <2>3, <2>4
<1>5. GivenUp'
  BY <1>1, <1>p DEF GivenUp, Overtaken
<1>6. Forward
  <2>1. \A t \in Projected(active), i \in Items : active.rows[t][i].done \in Nat
    BY ProjectionFacts DEF Rows
  <2> QED BY <2>1, <1>p DEF Forward, Projected
<1> QED BY <1>2, <1>3, <1>4, <1>5, <1>6 DEF QInv

(* The next generation is activated, and nobody is in a transaction.       *)
LEMMA ActivationStep ==
  ASSUME QInv, UNCHANGED <<log, stage, parked, reader>>,
         NEW c \in active.checkpoint .. Len(log), NEW rows,
         Activates(c, rows),
         DOMAIN rows = TicketsAt(c),
         \A t \in TicketsAt(c) : rows[t] \in [Items -> Rows],
         \A t \in TicketsAt(c), i \in Items : AsTold(rows[t][i], RowAt(t, i, c)),
         \A t \in Projected(active), i \in Items : active.rows[t][i].ready => rows[t][i].ready,
         completed' \subseteq Announced,
         \A n \in completed' : n \in completed \/ n <= c,
         RequestsTyped',
         LockHolds'
  PROVE  QInv' /\ Forward
<1>p. /\ Len(log) \in Nat /\ DOMAIN log = 1 .. Len(log) /\ MaxGenerations \in Nat
      /\ active.checkpoint \in 0 .. Len(log) /\ active.reference \in 0 .. MaxGenerations
      /\ c \in 0 .. Len(log) /\ active.checkpoint \in 0 .. c /\ c \in Nat
      /\ Len(log) \in 0 .. Len(log)
      /\ HistoryTypeOK /\ ItemGrows
  <2>1. /\ Len(log) \in Nat /\ DOMAIN log = 1 .. Len(log) /\ MaxGenerations \in Nat
        /\ active.checkpoint \in 0 .. Len(log) /\ active.reference \in 0 .. MaxGenerations
    BY ProjectionFacts, QueueAssumption
  <2>2. HistoryTypeOK /\ ItemGrows
    BY DEF QInv, HistoryInv
  <2> QED BY <2>1, <2>2
<1>a. /\ active'.reference = active.reference + 1 /\ active'.checkpoint = c /\ active'.rows = rows
      /\ active' = Generation(active'.reference, active'.checkpoint, active'.rows)
      /\ active'.reference \in 1 .. MaxGenerations
      /\ Exists(active')
  BY <1>p DEF Activates, Generation, Exists
<1>1. /\ Announced' = Announced
      /\ \A b \in 0 .. Len(log) :
           /\ TicketsAt(b)' = TicketsAt(b)
           /\ \A t : Facts(t, b)' = Facts(t, b) /\ \A i : RowAt(t, i, b)' = RowAt(t, i, b)
  BY <1>p, SaidStaysSaid DEF Announced
<1>2. QueueTypeOK'
  <2>1. /\ Projected(active') = TicketsAt(c)
        /\ \A t \in Projected(active') : active'.rows[t] \in [Items -> Rows]
    BY <1>a DEF Projected
  <2>2. TicketsAt(c) \subseteq Tickets
    BY DEF TicketsAt
  <2>3. /\ log' \in Seq(Source!Facts) /\ active'.reference \in 0 .. MaxGenerations
        /\ active'.checkpoint \in 0 .. Len(log')
    BY <1>a, <1>p DEF HistoryTypeOK
  <2>4. completed' \subseteq Announced' /\ parked' \subseteq Announced' /\ reader'.shown \subseteq Tickets \X Items
    BY <1>1 DEF QInv, QueueTypeOK
  <2> QED BY <2>1, <2>2, <2>3, <2>4 DEF QueueTypeOK, RequestsTyped
<1>3. HistoryInv'
  BY DEF QInv, HistoryInv, HistoryTypeOK, AbsentUntilCreated, StagesCount, CreatedBegins, ItemGrows
<1>4. Activated'
  BY <1>a DEF Activated
<1>5. QueueIsHistory'
  <2>1. ASSUME NEW n \in completed'
        PROVE  n <= active'.checkpoint
    <3>1. CASE n \in completed
      <4>1. n <= active.checkpoint
        BY <3>1 DEF QInv, QueueIsHistory
      <4>2. n \in Nat
        BY <1>p, <1>1 DEF Announced
      <4> QED BY <4>1, <4>2, <1>p, <1>a
    <3> QED BY <3>1, <1>a
  <2>2. Projected(active') = TicketsAt(c)'
    BY <1>1, <1>a, <1>p DEF Projected
  <2>3. ASSUME NEW t \in Projected(active'), NEW i \in Items
        PROVE  AsTold(active'.rows[t][i], RowAt(t, i, c)')
    <3>1. t \in TicketsAt(c) /\ active'.rows = rows
      BY <2>3, <1>a DEF Projected
    <3>2. RowAt(t, i, c)' = RowAt(t, i, c)
      BY <1>1, <1>p
    <3> QED BY <3>1, <3>2
  <2>4. Projected(active)' = TicketsAt(active.checkpoint)'
    BY <1>a, <2>2
  <2>5. \A t \in Projected(active)', i \in Items :
          AsTold(active'.rows[t][i], RowAt(t, i, active.checkpoint)')
    BY <1>a, <2>3
  <2> QED BY <1>a, <2>1, <2>4, <2>5 DEF QueueIsHistory, AsTold
<1>6. ReaderSees'
  BY <1>a, <1>p DEF QInv, ReaderSees
<1>7. GivenUp'
  BY <1>1, <1>p DEF QInv, GivenUp, Overtaken
<1>8. Forward
  <2> SUFFICES ASSUME NEW t \in Projected(active)
               PROVE  /\ t \in Projected(active')
                      /\ \A i \in Items : active'.rows[t][i].done >= active.rows[t][i].done
    BY <1>a, <1>p DEF Forward
  <2>1. t \in TicketsAt(active.checkpoint) /\ t \in Tickets
    BY ProjectionFacts
  <2>2. t \in TicketsAt(c)
    BY <2>1, <1>p, FactsGrow DEF TicketsAt
  <2>3. ASSUME NEW i \in Items
        PROVE  active'.rows[t][i].done >= active.rows[t][i].done
    <3>1. RowAt(t, i, active.checkpoint).done <= RowAt(t, i, c).done
      BY <1>p, <2>1, RowsGrow
    <3>2. /\ AsTold(active.rows[t][i], RowAt(t, i, active.checkpoint))
          /\ active.rows[t][i] \in Rows
      BY ProjectionFacts
    <3>3. AsTold(rows[t][i], RowAt(t, i, c)) /\ rows[t][i] \in Rows
      BY <2>2
    <3>4. RowAt(t, i, active.checkpoint) \in Rows /\ RowAt(t, i, c) \in Rows
      BY <1>p, <2>1, RowsAreTyped
    <3>5. /\ active.rows[t][i].done = RowAt(t, i, active.checkpoint).done
          /\ rows[t][i].done = RowAt(t, i, c).done
      BY <3>2, <3>3, <3>4 DEF AsTold, Rows
    <3> QED BY <3>1, <3>4, <3>5, <1>a DEF Rows
  <2> QED BY <2>2, <2>3, <1>a DEF Projected
<1> QED BY <1>2, <1>3, <1>4, <1>5, <1>6, <1>7, <1>8 DEF QInv

-----------------------------------------------------------------------------
(* The kitchen records a fact.                                             *)
LEMMA KitchenStep ==
  ASSUME QInv, KitchenWorks
  PROVE  QInv' /\ Forward
<1>p. /\ Len(log) \in Nat /\ DOMAIN log = 1 .. Len(log)
      /\ Len(log) \in 0 .. Len(log) /\ active.checkpoint \in 0 .. Len(log)
      /\ HistoryTypeOK /\ HistoryInv
  <2>1. Len(log) \in Nat /\ DOMAIN log = 1 .. Len(log) /\ active.checkpoint \in 0 .. Len(log)
    BY ProjectionFacts
  <2> QED BY <2>1 DEF QInv, HistoryInv
<1>h. HistoryInv' /\ \E e \in Source!Facts : log' = Append(log, e)
  BY <1>p, SourceStep DEF KitchenWorks
<1>u. UNCHANGED <<active, completed, parked, requests, work, reader>>
  BY DEF KitchenWorks
<1>1. /\ Len(log') \in Nat /\ Len(log) <= Len(log') /\ Announced \subseteq Announced'
      /\ \A n \in DOMAIN log : log'[n] = log[n]
      /\ \A c \in 0 .. Len(log) :
           /\ TicketsAt(c)' = TicketsAt(c)
           /\ \A t : Facts(t, c)' = Facts(t, c) /\ \A i : RowAt(t, i, c)' = RowAt(t, i, c)
  BY <1>p, <1>h, SaidStaysSaid
<1>2. QueueTypeOK'
  <2>1. log' \in Seq(Source!Facts)
    BY <1>h DEF HistoryInv, HistoryTypeOK
  <2>2. active'.checkpoint \in 0 .. Len(log')
    BY <1>1, <1>p, <1>u
  <2>3. completed' \subseteq Announced' /\ parked' \subseteq Announced'
    BY <1>1, <1>u DEF QInv, QueueTypeOK
  <2>4. RequestsTyped'
    BY <1>u DEF QInv, QueueTypeOK, RequestsTyped
  <2>5. /\ active'.reference \in 0 .. MaxGenerations /\ Projected(active)' \subseteq Tickets
        /\ \A t \in Projected(active)' : active'.rows[t] \in [Items -> Rows]
        /\ reader'.shown \subseteq Tickets \X Items
    BY <1>u DEF QInv, QueueTypeOK, Projected
  <2> QED BY <2>1, <2>2, <2>3, <2>4, <2>5 DEF QueueTypeOK, RequestsTyped
<1>3. LockHolds'
  BY <1>1, <1>u DEF QInv, LockHolds, Underway
<1>4. Activated' /\ QueueIsHistory'
  <2>1. TicketsAt(active.checkpoint)' = TicketsAt(active.checkpoint)
    BY <1>1, <1>p, <1>u
  <2>2. \A t, i : RowAt(t, i, active.checkpoint)' = RowAt(t, i, active.checkpoint)
    BY <1>1, <1>p, <1>u
  <2>3. Activated'
    BY <1>u DEF QInv, Activated
  <2>4. QueueIsHistory'
    BY <2>1, <2>2, <1>u DEF QInv, QueueIsHistory
  <2> QED BY <2>3, <2>4
<1>5. ReaderSees'
  BY <1>u DEF QInv, ReaderSees
<1>6. GivenUp'
  <2> SUFFICES ASSUME NEW n \in parked
               PROVE  Overtaken(n)'
    BY <1>u DEF GivenUp
  <2>0. PICK t : t = log[n].ticket
    OBVIOUS
  <2>1. n \in DOMAIN log /\ log'[n] = log[n]
    BY <1>1 DEF QInv, QueueTypeOK, Announced
  <2>2. log[n].kind = "Created" /\ Cardinality(Facts(t, Len(log))) > 1
    BY <2>0 DEF QInv, GivenUp, Overtaken
  <2>3. Facts(t, Len(log)) \subseteq Facts(t, Len(log))'
    BY <1>1, <1>p DEF Facts
  <2>4. IsFiniteSet(Facts(t, Len(log))')
    <3>1. IsFiniteSet(1 .. Len(log'))
      BY <1>1, FS_Interval, 1 \in Int, Len(log') \in Int
    <3>2. Facts(t, Len(log))' \in SUBSET (1 .. Len(log'))
      BY DEF Facts
    <3> QED BY <3>1, <3>2, FS_Subset
  <2>5. /\ Cardinality(Facts(t, Len(log))) <= Cardinality(Facts(t, Len(log))')
        /\ Cardinality(Facts(t, Len(log))) \in Nat
        /\ Cardinality(Facts(t, Len(log))') \in Nat
    BY <2>3, <2>4, FS_Subset, FS_CardinalityType
  <2>6. Cardinality(Facts(t, Len(log))') > 1
    BY <2>2, <2>5
  <2> QED BY <2>0, <2>1, <2>2, <2>6 DEF Overtaken
<1>7. Forward
  <2>1. \A t \in Projected(active), i \in Items : active.rows[t][i].done \in Nat
    BY ProjectionFacts DEF Rows
  <2> QED BY <2>1, <1>p, <1>u DEF Forward, Projected
<1> QED BY <1>2, <1>3, <1>h, <1>4, <1>5, <1>6, <1>7 DEF QInv

-----------------------------------------------------------------------------
(* Consuming                                                               *)

(* What the verdicts rest on.                                              *)
LEMMA VerdictMeans ==
  ASSUME NEW n, NEW g, NEW c
  PROVE  LET t == log[n].ticket
             verdict == Verdict(n, g, c)
         IN /\ verdict = "switch" =>
                 /\ Follows(g, t, c) /\ c > g.checkpoint
                 /\ log[n].kind # "Created" => t \in Projected(g)
            /\ verdict = "complete" =>
                 Follows(g, t, c) /\ ~(c > g.checkpoint) /\ t \in Projected(g)
            /\ verdict = "park" =>
                 /\ log[n].kind = "Created"
                 /\ AsCreated(t, c) => /\ Follows(g, t, c) /\ t \in Projected(g)
                                       /\ g.rows[t] # TicketAt(t, c)
BY DEF Verdict, CreatedVerdict, LifecycleVerdict

(* The checkpoint follows by facts of one ticket: the others have the same *)
(* facts as before.                                                        *)
LEMMA OthersUntouched ==
  ASSUME QInv, NEW t, NEW c \in 0 .. Len(log), Follows(active, t, c), NEW u \in Tickets \ {t}
  PROVE  /\ Facts(u, c) = Facts(u, active.checkpoint)
         /\ \A i : RowAt(u, i, c) = RowAt(u, i, active.checkpoint)
         /\ u \in TicketsAt(c) <=> u \in TicketsAt(active.checkpoint)
<1>1. active.checkpoint \in 0 .. Len(log) /\ Len(log) \in Nat
  BY ProjectionFacts
<1>2. Facts(u, c) = Facts(u, active.checkpoint)
  BY <1>1 DEF Follows, OnlyAbout, Facts
<1>3. \A i : RowAt(u, i, c) = RowAt(u, i, active.checkpoint)
  BY <1>2, SameFactsSameRow
<1> QED BY <1>2, <1>3 DEF TicketsAt

(* A switch extends the active rows to the history as of its checkpoint.   *)
LEMMA SwitchExtends ==
  ASSUME QInv, NEW n \in Announced, NEW c \in n .. Len(log), Verdict(n, active, c) = "switch"
  PROVE  LET rows == Extended(active, log[n].ticket, Candidate(n, active, c))
         IN /\ c \in active.checkpoint .. Len(log)
            /\ DOMAIN rows = TicketsAt(c)
            /\ \A t \in TicketsAt(c) : rows[t] \in [Items -> Rows]
            /\ \A t \in TicketsAt(c), i \in Items : AsTold(rows[t][i], RowAt(t, i, c))
            /\ \A t \in Projected(active), i \in Items : active.rows[t][i].ready => rows[t][i].ready
<1> DEFINE t == log[n].ticket
           candidate == Candidate(n, active, c)
           rows == Extended(active, t, candidate)
<1>p. /\ Len(log) \in Nat /\ DOMAIN log = 1 .. Len(log) /\ active.checkpoint \in 0 .. Len(log)
      /\ HistoryTypeOK /\ ItemGrows
  BY ProjectionFacts DEF QInv, HistoryInv
<1>n. n \in DOMAIN log /\ log[n] \in Source!Facts
  BY <1>p, LogFacts DEF Announced
<1>c. c \in Nat /\ c \in 0 .. Len(log) /\ n \in 1 .. c
  BY <1>p, <1>n
<1>t. t \in Tickets /\ t \in TicketsAt(c)
  BY <1>n, <1>c DEF Source!Facts, TicketsAt, Facts
<1>v. /\ Follows(active, t, c) /\ c > active.checkpoint
      /\ log[n].kind # "Created" => t \in Projected(active)
  BY VerdictMeans
<1>b. active.checkpoint \in 0 .. c
  BY <1>p, <1>c, <1>v
<1>a. /\ Projected(active) = TicketsAt(active.checkpoint)
      /\ \A u \in Projected(active) :
           /\ u \in Tickets /\ active.rows[u] \in [Items -> Rows]
           /\ \A i \in Items : AsTold(active.rows[u][i], RowAt(u, i, active.checkpoint))
  BY ProjectionFacts
<1>1. DOMAIN rows = TicketsAt(c)
  <2>1. Projected(active) \cup {t} = TicketsAt(c)
    <3>1. \A u \in Tickets \ {t} : u \in TicketsAt(c) <=> u \in TicketsAt(active.checkpoint)
      BY <1>c, <1>v, OthersUntouched
    <3> QED BY <3>1, <1>a, <1>t DEF TicketsAt
  <2> QED BY <2>1 DEF Extended
<1>2. /\ rows[t] = candidate
      /\ \A u \in TicketsAt(c) \ {t} : u \in Projected(active) /\ rows[u] = active.rows[u]
  BY <1>1 DEF Extended
<1>3. /\ candidate \in [Items -> Rows]
      /\ \A i \in Items : /\ AsTold(candidate[i], RowAt(t, i, c))
                          /\ t \in Projected(active) /\ active.rows[t][i].ready => candidate[i].ready
  <2>r. \A i \in Items : RowAt(t, i, c) \in Rows
    BY <1>p, <1>t, <1>c, RowsAreTyped
  <2>1. CASE log[n].kind = "Created"
    <3>1. candidate = [i \in Items |-> RowAt(t, i, c)]
      BY <2>1 DEF Candidate, TicketAt
    <3>2. ASSUME NEW i \in Items, t \in Projected(active), active.rows[t][i].ready
          PROVE  RowAt(t, i, c).ready
      BY <3>2, <1>a, <1>p, <1>t, <1>c, <1>b, RowsGrow DEF AsTold
    <3> QED BY <2>r, <3>1, <3>2 DEF AsTold
  <2>2. CASE log[n].kind # "Created"
    <3>1. candidate = [i \in Items |-> [RowAt(t, i, c) EXCEPT !.ready = active.rows[t][i].ready]]
      BY <2>2 DEF Candidate, KeepingReady
    <3>2. t \in Projected(active)
      BY <2>2, <1>v
    <3>3. ASSUME NEW i \in Items
          PROVE  /\ active.rows[t][i] \in Rows
                 /\ active.rows[t][i].ready => RowAt(t, i, c).ready
      BY <3>2, <1>a, <1>p, <1>t, <1>c, <1>b, RowsGrow DEF AsTold
    <3>4. ASSUME NEW i \in Items
          PROVE  /\ candidate[i] \in Rows /\ AsTold(candidate[i], RowAt(t, i, c))
                 /\ active.rows[t][i].ready => candidate[i].ready
      <4>1. /\ candidate[i] = [RowAt(t, i, c) EXCEPT !.ready = active.rows[t][i].ready]
            /\ RowAt(t, i, c) \in Rows /\ active.rows[t][i].ready \in BOOLEAN
        BY <2>r, <3>1, <3>3 DEF Rows
      <4> QED BY ONLY <4>1, <3>3 DEF AsTold, Rows
    <3> HIDE DEF candidate
    <3> QED BY <3>1, <3>4
  <2> QED BY <2>1, <2>2
<1>4. ASSUME NEW u \in TicketsAt(c)
      PROVE  rows[u] \in [Items -> Rows] /\ \A i \in Items : AsTold(rows[u][i], RowAt(u, i, c))
  <2>1. CASE u = t
    BY <2>1, <1>2, <1>3
  <2>2. CASE u # t
    <3>1. u \in Projected(active) /\ rows[u] = active.rows[u] /\ u \in Tickets \ {t}
      BY <2>2, <1>2, <1>a
    <3>2. \A i : RowAt(u, i, c) = RowAt(u, i, active.checkpoint)
      BY <3>1, <1>c, <1>v, OthersUntouched
    <3> QED BY <3>1, <3>2, <1>a
  <2> QED BY <2>1, <2>2
<1>5. ASSUME NEW u \in Projected(active), NEW i \in Items, active.rows[u][i].ready
      PROVE  rows[u][i].ready
  <2>1. u \in TicketsAt(c)
    BY <1>1 DEF Extended
  <2> QED BY <2>1, <1>2, <1>3, <1>5
<1>6. c \in active.checkpoint .. Len(log)
  BY <1>p, <1>c, <1>v
<1> HIDE DEF rows
<1> QED BY <1>1, <1>4, <1>5, <1>6 DEF rows

(* A creation is given up only when its ticket has moved on.               *)
LEMMA ParkedIsOvertaken ==
  ASSUME QInv, NEW n \in Announced, NEW c \in n .. Len(log), Verdict(n, active, c) = "park"
  PROVE  Overtaken(n)
<1> DEFINE t == log[n].ticket
<1>p. /\ Len(log) \in Nat /\ DOMAIN log = 1 .. Len(log) /\ active.checkpoint \in 0 .. Len(log)
      /\ HistoryTypeOK
  BY ProjectionFacts DEF QInv, HistoryInv
<1>n. n \in DOMAIN log /\ log[n] \in Source!Facts
  BY <1>p, LogFacts DEF Announced
<1>c. c \in Nat /\ c \in 0 .. Len(log) /\ n \in 1 .. c
  BY <1>p, <1>n
<1>v. /\ log[n].kind = "Created"
      /\ AsCreated(t, c) => /\ Follows(active, t, c) /\ t \in Projected(active)
                            /\ active.rows[t] # TicketAt(t, c)
  BY VerdictMeans
<1>1. ~AsCreated(t, c)
  <2> SUFFICES ASSUME AsCreated(t, c)
               PROVE  FALSE
    OBVIOUS
  <2>1. Facts(t, c) = {n} /\ \A i : RowAt(t, i, c).ready = FALSE
    <3>1. AsCreated(log[n].ticket, c) /\ log[n].kind = "Created"
      BY <1>v
    <3> QED BY <1>p, <1>n, <3>1, CreatedIsNotReady
  <2>2. /\ t \in Tickets /\ t \in TicketsAt(active.checkpoint) /\ active.rows[t] \in [Items -> Rows]
        /\ \A i \in Items : AsTold(active.rows[t][i], RowAt(t, i, active.checkpoint))
    BY <1>v, ProjectionFacts
  <2>3. active.checkpoint \in 0 .. c
    BY <1>p, <1>c, <1>v DEF Follows
  <2>4. Facts(t, active.checkpoint) # {} /\ Facts(t, active.checkpoint) \subseteq Facts(t, c)
    BY <2>2, <2>3, <1>c, FactsGrow DEF TicketsAt
  <2>5. \A i : RowAt(t, i, active.checkpoint) = RowAt(t, i, c)
    <3>1. Facts(t, active.checkpoint) = Facts(t, c)
      BY <2>1, <2>4
    <3> QED BY <3>1, SameFactsSameRow
  <2>6. ASSUME NEW i \in Items
        PROVE  active.rows[t][i] = RowAt(t, i, c)
    <3>1. AsTold(active.rows[t][i], RowAt(t, i, c)) /\ active.rows[t][i] \in Rows
      BY <2>2, <2>5
    <3>2. RowAt(t, i, c) \in Rows
      BY <1>p, <2>2, <1>c, RowsAreTyped
    <3>3. RowAt(t, i, c).ready = FALSE
      BY <2>1
    <3>4. ASSUME NEW row \in Rows, NEW fact \in Rows, AsTold(row, fact), fact.ready = FALSE
          PROVE  row = fact
      <4>1. row.ready = FALSE /\ [row EXCEPT !.ready = FALSE] = [fact EXCEPT !.ready = FALSE]
        BY <3>4 DEF AsTold, Rows
      <4>2. row = [row EXCEPT !.ready = FALSE] /\ fact = [fact EXCEPT !.ready = FALSE]
        BY <3>4, <4>1 DEF Rows
      <4> QED BY <4>1, <4>2
    <3> QED BY <3>1, <3>2, <3>3, <3>4
  <2>7. active.rows[t] = TicketAt(t, c)
    BY <2>2, <2>6 DEF TicketAt
  <2> QED BY <2>7, <1>v
<1>2. /\ Facts(t, c) \subseteq Facts(t, Len(log)) /\ IsFiniteSet(Facts(t, c))
      /\ Cardinality(Facts(t, c)) <= Cardinality(Facts(t, Len(log)))
      /\ Cardinality(Facts(t, c)) \in Nat
  BY <1>p, <1>c, FactsGrow
<1>3. Cardinality(Facts(t, Len(log))) \in Nat
  BY <1>p, FactsGrow, Len(log) \in 0 .. Len(log)
<1>4. Cardinality(Facts(t, c)) # 0
  <2>1. n \in Facts(t, c)
    BY <1>c DEF Facts
  <2> QED BY <2>1, <1>2, FS_EmptySet
<1>5. Cardinality(Facts(t, Len(log))) > 1
  BY <1>1, <1>2, <1>3, <1>4 DEF AsCreated
<1> QED BY <1>5, <1>v DEF Overtaken

(* A transaction that ends leaves nobody in one.                           *)
LEMMA LeavesStep ==
  ASSUME LockHolds, NEW w \in Workers, work[w] # NoWork, Leaves(w)
  PROVE  LockHolds'
<1>1. DOMAIN work' = Workers /\ \A v \in Workers : work'[v] = NoWork
  BY DEF LockHolds, Leaves
<1> QED BY <1>1 DEF LockHolds, Underway

LEMMA ConsumeStep ==
  ASSUME QInv, NEW w \in Workers, Consume(w)
  PROVE  QInv' /\ Forward
<1>u. UNCHANGED <<log, stage, requests, reader>> /\ Leaves(w)
  BY DEF Consume, source
<1>w. /\ work[w] # NoWork
      /\ \E n \in Announced : work[w] = Consumes(n, active)
  <2>1. work[w].kind = "consume"
    BY DEF Consume
  <2>2. NoWork.kind = "idle" /\ \A r, g : Serves(r, g).kind = "rebuild"
    BY DEF NoWork, Serves
  <2>3. Underway(w)
    BY DEF QInv, LockHolds
  <2> QED BY <2>1, <2>2, <2>3 DEF Underway
<1>l. LockHolds'
  BY <1>w, <1>u, LeavesStep DEF QInv
<1>r. UNCHANGED active => ReaderSees'
  BY <1>u DEF QInv, ReaderSees
<1>q. RequestsTyped' /\ reader'.shown \subseteq Tickets \X Items
  BY <1>u DEF QInv, QueueTypeOK, RequestsTyped
<1>1. PICK n \in Announced : work[w].fact = n /\ work[w].base = active
  BY <1>w DEF Consumes
<1>2. PICK c \in n .. Len(log) :
        \/ /\ Verdict(n, active, c) = "switch"
           /\ Activates(c, Extended(active, log[n].ticket, Candidate(n, active, c)))
           /\ Completes(n)
        \/ /\ Verdict(n, active, c) = "complete"
           /\ Completes(n)
           /\ UNCHANGED active
        \/ Verdict(n, active, c) = "park" /\ Parks(n)
  BY <1>1 DEF Consume, StillActive
<1>p. /\ Len(log) \in Nat /\ DOMAIN log = 1 .. Len(log) /\ active.checkpoint \in 0 .. Len(log)
      /\ n \in 1 .. Len(log) /\ n <= c /\ c \in Nat
      /\ completed \subseteq Announced /\ parked \subseteq Announced
      /\ \A m \in completed : Exists(active) /\ m <= active.checkpoint
  <2>1. Len(log) \in Nat /\ DOMAIN log = 1 .. Len(log) /\ active.checkpoint \in 0 .. Len(log)
    BY ProjectionFacts
  <2>2. n \in 1 .. Len(log)
    BY <2>1 DEF Announced
  <2>3. n <= c /\ c \in Nat
    BY <2>1, <2>2
  <2>4. /\ completed \subseteq Announced /\ parked \subseteq Announced
        /\ \A m \in completed : Exists(active) /\ m <= active.checkpoint
    BY DEF QInv, QueueTypeOK, QueueIsHistory
  <2> QED BY <2>1, <2>2, <2>3, <2>4
<1>3. CASE /\ Verdict(n, active, c) = "switch"
           /\ Activates(c, Extended(active, log[n].ticket, Candidate(n, active, c)))
           /\ Completes(n)
  <2> DEFINE rows == Extended(active, log[n].ticket, Candidate(n, active, c))
  <2>1. /\ c \in active.checkpoint .. Len(log)
        /\ DOMAIN rows = TicketsAt(c)
        /\ \A t \in TicketsAt(c) : rows[t] \in [Items -> Rows]
        /\ \A t \in TicketsAt(c), i \in Items : AsTold(rows[t][i], RowAt(t, i, c))
        /\ \A t \in Projected(active), i \in Items : active.rows[t][i].ready => rows[t][i].ready
    BY <1>3, SwitchExtends
  <2>2. Activates(c, rows)
    BY <1>3
  <2>3. UNCHANGED parked /\ completed' \subseteq Announced /\ \A m \in completed' : m \in completed \/ m <= c
    BY <1>3, <1>p DEF Completes
  <2>4. UNCHANGED <<log, stage, parked, reader>>
    BY <2>3, <1>u
  <2> HIDE DEF rows
  <2> QED BY <2>1, <2>2, <2>3, <2>4, <1>l, <1>q, ActivationStep
<1>4. CASE Verdict(n, active, c) = "complete" /\ Completes(n) /\ UNCHANGED active
  <2>1. ~(c > active.checkpoint) /\ log[n].ticket \in Projected(active)
    BY <1>4, VerdictMeans
  <2>2. Exists(active)
    BY <2>1 DEF QInv, Activated, Nothing, Generation, Projected
  <2>3. n <= active.checkpoint
    BY <2>1, <1>p
  <2>4. /\ completed' \subseteq Announced /\ parked' \subseteq Announced
        /\ \A m \in completed' : Exists(active) /\ m <= active.checkpoint
        /\ \A m \in parked' : Overtaken(m)
    BY <1>4, <1>p, <2>2, <2>3 DEF Completes, QInv, GivenUp
  <2>5. UNCHANGED <<log, stage, active>> /\ ReaderSees'
    BY <1>4, <1>u, <1>r
  <2> QED BY <2>4, <2>5, <1>l, <1>q, QuietStep
<1>5. CASE Verdict(n, active, c) = "park" /\ Parks(n)
  <2>1. Overtaken(n)
    BY <1>5, ParkedIsOvertaken
  <2>2. UNCHANGED <<active, completed>> /\ parked' = parked \cup {n}
    BY <1>5 DEF Parks
  <2>3. /\ completed' \subseteq Announced /\ parked' \subseteq Announced
        /\ \A m \in completed' : Exists(active) /\ m <= active.checkpoint
        /\ \A m \in parked' : Overtaken(m)
    BY <1>p, <2>1, <2>2 DEF QInv, GivenUp
  <2>4. UNCHANGED <<log, stage, active>> /\ ReaderSees'
    BY <2>2, <1>u, <1>r
  <2> QED BY <2>3, <2>4, <1>l, <1>q, QuietStep
<1> QED BY <1>2, <1>3, <1>4, <1>5

-----------------------------------------------------------------------------
(* Rebuilding                                                              *)
LEMMA RebuildStep ==
  ASSUME QInv, NEW w \in Workers, Rebuild(w)
  PROVE  QInv' /\ Forward
<1>u. UNCHANGED <<log, stage, reader>> /\ Leaves(w)
  BY DEF Rebuild, source
<1>w. /\ work[w] # NoWork
      /\ \E r \in Rebuilds : work[w] = Serves(r, active)
  <2>1. work[w].kind = "rebuild"
    BY DEF Rebuild
  <2>2. NoWork.kind = "idle" /\ \A n, g : Consumes(n, g).kind = "consume"
    BY DEF NoWork, Consumes
  <2>3. Underway(w)
    BY DEF QInv, LockHolds
  <2> QED BY <2>1, <2>2, <2>3 DEF Underway
<1>l. LockHolds'
  BY <1>w, <1>u, LeavesStep DEF QInv
<1>1. PICK r \in Rebuilds : work[w].rebuild = r /\ work[w].base = active
  BY <1>w DEF Serves
<1>q. /\ reader'.shown \subseteq Tickets \X Items /\ RequestsTyped
      /\ active.reference \in 0 .. MaxGenerations
      /\ completed \subseteq Announced /\ parked \subseteq Announced
      /\ \A m \in completed : Exists(active) /\ m <= active.checkpoint
      /\ \A m \in parked : Overtaken(m)
  BY <1>u DEF QInv, QueueTypeOK, RequestsTyped, QueueIsHistory, GivenUp
<1>2. ASSUME NEW answer \in {"Done", "Conflict"}, Tell(r, answer), UNCHANGED projection
      PROVE  QInv' /\ Forward
  <2>1. UNCHANGED <<active, completed, parked>>
    BY <1>2 DEF projection
  <2>2. RequestsTyped'
    BY <1>2, <1>q DEF Tell, RequestsTyped
  <2>3. ReaderSees'
    BY <2>1, <1>u DEF QInv, ReaderSees
  <2> QED BY <2>1, <2>2, <2>3, <1>u, <1>l, <1>q, QuietStep
<1>3. ASSUME NEW c \in RebuildAt(active), Activates(c, [t \in TicketsAt(c) |-> TicketAt(t, c)]),
             NEW answer \in {"Done", requests[r].told},
             requests' = [requests EXCEPT ![r].told = answer, ![r].kept = active.reference + 1],
             UNCHANGED <<completed, parked>>
      PROVE  QInv' /\ Forward
  <2> DEFINE rows == [t \in TicketsAt(c) |-> TicketAt(t, c)]
  <2>p. /\ Len(log) \in Nat /\ active.checkpoint \in 0 .. Len(log) /\ HistoryTypeOK /\ ItemGrows
        /\ c \in active.checkpoint .. Len(log)
        /\ MaxGenerations \in Nat
    BY ProjectionFacts, QueueAssumption, <1>3 DEF QInv, HistoryInv, RebuildAt
  <2>c. c \in 0 .. Len(log) /\ active.checkpoint \in 0 .. c
    BY <2>p
  <2>1. /\ DOMAIN rows = TicketsAt(c) /\ TicketsAt(c) \subseteq Tickets
        /\ \A t \in TicketsAt(c) : rows[t] = [i \in Items |-> RowAt(t, i, c)]
    BY DEF TicketAt, TicketsAt
  <2>2. \A t \in Tickets, i \in Items : RowAt(t, i, c) \in Rows
    BY <2>p, <2>c, RowsAreTyped
  <2> HIDE DEF rows
  <2>3. \A t \in TicketsAt(c) : rows[t] \in [Items -> Rows]
    BY <2>1, <2>2
  <2>4. \A t \in TicketsAt(c), i \in Items : AsTold(rows[t][i], RowAt(t, i, c))
    BY <2>1 DEF AsTold
  <2>5. ASSUME NEW t \in Projected(active), NEW i \in Items, active.rows[t][i].ready
        PROVE  rows[t][i].ready
    <3>1. /\ t \in Tickets /\ t \in TicketsAt(active.checkpoint)
          /\ AsTold(active.rows[t][i], RowAt(t, i, active.checkpoint))
      BY ProjectionFacts
    <3>2. t \in TicketsAt(c)
      BY <3>1, <2>p, <2>c, FactsGrow DEF TicketsAt
    <3>3. RowAt(t, i, c).ready
      BY <3>1, <2>5, <2>p, <2>c, RowsGrow DEF AsTold
    <3> QED BY <3>2, <3>3, <2>1
  <2>6. RequestsTyped'
    <3>1. requests[r].told \in {"not issued", "nothing", "Done", "Conflict"}
      BY <1>q DEF RequestsTyped
    <3>2. active.reference + 1 \in 0 .. MaxGenerations
      BY <1>3, <1>q, <2>p DEF Activates
    <3> QED BY <1>3, <1>q, <3>1, <3>2 DEF RequestsTyped
  <2>7. Activates(c, rows)
    BY <1>3 DEF rows
  <2>8. UNCHANGED <<log, stage, parked, reader>> /\ completed' \subseteq Announced
        /\ \A m \in completed' : m \in completed \/ m <= c
    BY <1>3, <1>u, <1>q
  <2> QED BY <2>p, <2>1, <2>3, <2>4, <2>5, <2>6, <2>7, <2>8, <1>l, ActivationStep
<1> QED BY <1>1, <1>2, <1>3 DEF Rebuild, StillActive

-----------------------------------------------------------------------------
(* The steps that touch neither history nor generation                     *)
LEMMA OtherSteps ==
  ASSUME QInv,
         \/ \E w \in Workers :
              \/ \E n \in 1 .. Len(log) : BeginConsume(w, n)
              \/ \E r \in Rebuilds : BeginRebuild(w, r)
              \/ RollsBack(w)
         \/ \E r \in Rebuilds : AskRebuild(r)
         \/ FirstPage \/ NextPage \/ StartOver
         \/ UNCHANGED queueVars
  PROVE  QInv' /\ Forward
<1>u. UNCHANGED <<log, stage, active, completed, parked>>
  BY DEF BeginConsume, BeginRebuild, RollsBack, AskRebuild, FirstPage, NextPage, StartOver,
         queueVars, source, projection
<1>q. /\ reader.shown \subseteq Tickets \X Items /\ RequestsTyped
      /\ active.reference \in 0 .. MaxGenerations
      /\ completed' \subseteq Announced /\ parked' \subseteq Announced
      /\ \A m \in completed' : Exists(active) /\ m <= active.checkpoint
      /\ \A m \in parked' : Overtaken(m)
  BY <1>u DEF QInv, QueueTypeOK, RequestsTyped, QueueIsHistory, GivenUp
<1>a. Announced' = Announced
  BY <1>u DEF Announced
<1>s. SUFFICES RequestsTyped' /\ LockHolds' /\ ReaderSees' /\ reader'.shown \subseteq Tickets \X Items
  BY <1>u, <1>q, QuietStep
<1>1. ASSUME NEW w \in Workers, NEW n \in 1 .. Len(log), BeginConsume(w, n)
      PROVE  RequestsTyped' /\ LockHolds' /\ ReaderSees' /\ reader'.shown \subseteq Tickets \X Items
  <2>1. UNCHANGED <<requests, reader>> /\ n \in Announced /\ LockFree
        /\ work' = [work EXCEPT ![w] = Consumes(n, active)]
    BY <1>1 DEF BeginConsume
  <2>2. LockHolds'
    BY <2>1, <1>a, <1>u DEF QInv, LockHolds, Underway, LockFree
  <2> QED BY <2>1, <2>2, <1>u, <1>q DEF QInv, RequestsTyped, ReaderSees
<1>2. ASSUME NEW w \in Workers, NEW r \in Rebuilds, BeginRebuild(w, r)
      PROVE  RequestsTyped' /\ LockHolds' /\ ReaderSees' /\ reader'.shown \subseteq Tickets \X Items
  <2>1. UNCHANGED <<requests, reader>> /\ requests[r].told # "not issued" /\ LockFree
        /\ work' = [work EXCEPT ![w] = Serves(r, active)]
    BY <1>2 DEF BeginRebuild
  <2>2. LockHolds'
    BY <2>1, <1>u DEF QInv, LockHolds, Underway, LockFree
  <2> QED BY <2>1, <2>2, <1>u, <1>q DEF QInv, RequestsTyped, ReaderSees
<1>3. ASSUME NEW w \in Workers, RollsBack(w)
      PROVE  RequestsTyped' /\ LockHolds' /\ ReaderSees' /\ reader'.shown \subseteq Tickets \X Items
  <2>1. UNCHANGED <<requests, reader>> /\ LockHolds'
    BY <1>3, LeavesStep DEF RollsBack, QInv
  <2> QED BY <2>1, <1>u, <1>q DEF QInv, RequestsTyped, ReaderSees
<1>4. ASSUME NEW r \in Rebuilds, AskRebuild(r)
      PROVE  RequestsTyped' /\ LockHolds' /\ ReaderSees' /\ reader'.shown \subseteq Tickets \X Items
  <2>0. 0 \in 0 .. MaxGenerations
    BY QueueAssumption
  <2>1. /\ UNCHANGED <<work, reader>>
        /\ requests' = [requests EXCEPT ![r] = [expected |-> active.reference, told |-> "nothing", kept |-> 0]]
    BY <1>4 DEF AskRebuild
  <2>2. RequestsTyped'
    BY <2>0, <2>1, <1>q DEF RequestsTyped
  <2>3. \A o \in Rebuilds : requests[o].told # "not issued" => requests'[o].told # "not issued"
    BY <2>1, <1>q DEF RequestsTyped
  <2>4. LockHolds'
    BY <2>1, <2>3, <1>a, <1>u DEF QInv, LockHolds, Underway
  <2> QED BY <2>1, <2>2, <2>4, <1>u, <1>q DEF QInv, ReaderSees
<1>w. UNCHANGED <<requests, work>> => RequestsTyped' /\ LockHolds'
  BY <1>u, <1>q, <1>a DEF QInv, LockHolds, Underway, RequestsTyped
<1>5. CASE FirstPage
  <2>1. /\ UNCHANGED <<requests, work>> /\ reader = NotReading
        /\ \E page \in Pages(active, {}) : Shows(active, {}, active.rows, page)
    BY <1>5 DEF FirstPage
  <2>2. PICK page \in Pages(active, {}) : Shows(active, {}, active.rows, page)
    BY <2>1
  <2>3. page \subseteq RowKeys(active)
    BY DEF Pages
  <2>4. /\ reader'.generation = active.reference /\ reader'.whole = active.rows
        /\ reader'.shown = page /\ DOMAIN reader'.rows = page
        /\ \A k \in page : reader'.rows[k] = active.rows[k[1]][k[2]]
        /\ reader'.ended => page = RowKeys(active)
    <3>1. DOMAIN reader.rows = {}
      BY <2>1 DEF NotReading
    <3> QED BY <2>2, <3>1 DEF Shows
  <2>5. RowKeys(active) = (DOMAIN active.rows) \X Items /\ RowKeys(active) \subseteq Tickets \X Items
    BY DEF RowKeys, Projected, QInv, QueueTypeOK
  <2>6. ReaderSees'
    BY <2>3, <2>4, <2>5, <1>u, <1>q DEF ReaderSees
  <2> QED BY <2>1, <2>3, <2>4, <2>5, <2>6, <1>w
<1>6. CASE NextPage
  <2>1. /\ UNCHANGED <<requests, work>> /\ reader.generation = active.reference
        /\ \E page \in Pages(active, reader.shown) : Shows(active, reader.shown, reader.whole, page)
    BY <1>6 DEF NextPage, CursorHolds
  <2>2. PICK page \in Pages(active, reader.shown) : Shows(active, reader.shown, reader.whole, page)
    BY <2>1
  <2>3. page \subseteq RowKeys(active)
    BY DEF Pages
  <2>4. /\ reader.whole = active.rows /\ DOMAIN reader.rows = reader.shown
        /\ reader.shown \subseteq (DOMAIN active.rows) \X Items
        /\ \A k \in reader.shown : reader.rows[k] = active.rows[k[1]][k[2]]
    BY <2>1 DEF QInv, ReaderSees
  <2>5. /\ reader'.generation = active.reference /\ reader'.whole = active.rows
        /\ reader'.shown = reader.shown \cup page /\ DOMAIN reader'.rows = reader.shown \cup page
        /\ \A k \in reader.shown \cup page : reader'.rows[k] = active.rows[k[1]][k[2]]
        /\ reader'.ended => reader.shown \cup page = RowKeys(active)
    BY <2>2, <2>4 DEF Shows
  <2>6. RowKeys(active) = (DOMAIN active.rows) \X Items /\ RowKeys(active) \subseteq Tickets \X Items
    BY DEF RowKeys, Projected, QInv, QueueTypeOK
  <2>7. ReaderSees'
    BY <2>3, <2>4, <2>5, <2>6, <1>u, <1>q DEF ReaderSees
  <2>8. reader'.shown \subseteq Tickets \X Items
    BY <2>3, <2>5, <2>6, <1>q
  <2> QED BY <2>1, <2>7, <2>8, <1>w
<1>7. CASE StartOver
  <2>1. UNCHANGED <<requests, work>> /\ reader' = NotReading
    BY <1>7 DEF StartOver
  <2>2. ReaderSees'
    BY <2>1, <1>u, <1>q DEF QInv, Activated, Nothing, Generation, Exists, ReaderSees, NotReading
  <2> QED BY <2>1, <2>2, <1>w DEF NotReading
<1>8. CASE UNCHANGED queueVars
  BY <1>8, <1>u, <1>q, <1>w DEF queueVars, QInv, ReaderSees
<1> QED BY <1>1, <1>2, <1>3, <1>4, <1>5, <1>6, <1>7, <1>8

LEMMA QueueInitInv == QueueInit => QInv
<1> SUFFICES ASSUME QueueInit
             PROVE  QInv
  OBVIOUS
<1>i. /\ log = <<>> /\ stage = [t \in Tickets |-> [i \in Items |-> Source!At("Absent", NoCook, 0)]]
      /\ active = Nothing /\ completed = {} /\ parked = {}
      /\ requests = [r \in Rebuilds |-> NoRequest]
      /\ work = [w \in Workers |-> NoWork]
      /\ reader = NotReading
  BY SameNames DEF QueueInit, Source!Init
<1>l. log \in Seq(Source!Facts) /\ Len(log) = 0 /\ DOMAIN log = {}
  BY <1>i
<1>a. /\ active.reference = 0 /\ active.checkpoint = 0 /\ active.rows = <<>>
      /\ DOMAIN active.rows = {} /\ ~Exists(active)
  BY <1>i DEF Nothing, Generation, Exists
<1>1. QueueTypeOK
  <2>0. 0 \in 0 .. MaxGenerations
    BY QueueAssumption
  <2>1. RequestsTyped
    BY <1>i, <2>0 DEF RequestsTyped, NoRequest
  <2>2. reader.shown = {}
    BY <1>i DEF NotReading
  <2>3. active.reference \in 0 .. MaxGenerations /\ active.checkpoint \in 0 .. Len(log)
    BY <1>a, <1>l, <2>0
  <2> QED BY <1>i, <1>l, <1>a, <2>1, <2>2, <2>3 DEF QueueTypeOK, RequestsTyped, Projected
<1>2. HistoryInv
  <2>1. Source!At("Absent", NoCook, 0) \in Source!Stages
    BY SameNames DEF Source!At, Source!Stages, Source!Phases
  <2>2. \A t \in Tickets, i \in Items : stage[t][i].phase = "Absent" /\ stage[t][i].done = 0
    BY <1>i DEF Source!At
  <2>3. HistoryTypeOK
    BY <1>i, <1>l, <2>1 DEF HistoryTypeOK
  <2>4. StagesCount
    BY <2>2 DEF StagesCount, Counts
  <2>5. AbsentUntilCreated /\ CreatedBegins /\ ItemGrows
    BY <1>l, <2>2 DEF AbsentUntilCreated, CreatedBegins, ItemGrows
  <2> QED BY <2>3, <2>4, <2>5 DEF HistoryInv
<1>3. LockHolds
  BY <1>i DEF LockHolds, Underway
<1>4. Activated
  BY <1>i, <1>a DEF Activated, Nothing
<1>5. QueueIsHistory /\ GivenUp
  BY <1>i, <1>a DEF QueueIsHistory, GivenUp
<1>6. ReaderSees
  BY <1>i, <1>a DEF ReaderSees, NotReading
<1> QED BY <1>1, <1>2, <1>3, <1>4, <1>5, <1>6 DEF QInv

LEMMA QueueNextInv == QInv /\ [QueueNext]_queueVars => QInv' /\ Forward
<1> SUFFICES ASSUME QInv, [QueueNext]_queueVars
             PROVE  QInv' /\ Forward
  OBVIOUS
<1>1. CASE KitchenWorks
  BY <1>1, KitchenStep
<1>2. ASSUME NEW w \in Workers, Consume(w)
      PROVE  QInv' /\ Forward
  BY <1>2, ConsumeStep
<1>3. ASSUME NEW w \in Workers, Rebuild(w)
      PROVE  QInv' /\ Forward
  BY <1>3, RebuildStep
<1>4. CASE \/ \E w \in Workers :
                \/ \E n \in 1 .. Len(log) : BeginConsume(w, n)
                \/ \E r \in Rebuilds : BeginRebuild(w, r)
                \/ RollsBack(w)
           \/ \E r \in Rebuilds : AskRebuild(r)
           \/ FirstPage \/ NextPage \/ StartOver
           \/ UNCHANGED queueVars
  BY <1>4, OtherSteps
<1> QED BY <1>1, <1>2, <1>3, <1>4 DEF QueueNext

THEOREM QueueInvariance == QueueSpec => []QInv
<1>1. QInv /\ [QueueNext]_queueVars => QInv'
  BY QueueNextInv
<1> QED BY <1>1, QueueInitInv, PTL DEF QueueSpec

-----------------------------------------------------------------------------
(* The queue's state is of its type: the projection never holds anything   *)
(* but rows of tickets, whatever was consumed or rebuilt.                  *)
THEOREM QueueTypeCorrect == QueueSpec => []QueueTypeOK
<1>1. QInv => QueueTypeOK
  BY DEF QInv
<1> QED BY <1>1, QueueInvariance, PTL

(* Whatever order the events are consumed in and whenever it is rebuilt,   *)
(* the active queue is the history as of its checkpoint, and every event   *)
(* acknowledged is in it.                                                  *)
THEOREM QueueReflectsHistory == QueueSpec => []QueueIsHistory
<1>1. QInv => QueueIsHistory
  BY DEF QInv
<1> QED BY <1>1, QueueInvariance, PTL

(* No step of a consumer or a rebuild takes back what the queue showed.    *)
THEOREM QueueMovesForward == QueueSpec => NeverBackwards
<1>1. QInv /\ [QueueNext]_queueVars => [Forward]_queueVars
  BY QueueNextInv
<1>2. QueueSpec => [][Forward]_queueVars
  BY <1>1, QueueInvariance, PTL DEF QueueSpec
<1> QED BY <1>2 DEF NeverBackwards, Forward

(* The pages a reader follows to the end are one generation.               *)
THEOREM PagesAgree == QueueSpec => []PagesAreOneGeneration
<1>1. QInv => PagesAreOneGeneration
  BY DEF QInv, ReaderSees, PagesAreOneGeneration
<1> QED BY <1>1, QueueInvariance, PTL

(* An event whose verdict is not a retry on the checkpoint a read may      *)
(* answer with can be settled.                                             *)
LEMMA WaitingSettles ==
  ASSUME QInv, Waiting # {}
  PROVE  \/ \E n \in Waiting : CanSettle(n)
         \/ /\ active.checkpoint < Len(log)
            /\ \/ log[active.checkpoint + 1].kind = "Ready"
               \/ active.checkpoint + 1 \in parked
<1> DEFINE cp == active.checkpoint
<1>p. /\ Len(log) \in Nat /\ DOMAIN log = 1 .. Len(log) /\ cp \in 0 .. Len(log)
      /\ HistoryTypeOK /\ CreatedBegins
      /\ Projected(active) = TicketsAt(cp)
      /\ \A t \in Projected(active) :
           /\ t \in Tickets /\ active.rows[t] \in [Items -> Rows]
           /\ \A i \in Items : AsTold(active.rows[t][i], RowAt(t, i, cp))
      /\ \A n \in completed : n <= cp
  BY ProjectionFacts DEF QInv, HistoryInv, QueueIsHistory
<1>1. CASE cp = Len(log)
  <2>1. PICK n \in Waiting : TRUE
    OBVIOUS
  <2> DEFINE t == log[n].ticket
  <2>2. n \in 1 .. cp /\ n \in DOMAIN log /\ log[n].ticket \in Tickets /\ cp \in n .. Len(log)
    BY <1>1, <1>p, <2>1, LogFacts DEF Waiting, Announced, Source!Facts
  <2>3. t \in TicketsAt(cp)
    BY <2>2 DEF TicketsAt, Facts
  <2>4. t \in Projected(active)
    BY <2>3, <1>p
  <2>5. Follows(active, t, cp)
    BY <1>p DEF Follows, OnlyAbout
  <2>6. active.rows[t] = KeepingReady(active, t, cp)
    <3>1. active.rows[t] \in [Items -> Rows]
      BY <2>4, <1>p
    <3>2. ASSUME NEW i \in Items
          PROVE  active.rows[t][i] = [RowAt(t, i, cp) EXCEPT !.ready = active.rows[t][i].ready]
      <4>1. AsTold(active.rows[t][i], RowAt(t, i, cp)) /\ active.rows[t][i] \in Rows
        BY <2>4, <1>p
      <4>2. RowAt(t, i, cp) \in Rows
        BY <1>p, <2>2, RowsAreTyped
      <4> QED BY ONLY <4>1, <4>2 DEF AsTold, Rows
    <3> QED BY <3>1, <3>2 DEF KeepingReady
  <2>7. Verdict(n, active, cp) # "retry"
    <3>1. ~(cp > active.checkpoint)
      BY <1>p
    <3> HIDE DEF t, cp
    <3> QED BY <2>4, <2>5, <2>6, <3>1 DEF t, Verdict, CreatedVerdict, LifecycleVerdict
  <2> QED BY <2>1, <2>2, <2>7 DEF CanSettle
<1>2. CASE cp < Len(log)
  <2> DEFINE next == cp + 1
             t == log[next].ticket
  <2>1. /\ next \in DOMAIN log /\ next \in next .. Len(log) /\ next \in Nat /\ next > cp
        /\ log[next].ticket \in Tickets
    BY <1>2, <1>p, LogFacts DEF Source!Facts
  <2>2. SUFFICES ASSUME log[next].kind # "Ready", next \notin parked
                 PROVE  CanSettle(next) /\ next \in Waiting
    BY <1>2
  <2>3. next \in Waiting
    <3>1. next \notin completed
      BY <1>p, <2>1
    <3> QED BY <2>1, <2>2, <3>1 DEF Waiting, Announced
  <2>4. Follows(active, t, next)
    <3>1. \A n \in active.checkpoint + 1 .. next : n = next
      BY <1>p
    <3> QED BY <3>1, <1>p, <2>1 DEF Follows, OnlyAbout
  <2>5. log[next].kind # "Created" => t \in Projected(active)
    <3> SUFFICES ASSUME log[next].kind # "Created"
                 PROVE  t \in TicketsAt(cp)
      BY <1>p
    <3>1. PICK m \in 1 .. next : log[m].ticket = t /\ log[m].kind = "Created"
      BY <1>p, <2>1 DEF CreatedBegins
    <3>2. m \in 1 .. cp
      BY <3>1, <1>p
    <3> QED BY <3>1, <3>2, <2>1 DEF TicketsAt, Facts
  <2>6. Verdict(next, active, next) # "retry"
    <3>1. next > active.checkpoint
      BY <2>1
    <3> HIDE DEF t, next
    <3> QED BY <2>4, <2>5, <3>1 DEF t, Verdict, CreatedVerdict, LifecycleVerdict
  <2> QED BY <2>1, <2>3, <2>6 DEF CanSettle
<1> QED BY <1>1, <1>2, <1>p

(* Consumption can only come to a stop behind a fact that no event         *)
(* announces or a creation that was given up, and only the creation of a   *)
(* ticket that has moved on is given up.                                   *)
THEOREM StopsAreExplained == QueueSpec => []StopsOnlyBehindSilence
<1>1. QInv => StopsOnlyBehindSilence
  BY WaitingSettles DEF QInv, GivenUp, StopsOnlyBehindSilence
<1> QED BY <1>1, QueueInvariance, PTL
=============================================================================
