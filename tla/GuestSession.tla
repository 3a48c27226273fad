---------------------------- MODULE GuestSession ----------------------------
(***************************************************************************)
(* The sessions of guests at a store, in PostgreSQL.                       *)
(*                                                                         *)
(* A guest who is admitted gets a session and its credentials, keeps it    *)
(* alive by using it, and exchanges it for a fresh one when its binding    *)
(* changes; it can be revoked.  Creations, exchanges and revocations       *)
(* carry an operation reference and leave an immutable result under it, so *)
(* that a repeat is answered instead of done.  Every call awaits the       *)
(* store, an admission or the binding in turn; between two awaits other    *)
(* calls go on.  A reply that is lost after its commit, or a commit whose  *)
(* outcome is unknown, leaves the guest with nothing.                      *)
(***************************************************************************)
EXTENDS Naturals

CONSTANTS
  Requests,         \* calls of the service, each made once
  Operations,       \* operation references
  Evidence,         \* references of entry requests and dining admissions
  IdleTimeout,      \* of a session, from its last use
  AbsoluteTimeout,  \* of a session, from its creation
  MaxVersion,       \* largest version of a session (2^31 - 1 in the code)
  MaxTime,          \* bound: clock
  None              \* null

ASSUME TimeAssumption ==
  IdleTimeout \in Nat \ {0} /\ AbsoluteTimeout \in Nat \ {0} /\ MaxTime \in Nat
ASSUME VersionAssumption == MaxVersion \in Nat \ {0}

(* A session reference is drawn afresh by the call that issues it, and so  *)
(* named after it.                                                         *)
Sessions == Requests
ASSUME NoneAssumption == None \notin Sessions \cup Operations \cup Evidence

Issues == {"Create", "Rotate", "Bind"}   \* calls that issue a session
Exchanges == {"Rotate", "Bind"}          \* in the place of another
Uses == {"Touch", "Authorize"}           \* calls that only use one
Kinds == Issues \cup Uses \cup {"Revoke"}

(* A call with what is hashed into its intent: the session whose           *)
(* credential it presents, the version expected and the evidence named.    *)
Commands == [kind : Kinds, operation : Operations \cup {None}, session : Sessions \cup {None},
             expected : Nat, evidence : Evidence \cup {None}]

Rows == [status : {"Active", "Revoked"}, version : 1..MaxVersion, bound : BOOLEAN,
         created : 0..MaxTime, seen : 0..MaxTime, from : Sessions \cup {None}, command : Commands]
Results == [command : Commands, session : Sessions, row : Rows]

Answers == {"none", "Issued", "AlreadyApplied", "Admitted", "Revoked", "VersionConflict",
            "IdempotencyConflict", "Unavailable"}
ASSUME NullAssumption == None \notin Rows \cup Commands

VARIABLES
  now,       \* the clock calls are stamped with
  sessions,  \* sessions[s]: row of session s, or None
  journal,   \* immutable results of operations
  consumed,  \* consumed[v]: the operation that used evidence v, or None
  command,   \* command[r]: what call r asks
  stamp,     \* stamp[r]: when it was made
  pc,        \* pc[r]: how far it is
  loaded,    \* loaded[r]: the row it found under its credential
  told,      \* told[r]: its answer
  former     \* former[r]: history: the sessions revoked before it was made

tables == <<sessions, journal>>
local == <<command, stamp, pc, loaded, told, former>>
vars == <<now, sessions, journal, consumed, command, stamp, pc, loaded, told, former>>

Reply(answer, s, row) == [answer |-> answer, session |-> s, row |-> row]

Init ==
  /\ now = 0
  /\ sessions = [s \in Sessions |-> None]
  /\ journal = {}
  /\ consumed = [v \in Evidence |-> None]
  /\ command = [r \in Requests |-> None]
  /\ stamp = [r \in Requests |-> 0]
  /\ pc = [r \in Requests |-> "idle"]
  /\ loaded = [r \in Requests |-> None]
  /\ told = [r \in Requests |-> Reply("none", None, None)]
  /\ former = [r \in Requests |-> {}]

(***************************************************************************)
(* Rows                                                                    *)
(***************************************************************************)

Existing == {s \in Sessions : sessions[s] # None}
Revoked == {s \in Existing : sessions[s].status = "Revoked"}

SlipUsable(row, at) ==   \* mutant: only the deadlines are looked at
  at < row.seen + IdleTimeout /\ at < row.created + AbsoluteTimeout
Usable(row, at) ==
  /\ row.status = "Active"
  /\ at < row.seen + IdleTimeout
  /\ at < row.created + AbsoluteTimeout

Fresh(c, at) ==
  [status |-> "Active", version |-> 1, bound |-> c.kind = "Bind", created |-> at, seen |-> at,
   from |-> c.session, command |-> c]
Retired(row) == [row EXCEPT !.status = "Revoked", !.version = @ + 1]
Touched(row, at) == [row EXCEPT !.seen = at, !.version = @ + 1]

(***************************************************************************)
(* Calls                                                                   *)
(***************************************************************************)

(* A guest has the credentials of the sessions whose issue reached him,    *)
(* and expects a version there has been.                                   *)
Held == {s \in Sessions : told[s].answer = "Issued"}
Asked ==
  {c \in [kind : Kinds, operation : Operations \cup {None}, session : Held \cup {None},
          expected : 0..MaxVersion, evidence : Evidence \cup {None}] :
     /\ c.session = None <=> c.kind = "Create"
     /\ c.operation = None <=> c.kind \in Uses
     /\ c.evidence = None <=> c.kind \notin Issues
     /\ IF c.kind \in Exchanges \cup {"Revoke"}
        THEN c.expected \in 1..sessions[c.session].version
        ELSE c.expected = 0}

(* The service stamps the call.                                            *)
Request(r) ==
  /\ pc[r] = "idle"
  /\ \E c \in Asked :
       /\ command' = [command EXCEPT ![r] = c]
       /\ pc' = [pc EXCEPT ![r] = IF c.kind \in {"Create", "Revoke"} THEN "resolved" ELSE "asked"]
  /\ stamp' = [stamp EXCEPT ![r] = now]
  /\ former' = [former EXCEPT ![r] = Revoked]
  /\ UNCHANGED <<now, tables, consumed, loaded, told>>

At(r, kinds, from) == pc[r] = from /\ command[r].kind \in kinds
Proceed(r, to) ==
  /\ pc' = [pc EXCEPT ![r] = to]
  /\ UNCHANGED <<now, tables, command, stamp, told, former>>

(* Call r ends with an answer.                                             *)
Answer(r, reply) ==
  /\ told' = [told EXCEPT ![r] = reply]
  /\ pc' = [pc EXCEPT ![r] = "done"]
  /\ loaded' = [loaded EXCEPT ![r] = None]
  /\ UNCHANGED <<now, command, stamp, former>>
Denial == Reply("Unavailable", None, None)
Refuse(r, answer) ==
  /\ Answer(r, Reply(answer, None, None))
  /\ UNCHANGED tables

(* A committed call may be answered as if it had failed.                   *)
AnswerCommitted(r, reply) == Answer(r, reply) \/ Answer(r, Denial)

(***************************************************************************)
(* Use of a session                                                        *)
(***************************************************************************)

LoadForUse(r) ==
  /\ At(r, Uses, "asked")
  /\ LET row == sessions[command[r].session]
     IN \/ /\ Usable(row, stamp[r])
           /\ loaded' = [loaded EXCEPT ![r] = row]
           /\ Proceed(r, "validating")
        \/ ~Usable(row, stamp[r]) /\ Refuse(r, "Unavailable")
  /\ UNCHANGED consumed

(* The binding of the session to store and table is still current.         *)
ValidateBinding(r) ==
  /\ At(r, Uses, "validating")
  /\ \/ command[r].kind = "Touch" /\ Proceed(r, "touching") /\ UNCHANGED loaded
     \/ /\ command[r].kind = "Authorize"
        /\ Answer(r, Reply("Admitted", command[r].session, loaded[r]))
        /\ UNCHANGED tables
  /\ UNCHANGED consumed

SlipTouches(row, version, at) ==   \* mutant: a late call is not told from a timely one
  row.version = version /\ version < MaxVersion /\ Usable(row, at)
Touches(row, version, at) ==
  /\ row.version = version
  /\ version < MaxVersion
  /\ row.seen <= at
  /\ Usable(row, at)
TouchInteractive(r) ==
  /\ At(r, Uses, "touching")
  /\ LET s == command[r].session
         row == Touched(sessions[s], stamp[r])
     IN \/ /\ Touches(sessions[s], loaded[r].version, stamp[r])
           /\ sessions' = [sessions EXCEPT ![s] = row]
           /\ AnswerCommitted(r, Reply("Admitted", s, row))
           /\ UNCHANGED journal
        \/ ~Touches(sessions[s], loaded[r].version, stamp[r]) /\ Refuse(r, "Unavailable")
  /\ UNCHANGED consumed

(***************************************************************************)
(* Creation, exchange and revocation                                       *)
(***************************************************************************)

LoadForExchange(r) ==
  /\ At(r, Exchanges, "asked")
  /\ loaded' = [loaded EXCEPT ![r] = sessions[command[r].session]]
  /\ Proceed(r, "resolved")
  /\ UNCHANGED consumed

SlipSameIntent(c, d) ==   \* mutant: intents are told apart by kind alone
  c.kind = d.kind
SameIntent(c, d) == c = d

(* What a call is answered when its operation led to row of session s      *)
(* before, on behalf of command c.                                         *)
ReplayReply(r, c, s, row) ==
  IF ~SameIntent(c, command[r]) THEN Reply("IdempotencyConflict", None, None)
  ELSE Reply(IF command[r].kind = "Revoke" THEN "Revoked" ELSE "AlreadyApplied", s, row)

(* The operation is looked up in the journal, ...                          *)
SearchJournal(r) ==
  /\ At(r, Kinds, "resolved")
  /\ LET found == {e \in journal : e.command.operation = command[r].operation}
     IN \/ found = {} /\ Proceed(r, "searched") /\ UNCHANGED loaded
        \/ \E e \in found :
             Answer(r, ReplayReply(r, e.command, e.session, e.row)) /\ UNCHANGED tables
  /\ UNCHANGED consumed

Misfit(r) == command[r].kind = "Bind" /\ loaded[r].bound
Outdated(r) == loaded[r].version # command[r].expected
Stale(r) == ~Usable(loaded[r], stamp[r])

(* ... then in the sessions as they are by now, each statement with a      *)
(* snapshot of its own; only then is the session found before judged.      *)
SearchSessions(r) ==
  /\ At(r, Kinds, "searched")
  /\ LET found == {s \in Existing : sessions[s].command.operation = command[r].operation}
         exchange == command[r].kind \in Exchanges
     IN \/ \E s \in found :
             Answer(r, ReplayReply(r, sessions[s].command, s, sessions[s])) /\ UNCHANGED tables
        \/ /\ found = {}
           /\ \/ /\ exchange => ~Stale(r) /\ ~Outdated(r) /\ ~Misfit(r)
                 /\ Proceed(r, IF command[r].kind = "Revoke" THEN "writing" ELSE "admitting")
                 /\ UNCHANGED loaded
              \/ exchange /\ ~Stale(r) /\ Outdated(r) /\ Refuse(r, "VersionConflict")
              \/ /\ exchange
                 /\ Stale(r) \/ (~Outdated(r) /\ Misfit(r))
                 /\ Refuse(r, "Unavailable")
  /\ UNCHANGED consumed

(* The owner of entry requests and dining admissions gives the evidence to *)
(* one operation, as often as that asks.                                   *)
MayConsume(v, op) == consumed[v] \in {None, op}
Admit(r) ==
  /\ At(r, Issues, "admitting")
  /\ MayConsume(command[r].evidence, command[r].operation)
  /\ consumed' = [consumed EXCEPT ![command[r].evidence] = command[r].operation]
  /\ Proceed(r, "writing")
  /\ UNCHANGED loaded

OpFree(op) ==
  /\ \A s \in Existing : sessions[s].command.operation # op
  /\ \A e \in journal : e.command.operation # op

Entry(c, s, row) == [command |-> c, session |-> s, row |-> row]

Insert(r) ==
  /\ At(r, {"Create"}, "writing")
  /\ LET row == Fresh(command[r], stamp[r])
     IN \/ /\ OpFree(command[r].operation)
           /\ sessions' = [sessions EXCEPT ![r] = row]
           /\ journal' = journal \cup {Entry(command[r], r, row)}
           /\ AnswerCommitted(r, Reply("Issued", r, row))
        \/ ~OpFree(command[r].operation) /\ Refuse(r, "Unavailable")
  /\ UNCHANGED consumed

(* The session of the command is locked for writing when it is active, has *)
(* the expected version and was last used no later than the call.          *)
SlipLockable(r) ==   \* mutant: the lock does not look at the session's status
  LET row == sessions[command[r].session]
  IN row.version = command[r].expected /\ row.version < MaxVersion /\ row.seen <= stamp[r]
Lockable(r) ==
  LET row == sessions[command[r].session]
  IN /\ row.status = "Active"
     /\ row.version = command[r].expected
     /\ row.version < MaxVersion
     /\ row.seen <= stamp[r]

(* A call that cannot write is told of the version, if that is the reason. *)
WriteRefused(r) ==
  LET row == sessions[command[r].session]
  IN IF /\ command[r].expected < MaxVersion
        /\ row.status = "Active"
        /\ row.version # command[r].expected
     THEN Refuse(r, "VersionConflict")
     ELSE Refuse(r, "Unavailable")

SlipMayReplace(r) ==   \* mutant: the session found before is not judged again
  OpFree(command[r].operation)
MayReplace(r) ==
  /\ Lockable(r)
  /\ Usable(sessions[command[r].session], stamp[r])
  /\ command[r].kind = "Bind" => ~sessions[command[r].session].bound
  /\ OpFree(command[r].operation)

(* One transaction retires the old session, inserts the fresh one and      *)
(* keeps the result.                                                       *)
Replace(r) ==
  /\ At(r, Exchanges, "writing")
  /\ LET old == command[r].session
         row == Fresh(command[r], stamp[r])
     IN \/ /\ MayReplace(r)
           /\ sessions' = [sessions EXCEPT ![old] = Retired(sessions[old]), ![r] = row]
           /\ journal' = journal \cup {Entry(command[r], r, row)}
           /\ AnswerCommitted(r, Reply("Issued", r, row))
        \/ ~MayReplace(r) /\ WriteRefused(r)
  /\ UNCHANGED consumed

(* A session can be revoked after its deadlines too.                       *)
MayRevoke(r) == Lockable(r) /\ OpFree(command[r].operation)
Revoke(r) ==
  /\ At(r, {"Revoke"}, "writing")
  /\ LET s == command[r].session
         row == Retired(sessions[s])
     IN \/ /\ MayRevoke(r)
           /\ sessions' = [sessions EXCEPT ![s] = row]
           /\ journal' = journal \cup {Entry(command[r], s, row)}
           /\ AnswerCommitted(r, Reply("Revoked", s, row))
        \/ ~MayRevoke(r) /\ WriteRefused(r)
  /\ UNCHANGED consumed

(* Whatever a call awaits may fail or refuse it, with nothing done; so may *)
(* an answer that does not parse or fit.                                   *)
Fail(r) ==
  /\ pc[r] \notin {"idle", "done"}
  /\ Refuse(r, "Unavailable")
  /\ UNCHANGED consumed

Tick ==
  /\ now < MaxTime
  /\ now' = now + 1
  /\ UNCHANGED <<tables, consumed, local>>

Act(r) ==
  \/ Request(r) \/ LoadForUse(r) \/ ValidateBinding(r) \/ TouchInteractive(r)
  \/ LoadForExchange(r) \/ SearchJournal(r) \/ SearchSessions(r) \/ Admit(r)
  \/ Insert(r) \/ Replace(r) \/ Revoke(r) \/ Fail(r)
Next == Tick \/ \E r \in Requests : Act(r)

Spec == Init /\ [][Next]_vars

(***************************************************************************)
(* Properties                                                              *)
(***************************************************************************)

TypeOK ==
  /\ now \in 0..MaxTime
  /\ sessions \in [Sessions -> Rows \cup {None}]
  /\ journal \subseteq Results
  /\ consumed \in [Evidence -> Operations \cup {None}]
  /\ command \in [Requests -> Commands \cup {None}]
  /\ stamp \in [Requests -> 0..MaxTime]
  /\ pc \in [Requests -> {"idle", "asked", "resolved", "searched", "admitting", "writing",
                         "validating", "touching", "done"}]
  /\ loaded \in [Requests -> Rows \cup {None}]
  /\ told \in [Requests -> [answer : Answers, session : Sessions \cup {None},
                           row : Rows \cup {None}]]
  /\ former \in [Requests -> SUBSET Sessions]

(* The immutable results explain the sessions: operations are told apart,  *)
(* every session has the result of its issue, and a session is revoked by  *)
(* exactly one exchange or revocation on record.                           *)
EndedBy(s) ==
  {e \in journal : /\ e.command.kind \in Exchanges \cup {"Revoke"}
                   /\ e.command.session = s}
OneResultPerOperation ==
  \A d, e \in journal : d.command.operation = e.command.operation => d = e
IssuesOnRecord ==
  \A s \in Existing :
    \E e \in journal : e.session = s /\ e.command = sessions[s].command /\ e.row.version = 1
EndsOnRecord ==
  \A s \in Sessions :
    /\ s \in Revoked => EndedBy(s) # {}
    /\ \A d, e \in EndedBy(s) : d = e /\ s \in Revoked
JournalHolds == OneResultPerOperation /\ IssuesOnRecord /\ EndsOnRecord

Told(r, answer) == told[r].answer = answer

(* What a guest is told is so: an issue names the session the call itself  *)
(* left on record, a repeat a result the same command had, a conflict of   *)
(* operations another command's, a conflict of versions a session that has *)
(* moved past the expected one.                                            *)
AnswerIsTrue(r) ==
  LET mine == {e \in journal : e.command.operation = command[r].operation}
  IN /\ Told(r, "Issued") =>
          \E e \in mine : e = Entry(command[r], r, told[r].row) /\ r \in Existing
     /\ Told(r, "AlreadyApplied") \/ Told(r, "Revoked") =>
          \E e \in mine : e.command = command[r] /\ e.session = told[r].session
     /\ Told(r, "IdempotencyConflict") => \E e \in mine : e.command # command[r]
     /\ Told(r, "VersionConflict") =>
          /\ command[r].session \in Existing
          /\ sessions[command[r].session].version > command[r].expected
AnswersAreTrue == \A r \in Requests : AnswerIsTrue(r)

(* A session that is revoked is of no use to any later call, of either     *)
(* kind: "the former selector becomes immediately unusable".               *)
HasNoFormer(r) ==
  /\ Told(r, "Admitted") => told[r].session \notin former[r]
  /\ Told(r, "Issued") => command[r].session \notin former[r]
FormerIsDenied == \A r \in Requests : HasNoFormer(r)

(* An entry request or dining admission makes one session at most, however *)
(* often its operation is repeated and whichever repeats race.             *)
OneSessionPerEvidence ==
  \A s, t \in Existing :
    sessions[s].command.evidence = sessions[t].command.evidence => s = t

(* However calls race, fail and are repeated, the sessions are those the   *)
(* journal tells of, and those that were admitted.                         *)
SessionsAreOnRecord == JournalHolds /\ OneSessionPerEvidence

(* The sessions of a store are lineages with one live session each.        *)
Standing ==
  [s \in Sessions |-> IF sessions[s] = None THEN "none"
                      ELSE IF sessions[s].status = "Active" THEN "live" ELSE "gone"]
Parent == [s \in Sessions |-> IF sessions[s] = None THEN None ELSE sessions[s].from]
Lineage == INSTANCE SessionLineage WITH standing <- Standing, parent <- Parent
ImplementsLineage == Lineage!Spec

(* No call that comes late takes a session back: it keeps the time of its  *)
(* last use or moves it on, a change is a higher version, a retired        *)
(* session never changes, and a session is no older than the use of the    *)
(* one it replaces.                                                        *)
SeenMovesForward ==
  [][\A s \in Existing :
       /\ sessions'[s] # None
       /\ sessions'[s].seen >= sessions[s].seen
       /\ sessions'[s] # sessions[s] =>
            sessions[s].status = "Active" /\ sessions'[s].version > sessions[s].version
       /\ \A t \in Sessions \ Existing :
            sessions'[t] # None /\ sessions'[t].from = s =>
              sessions'[t].created >= sessions[s].seen]_vars
=============================================================================
