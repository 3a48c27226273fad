------------------------- MODULE GuestSessionProofs -------------------------
(* Proofs about GuestSession, for any calls, operations, evidence and      *)
(* deadlines.                                                              *)
EXTENDS GuestSession, TLAPS

(* What a call asks, once it is made.                                      *)
Sound(c) ==
  /\ c \in Commands
  /\ c.kind = "Create" => c.session = None
  /\ c.kind # "Create" => c.session \in Existing /\ c.expected <= sessions[c.session].version
  /\ c.kind \notin Uses => c.operation \in Operations
  /\ c.kind \in Issues => c.evidence \in Evidence

(* How far a call is says what it has found out: a user of a session has   *)
(* seen it active, an exchanger a version it has had, an issuer about to   *)
(* write has the evidence.                                                 *)
Searching == {"resolved", "searched", "admitting", "writing"}
Using == {"validating", "touching"}
CallHolds(r) ==
  /\ pc[r] # "done" => told[r].answer = "none"
  /\ pc[r] # "idle" => Sound(command[r])
  /\ pc[r] = "asked" => command[r].kind \in Exchanges \cup Uses
  /\ pc[r] \in Using =>
       command[r].kind \in Uses /\ loaded[r] \in Rows /\ command[r].session \notin former[r]
  /\ pc[r] \in Searching =>
       /\ command[r].kind \notin Uses
       /\ command[r].kind \in Exchanges =>
            /\ loaded[r] \in Rows
            /\ command[r].expected <= loaded[r].version
            /\ loaded[r].version <= sessions[command[r].session].version
  /\ pc[r] = "writing" /\ command[r].kind \in Issues =>
       consumed[command[r].evidence] = command[r].operation
  /\ former[r] \subseteq Revoked
CallsHold == \A r \in Requests : CallHolds(r)

(* A session is the work of the finished call it is named after, which     *)
(* used its evidence.                                                      *)
RowHolds(s) ==
  /\ pc[s] = "done"
  /\ sessions[s].command = command[s]
  /\ sessions[s].from = command[s].session
  /\ command[s].kind \in Issues
  /\ consumed[command[s].evidence] = command[s].operation
RowsHold == \A s \in Existing : RowHolds(s)

IInv ==
  /\ TypeOK
  /\ CallsHold
  /\ RowsHold
  /\ JournalHolds
  /\ AnswersAreTrue
  /\ FormerIsDenied

-----------------------------------------------------------------------------
(* Rows                                                                    *)

LEMMA RowTypes ==
  /\ \A c \in Commands, at \in 0..MaxTime : Fresh(c, at) \in Rows
  /\ \A row \in Rows : row.version < MaxVersion => Retired(row) \in Rows
  /\ \A row \in Rows, at \in 0..MaxTime : row.version < MaxVersion => Touched(row, at) \in Rows
<1>1. 1 \in 1..MaxVersion
  BY VersionAssumption
<1>2. \A v \in 1..MaxVersion : v < MaxVersion => v + 1 \in 1..MaxVersion
  BY VersionAssumption
<1>3. \A c \in Commands, at \in 0..MaxTime : Fresh(c, at) \in Rows
  BY <1>1 DEF Fresh, Rows, Commands
<1>4. \A row \in Rows : row.version < MaxVersion => Retired(row) \in Rows
  BY <1>2 DEF Retired, Rows
<1>5. \A row \in Rows, at \in 0..MaxTime : row.version < MaxVersion => Touched(row, at) \in Rows
  BY <1>2 DEF Touched, Rows
<1> QED BY <1>3, <1>4, <1>5

LEMMA RowFields ==
  ASSUME NEW row \in Rows
  PROVE  /\ row # None
         /\ row.version \in Nat
         /\ row.seen \in Nat
         /\ row.status \in {"Active", "Revoked"}
BY NullAssumption, VersionAssumption, TimeAssumption DEF Rows

LEMMA ExistingRows ==
  ASSUME TypeOK
  PROVE  /\ Existing \subseteq Sessions
         /\ \A s \in Existing : sessions[s] \in Rows
BY DEF TypeOK, Existing

-----------------------------------------------------------------------------
(* The four ways in which the tables change.                               *)

DoTouch(r) ==
  /\ At(r, Uses, "touching")
  /\ Touches(sessions[command[r].session], loaded[r].version, stamp[r])
  /\ sessions' = [sessions EXCEPT ![command[r].session] = Touched(@, stamp[r])]
  /\ UNCHANGED <<journal, consumed>>
DoInsert(r) ==
  /\ At(r, {"Create"}, "writing")
  /\ OpFree(command[r].operation)
  /\ sessions' = [sessions EXCEPT ![r] = Fresh(command[r], stamp[r])]
  /\ journal' = journal \cup {Entry(command[r], r, Fresh(command[r], stamp[r]))}
  /\ UNCHANGED consumed
DoReplace(r) ==
  /\ At(r, Exchanges, "writing")
  /\ MayReplace(r)
  /\ sessions' = [sessions EXCEPT ![command[r].session] = Retired(sessions[command[r].session]),
                                  ![r] = Fresh(command[r], stamp[r])]
  /\ journal' = journal \cup {Entry(command[r], r, Fresh(command[r], stamp[r]))}
  /\ UNCHANGED consumed
DoRevoke(r) ==
  /\ At(r, {"Revoke"}, "writing")
  /\ MayRevoke(r)
  /\ sessions' = [sessions EXCEPT ![command[r].session] = Retired(@)]
  /\ journal' = journal \cup
                  {Entry(command[r], command[r].session, Retired(sessions[command[r].session]))}
  /\ UNCHANGED consumed
Finishes(r) ==
  /\ pc' = [pc EXCEPT ![r] = "done"]
  /\ UNCHANGED command

(* A step leaves the tables alone or is one of the four.                   *)
LEMMA Writes ==
  ASSUME Next
  PROVE  \/ UNCHANGED tables
         \/ \E r \in Requests :
              (DoTouch(r) \/ DoInsert(r) \/ DoReplace(r) \/ DoRevoke(r)) /\ Finishes(r)
<1>1. CASE Tick
  BY <1>1 DEF Tick
<1>2. ASSUME NEW r \in Requests, Act(r)
      PROVE  \/ UNCHANGED tables
             \/ (DoTouch(r) \/ DoInsert(r) \/ DoReplace(r) \/ DoRevoke(r)) /\ Finishes(r)
  <2>1. CASE Request(r) \/ LoadForExchange(r) \/ Fail(r) \/ Admit(r)
    BY <2>1 DEF Request, LoadForExchange, Fail, Admit, Refuse, Proceed
  <2>2. CASE LoadForUse(r) \/ ValidateBinding(r)
    BY <2>2 DEF LoadForUse, ValidateBinding, Refuse, Proceed
  <2>3. CASE SearchJournal(r) \/ SearchSessions(r)
    BY <2>3 DEF SearchJournal, SearchSessions, Refuse, Proceed
  <2>4. CASE TouchInteractive(r)
    BY <2>4 DEF TouchInteractive, DoTouch, Finishes, Refuse, AnswerCommitted, Answer
  <2>5. CASE Insert(r)
    BY <2>5 DEF Insert, DoInsert, Finishes, Refuse, AnswerCommitted, Answer
  <2>6. CASE Replace(r)
    BY <2>6 DEF Replace, DoReplace, Finishes, WriteRefused, Refuse, AnswerCommitted, Answer
  <2>7. CASE Revoke(r)
    BY <2>7 DEF Revoke, DoRevoke, Finishes, WriteRefused, Refuse, AnswerCommitted, Answer
  <2> QED BY <1>2, <2>1, <2>2, <2>3, <2>4, <2>5, <2>6, <2>7 DEF Act
<1> QED BY <1>1, <1>2 DEF Next

(* What each of the four does to the rows.                                 *)
LEMMA TouchRow ==
  ASSUME IInv, NEW r \in Requests, DoTouch(r)
  PROVE  LET s == command[r].session IN
         /\ s \in Existing /\ sessions[s].status = "Active" /\ sessions[s].seen <= stamp[r]
         /\ sessions[s].version < MaxVersion
         /\ sessions'[s] = Touched(sessions[s], stamp[r])
         /\ sessions'[s] \in Rows
         /\ \A t \in Sessions \ {s} : sessions'[t] = sessions[t]
         /\ sessions' \in [Sessions -> Rows \cup {None}]
<1>1. Sound(command[r]) /\ command[r].kind # "Create" /\ stamp[r] \in 0..MaxTime
  BY DEF IInv, CallsHold, CallHolds, DoTouch, At, Uses, TypeOK
<1>2. command[r].session \in Existing /\ sessions[command[r].session] \in Rows
  BY <1>1, ExistingRows DEF Sound, IInv
<1>3. Touched(sessions[command[r].session], stamp[r]) \in Rows
  BY <1>1, <1>2, RowTypes DEF DoTouch, Touches
<1> QED
  BY <1>2, <1>3 DEF DoTouch, Touches, Usable, IInv, TypeOK, Existing

LEMMA InsertRow ==
  ASSUME IInv, NEW r \in Requests, DoInsert(r)
  PROVE  /\ r \in Sessions \ Existing
         /\ command[r].session = None
         /\ sessions'[r] = Fresh(command[r], stamp[r])
         /\ sessions'[r] \in Rows
         /\ \A t \in Sessions \ {r} : sessions'[t] = sessions[t]
         /\ sessions' \in [Sessions -> Rows \cup {None}]
<1>1. Sound(command[r]) /\ stamp[r] \in 0..MaxTime /\ r \notin Existing
  BY DEF IInv, CallsHold, CallHolds, DoInsert, At, TypeOK, RowsHold, RowHolds
<1>2. Fresh(command[r], stamp[r]) \in Rows /\ command[r].session = None
  BY <1>1, RowTypes DEF Sound, DoInsert, At
<1> QED
  BY <1>1, <1>2 DEF DoInsert, IInv, TypeOK, Sessions

LEMMA ReplaceRow ==
  ASSUME IInv, NEW r \in Requests, DoReplace(r)
  PROVE  LET s == command[r].session IN
         /\ r \in Sessions \ Existing
         /\ s \in Existing /\ s # r /\ sessions[s].status = "Active" /\ sessions[s].seen <= stamp[r]
         /\ sessions[s].version < MaxVersion
         /\ sessions'[r] = Fresh(command[r], stamp[r])
         /\ sessions'[s] = Retired(sessions[s])
         /\ sessions'[r] \in Rows /\ sessions'[s] \in Rows
         /\ \A t \in Sessions \ {r, s} : sessions'[t] = sessions[t]
         /\ sessions' \in [Sessions -> Rows \cup {None}]
<1>1. Sound(command[r]) /\ command[r].kind # "Create" /\ stamp[r] \in 0..MaxTime /\ r \notin Existing
  BY DEF IInv, CallsHold, CallHolds, DoReplace, At, TypeOK, RowsHold, RowHolds, Exchanges
<1>2. /\ command[r].session \in Existing /\ sessions[command[r].session] \in Rows
      /\ command[r] \in Commands
  BY <1>1, ExistingRows DEF Sound, IInv
<1>3. Lockable(r)
  BY DEF DoReplace, MayReplace
<1>4. Retired(sessions[command[r].session]) \in Rows /\ Fresh(command[r], stamp[r]) \in Rows
  BY <1>1, <1>2, <1>3, RowTypes DEF Lockable
<1> QED
  BY <1>1, <1>2, <1>3, <1>4 DEF DoReplace, Lockable, IInv, TypeOK, Sessions, Existing

LEMMA RevokeRow ==
  ASSUME IInv, NEW r \in Requests, DoRevoke(r)
  PROVE  LET s == command[r].session IN
         /\ s \in Existing /\ sessions[s].status = "Active" /\ sessions[s].seen <= stamp[r]
         /\ sessions[s].version < MaxVersion
         /\ sessions'[s] = Retired(sessions[s])
         /\ sessions'[s] \in Rows
         /\ \A t \in Sessions \ {s} : sessions'[t] = sessions[t]
         /\ sessions' \in [Sessions -> Rows \cup {None}]
<1>1. Sound(command[r]) /\ command[r].kind # "Create"
  BY DEF IInv, CallsHold, CallHolds, DoRevoke, At
<1>2. command[r].session \in Existing /\ sessions[command[r].session] \in Rows
  BY <1>1, ExistingRows DEF Sound, IInv
<1>3. Lockable(r)
  BY DEF DoRevoke, MayRevoke
<1>4. Retired(sessions[command[r].session]) \in Rows
  BY <1>2, <1>3, RowTypes DEF Lockable
<1> QED
  BY <1>2, <1>3, <1>4 DEF DoRevoke, Lockable, IInv, TypeOK, Existing

-----------------------------------------------------------------------------
(* Sessions stay, keep what issued them, and age.                          *)

LEMMA RowUpdates ==
  ASSUME NEW row \in Rows, NEW at \in Nat
  PROVE  /\ Retired(row).version > row.version /\ Touched(row, at).version > row.version
         /\ Retired(row).status = "Revoked" /\ Touched(row, at).status = row.status
         /\ Retired(row).command = row.command /\ Touched(row, at).command = row.command
         /\ Retired(row).from = row.from /\ Touched(row, at).from = row.from
         /\ Retired(row).seen = row.seen /\ Touched(row, at).seen = at
BY VersionAssumption DEF Retired, Touched, Rows

LEMMA FreshFields ==
  ASSUME NEW c, NEW at
  PROVE  /\ Fresh(c, at).version = 1 /\ Fresh(c, at).status = "Active"
         /\ Fresh(c, at).command = c /\ Fresh(c, at).from = c.session
         /\ Fresh(c, at).created = at
BY DEF Fresh

Aged(s) ==
  /\ sessions'[s] # None
  /\ sessions'[s].version >= sessions[s].version
  /\ sessions[s].status = "Revoked" => sessions'[s] = sessions[s]
  /\ sessions'[s].command = sessions[s].command
  /\ sessions'[s].from = sessions[s].from

LEMMA RowsAge ==
  ASSUME IInv, Next, NEW s \in Existing
  PROVE  Aged(s)
<1>0. s \in Sessions /\ sessions[s] \in Rows /\ sessions[s] # None /\ sessions[s].version \in Nat
  BY ExistingRows, RowFields DEF IInv
<1>1. CASE sessions'[s] = sessions[s]
  BY <1>0, <1>1 DEF Aged
<1>2. ASSUME NEW r \in Requests, DoTouch(r) \/ DoRevoke(r) \/ DoReplace(r), sessions'[s] # sessions[s]
      PROVE  Aged(s)
  <2>0. stamp[r] \in Nat
    BY TimeAssumption DEF IInv, TypeOK
  <2>1. /\ sessions[s].status = "Active" /\ sessions'[s] \in Rows
        /\ sessions'[s] \in {Touched(sessions[s], stamp[r]), Retired(sessions[s])}
    BY <1>0, <1>2, TouchRow, RevokeRow, ReplaceRow
  <2> QED BY <1>0, <2>0, <2>1, RowUpdates, RowFields DEF Aged
<1>3. ASSUME NEW r \in Requests, DoInsert(r) PROVE sessions'[s] = sessions[s]
  BY <1>0, <1>3, InsertRow
<1> QED BY <1>1, <1>2, <1>3, Writes DEF tables

(* What grows from one step to the next.                                   *)
Grown ==
  /\ \A s \in Existing : Aged(s)
  /\ Existing \subseteq Existing'
  /\ Revoked \subseteq Revoked'
  /\ journal \subseteq journal'
  /\ \A v \in Evidence : consumed[v] # None => consumed'[v] = consumed[v]

LEMMA Growth ==
  ASSUME IInv, Next
  PROVE  Grown
<1>1. \A s \in Existing : Aged(s)
  BY RowsAge
<1>2. Existing \subseteq Existing'
  BY <1>1 DEF Aged, Existing
<1>3. Revoked \subseteq Revoked'
  BY <1>1, <1>2 DEF Aged, Revoked
<1>4. journal \subseteq journal'
  BY Writes DEF tables, DoTouch, DoInsert, DoReplace, DoRevoke
<1>5. ASSUME NEW v \in Evidence, consumed[v] # None PROVE consumed'[v] = consumed[v]
  <2>1. CASE \E r \in Requests : Admit(r)
    BY <1>5, <2>1 DEF Admit, MayConsume, IInv, TypeOK
  <2>2. CASE ~\E r \in Requests : Admit(r)
    BY <2>2 DEF Next, Tick, Act, Request, LoadForUse, ValidateBinding, TouchInteractive,
                LoadForExchange, SearchJournal, SearchSessions, Insert, Replace, Revoke, Fail
  <2> QED BY <2>1, <2>2
<1> QED BY <1>1, <1>2, <1>3, <1>4, <1>5 DEF Grown

-----------------------------------------------------------------------------
(* The journal                                                             *)

LEMMA EntryFields ==
  ASSUME NEW c, NEW s, NEW row
  PROVE  /\ Entry(c, s, row).command = c /\ Entry(c, s, row).session = s
         /\ Entry(c, s, row).row = row
BY DEF Entry

LEMMA OperationsStep ==
  ASSUME IInv, Next
  PROVE  OneResultPerOperation'
<1>1. CASE journal' = journal
  BY <1>1 DEF IInv, JournalHolds, OneResultPerOperation
<1>2. ASSUME NEW r \in Requests, OpFree(command[r].operation),
             NEW s, NEW row, journal' = journal \cup {Entry(command[r], s, row)}
      PROVE  OneResultPerOperation'
  BY <1>2, EntryFields DEF IInv, JournalHolds, OneResultPerOperation, OpFree
<1> QED
  BY <1>1, <1>2, Writes DEF tables, DoTouch, DoInsert, DoReplace, DoRevoke, MayReplace, MayRevoke

LEMMA IssuesStep ==
  ASSUME IInv, Next
  PROVE  IssuesOnRecord'
<1> SUFFICES ASSUME NEW s \in Existing'
             PROVE  \E e \in journal' : /\ e.session = s /\ e.row.version = 1
                                        /\ e.command = sessions'[s].command
  BY DEF IssuesOnRecord
<1>1. CASE s \in Existing
  <2>1. sessions'[s].command = sessions[s].command /\ journal \subseteq journal'
    BY <1>1, Growth DEF Grown, Aged
  <2> QED BY <1>1, <2>1 DEF IInv, JournalHolds, IssuesOnRecord
<1>2. CASE s \notin Existing
  <2>0. s \in Sessions /\ sessions[s] = None /\ sessions'[s] # None
    BY <1>2 DEF Existing
  <2>1. PICK r \in Requests : DoTouch(r) \/ DoInsert(r) \/ DoReplace(r) \/ DoRevoke(r)
    BY <2>0, Writes DEF tables
  <2>2. s = r /\ (DoInsert(r) \/ DoReplace(r)) /\ sessions'[s] = Fresh(command[r], stamp[r])
    BY <1>2, <2>0, <2>1, TouchRow, InsertRow, ReplaceRow, RevokeRow
  <2>3. Entry(command[r], r, Fresh(command[r], stamp[r])) \in journal'
    BY <2>2 DEF DoInsert, DoReplace
  <2> QED BY <2>2, <2>3, EntryFields, FreshFields
<1> QED BY <1>1, <1>2

(* A session has an end on record when and only when it is revoked.        *)
LEMMA EndsStep ==
  ASSUME IInv, Next
  PROVE  EndsOnRecord'
<1>0. EndsOnRecord /\ Revoked \subseteq Revoked'
  BY Growth DEF IInv, JournalHolds, Grown
<1>1. CASE journal' = journal /\ Revoked' = Revoked
  BY <1>0, <1>1 DEF EndsOnRecord, EndedBy
<1>2. CASE UNCHANGED tables
  BY <1>1, <1>2 DEF tables, Revoked, Existing
<1>3. ASSUME NEW r \in Requests, DoTouch(r) PROVE EndsOnRecord'
  <2>1. \A s \in Sessions : /\ sessions'[s] = None <=> sessions[s] = None
                            /\ sessions[s] # None => sessions'[s].status = sessions[s].status
    <3>1. stamp[r] \in Nat
      BY TimeAssumption DEF IInv, TypeOK
    <3> QED BY <1>3, <3>1, TouchRow, ExistingRows, RowUpdates, RowFields DEF IInv, Existing
  <2>2. Revoked' = Revoked
    BY <2>1 DEF Revoked, Existing
  <2> QED BY <1>1, <1>3, <2>2 DEF DoTouch
<1>4. ASSUME NEW r \in Requests, DoInsert(r) PROVE EndsOnRecord'
  <2>1. Revoked' = Revoked
    BY <1>4, InsertRow, FreshFields DEF Revoked, Existing
  <2>2. ASSUME NEW s \in Sessions PROVE EndedBy(s)' = EndedBy(s)
    BY <1>4, EntryFields DEF EndedBy, DoInsert, At, Exchanges
  <2> QED BY <1>0, <2>1, <2>2 DEF EndsOnRecord
<1>5. ASSUME NEW r \in Requests, DoReplace(r) \/ DoRevoke(r) PROVE EndsOnRecord'
  <2>0. PICK old : old = command[r].session
    OBVIOUS
  <2>1. /\ old \in Existing /\ sessions[old].status = "Active"
        /\ sessions'[old] = Retired(sessions[old]) /\ sessions'[old] \in Rows
        /\ sessions[old] \in Rows
    BY <1>5, <2>0, ReplaceRow, RevokeRow, ExistingRows DEF IInv
  <2>2. old \in Revoked' /\ old \notin Revoked
    BY <2>1, RowUpdates, RowFields, TimeAssumption DEF Revoked, Existing
  <2>3. Revoked' = Revoked \cup {old}
    BY <1>5, <2>0, <2>1, <2>2, ReplaceRow, RevokeRow, FreshFields DEF Revoked, Existing
  <2>4. PICK e : /\ journal' = journal \cup {e}
                 /\ e.command = command[r]
    BY <1>5, EntryFields DEF DoReplace, DoRevoke
  <2>5. command[r].kind \in Exchanges \cup {"Revoke"}
    BY <1>5 DEF DoReplace, DoRevoke, At
  <2>6. EndedBy(old) = {}
    BY <1>0, <2>1, <2>2 DEF EndsOnRecord, Existing
  <2>7. EndedBy(old)' = {e}
    BY <2>0, <2>4, <2>5, <2>6 DEF EndedBy
  <2>8. ASSUME NEW s \in Sessions, s # old PROVE EndedBy(s)' = EndedBy(s)
    BY <2>0, <2>4, <2>8 DEF EndedBy
  <2>9. ASSUME NEW s \in Sessions
        PROVE  (s \in Revoked => EndedBy(s) # {})' /\ (\A d, f \in EndedBy(s) : d = f /\ s \in Revoked)'
    BY <1>0, <2>2, <2>3, <2>7, <2>8 DEF EndsOnRecord
  <2> QED BY <2>9 DEF EndsOnRecord
<1> QED BY <1>2, <1>3, <1>4, <1>5, Writes

LEMMA JournalStep ==
  ASSUME IInv, Next
  PROVE  JournalHolds'
BY OperationsStep, IssuesStep, EndsStep DEF JournalHolds

-----------------------------------------------------------------------------
(* Types                                                                   *)

LEMMA TablesType ==
  ASSUME IInv, Next
  PROVE  sessions' \in [Sessions -> Rows \cup {None}] /\ journal' \subseteq Results
<1>0. sessions \in [Sessions -> Rows \cup {None}] /\ journal \subseteq Results
  BY DEF IInv, TypeOK
<1>1. ASSUME NEW r \in Requests, NEW s \in Sessions, NEW row \in Rows, command[r] \in Commands,
             journal' = journal \cup {Entry(command[r], s, row)}
      PROVE  journal' \subseteq Results
  BY <1>0, <1>1 DEF Entry, Results
<1>2. ASSUME NEW r \in Requests, pc[r] # "idle" PROVE command[r] \in Commands
  BY <1>2 DEF IInv, CallsHold, CallHolds, Sound
<1>3. ASSUME NEW r \in Requests, DoTouch(r)
      PROVE  sessions' \in [Sessions -> Rows \cup {None}] /\ journal' \subseteq Results
  BY <1>0, <1>3, TouchRow DEF DoTouch
<1>4. ASSUME NEW r \in Requests, DoInsert(r)
      PROVE  sessions' \in [Sessions -> Rows \cup {None}] /\ journal' \subseteq Results
  BY <1>1, <1>2, <1>4, InsertRow DEF DoInsert, At
<1>5. ASSUME NEW r \in Requests, DoReplace(r)
      PROVE  sessions' \in [Sessions -> Rows \cup {None}] /\ journal' \subseteq Results
  BY <1>1, <1>2, <1>5, ReplaceRow DEF DoReplace, At
<1>6. ASSUME NEW r \in Requests, DoRevoke(r)
      PROVE  sessions' \in [Sessions -> Rows \cup {None}] /\ journal' \subseteq Results
  BY <1>1, <1>2, <1>6, RevokeRow, ExistingRows DEF DoRevoke, At, IInv
<1> QED BY <1>0, <1>3, <1>4, <1>5, <1>6, Writes DEF tables

(* What a call of a session can ask is sound.                              *)
LEMMA AskedIsSound ==
  ASSUME IInv, NEW c \in Asked
  PROVE  Sound(c) /\ c.kind \in Kinds
<1>1. \A s \in Held : s \in Existing /\ sessions[s].version \in Nat
  BY ExistingRows, RowFields DEF Held, IInv, AnswersAreTrue, AnswerIsTrue, Told, Sessions
<1>2. /\ c.session \in Held \cup {None} /\ c.kind \in Kinds /\ c.expected \in Nat
      /\ c.operation \in Operations \cup {None} /\ c.evidence \in Evidence \cup {None}
  BY VersionAssumption DEF Asked
<1>3. c \in Commands
  BY VersionAssumption DEF Asked, Commands, Held
<1>4. c.kind = "Create" => c.session = None
  BY DEF Asked
<1>5. c.kind # "Create" => c.session \in Existing /\ c.expected <= sessions[c.session].version
  <2> SUFFICES ASSUME c.kind # "Create"
               PROVE  c.session \in Existing /\ c.expected <= sessions[c.session].version
    OBVIOUS
  <2>1. c.session \in Existing /\ sessions[c.session].version \in Nat
    BY <1>1, <1>2 DEF Asked
  <2>2. c.expected = 0 \/ c.expected \in 1..sessions[c.session].version
    BY DEF Asked
  <2> QED BY <2>1, <2>2
<1>6. /\ c.kind \notin Uses => c.operation \in Operations
      /\ c.kind \in Issues => c.evidence \in Evidence
  BY <1>2 DEF Asked
<1> QED BY <1>2, <1>3, <1>4, <1>5, <1>6 DEF Sound

LEMMA ReplyType ==
  ASSUME NEW a \in Answers, NEW s \in Sessions \cup {None}, NEW row \in Rows \cup {None}
  PROVE  Reply(a, s, row) \in [answer : Answers, session : Sessions \cup {None},
                               row : Rows \cup {None}]
BY DEF Reply

LEMMA ReplyFields ==
  ASSUME NEW a, NEW s, NEW row
  PROVE  Reply(a, s, row).answer = a /\ Reply(a, s, row).session = s /\ Reply(a, s, row).row = row
BY DEF Reply

(* The types of what one call holds.                                       *)
LocalType ==
  /\ command \in [Requests -> Commands \cup {None}]
  /\ stamp \in [Requests -> 0..MaxTime]
  /\ pc \in [Requests -> {"idle", "asked", "resolved", "searched", "admitting", "writing",
                         "validating", "touching", "done"}]
  /\ loaded \in [Requests -> Rows \cup {None}]
  /\ told \in [Requests -> [answer : Answers, session : Sessions \cup {None},
                           row : Rows \cup {None}]]
  /\ former \in [Requests -> SUBSET Sessions]

LEMMA AnsweredType ==
  ASSUME LocalType, NEW r \in Requests, NEW a \in Answers, NEW s \in Sessions \cup {None},
         NEW row \in Rows \cup {None},
         Answer(r, Reply(a, s, row)) \/ Answer(r, Denial)
  PROVE  LocalType'
<1>1. Reply(a, s, row) \in [answer : Answers, session : Sessions \cup {None},
                            row : Rows \cup {None}]
  BY ReplyType
<1>2. Denial \in [answer : Answers, session : Sessions \cup {None}, row : Rows \cup {None}]
  BY ReplyType DEF Denial, Answers
<1>3. PICK x \in [answer : Answers, session : Sessions \cup {None}, row : Rows \cup {None}] :
         Answer(r, x)
  BY <1>1, <1>2
<1> QED BY <1>3 DEF LocalType, Answer

LEMMA RefusedType ==
  ASSUME LocalType, NEW r \in Requests, NEW a \in Answers, Refuse(r, a)
  PROVE  LocalType'
BY AnsweredType DEF Refuse

LEMMA ProceedType ==
  ASSUME LocalType, NEW r \in Requests, NEW row \in Rows \cup {None},
         NEW to \in {"resolved", "searched", "admitting", "writing", "validating", "touching"},
         Proceed(r, to),
         loaded' = loaded \/ loaded' = [loaded EXCEPT ![r] = row]
  PROVE  LocalType'
BY DEF LocalType, Proceed

LEMMA LocalsStep ==
  ASSUME IInv, Next
  PROVE  LocalType'
<1>0. LocalType /\ \A s \in Sessions : sessions[s] \in Rows \cup {None}
  BY DEF IInv, TypeOK, LocalType
<1>1. CASE Tick
  BY <1>0, <1>1 DEF Tick, local, LocalType
<1>2. ASSUME NEW r \in Requests, Act(r) PROVE LocalType'
  <2>0. /\ Answers = {"none", "Issued", "AlreadyApplied", "Admitted", "Revoked", "VersionConflict",
                      "IdempotencyConflict", "Unavailable"}
        /\ None \in Sessions \cup {None} /\ None \in Rows \cup {None}
    BY DEF Answers
  <2>1. CASE Request(r)
    <3>1. PICK c \in Asked : /\ command' = [command EXCEPT ![r] = c]
                             /\ pc' = [pc EXCEPT ![r] = IF c.kind \in {"Create", "Revoke"}
                                                        THEN "resolved" ELSE "asked"]
      BY <2>1 DEF Request
    <3>2. c \in Commands /\ now \in 0..MaxTime /\ Revoked \subseteq Sessions
      BY AskedIsSound DEF Sound, IInv, TypeOK, Revoked, Existing
    <3> QED BY <1>0, <2>1, <3>1, <3>2 DEF Request, LocalType
  <2>2. ASSUME pc[r] # "idle", command[r].kind # "Create"
        PROVE  command[r].session \in Sessions /\ sessions[command[r].session] \in Rows
    BY <2>2, ExistingRows DEF IInv, CallsHold, CallHolds, Sound
  <2>3. CASE LoadForUse(r)
    <3>1. sessions[command[r].session] \in Rows \cup {None}
      BY <2>2, <2>3 DEF LoadForUse, At, Uses
    <3> QED BY <1>0, <2>0, <2>3, <3>1, ProceedType, RefusedType DEF LoadForUse
  <2>4. CASE ValidateBinding(r)
    <3>1. command[r].session \in Sessions \cup {None} /\ loaded[r] \in Rows \cup {None}
      BY <1>0, <2>2, <2>4 DEF ValidateBinding, At, Uses, LocalType
    <3> QED BY <1>0, <2>0, <2>4, <3>1, ProceedType, AnsweredType DEF ValidateBinding
  <2>5. CASE TouchInteractive(r)
    <3>1. ASSUME DoTouch(r)
          PROVE  Touched(sessions[command[r].session], stamp[r]) \in Rows \cup {None}
      BY <3>1, TouchRow
    <3>2. command[r].session \in Sessions \cup {None}
      BY <2>2, <2>5 DEF TouchInteractive, At, Uses
    <3> QED
      BY <1>0, <2>0, <2>5, <3>1, <3>2, AnsweredType, RefusedType
      DEF TouchInteractive, DoTouch, AnswerCommitted
  <2>6. CASE LoadForExchange(r)
    <3>1. sessions[command[r].session] \in Rows \cup {None}
      BY <2>2, <2>6 DEF LoadForExchange, At, Exchanges
    <3> QED BY <1>0, <2>6, <3>1, ProceedType DEF LoadForExchange
  <2>7. CASE SearchJournal(r) \/ SearchSessions(r)
    <3>1. ASSUME NEW c, NEW s \in Sessions, NEW row \in Rows,
                 Answer(r, ReplayReply(r, c, s, row))
          PROVE  LocalType'
      BY <1>0, <2>0, <3>1, AnsweredType DEF ReplayReply
    <3>2. CASE SearchJournal(r)
      <4>1. \A e \in journal : e.session \in Sessions /\ e.row \in Rows
        BY DEF IInv, TypeOK, Results
      <4> QED BY <1>0, <2>0, <3>1, <3>2, <4>1, ProceedType DEF SearchJournal
    <3>3. CASE SearchSessions(r)
      <4>1. \A s \in Existing : s \in Sessions /\ sessions[s] \in Rows
        BY ExistingRows DEF IInv
      <4>2. ASSUME NEW s \in Existing, Answer(r, ReplayReply(r, sessions[s].command, s, sessions[s]))
            PROVE  LocalType'
        BY <3>1, <4>1, <4>2
      <4> QED BY <1>0, <2>0, <3>3, <4>2, ProceedType, RefusedType DEF SearchSessions
    <3> QED BY <2>7, <3>2, <3>3
  <2>8. CASE Admit(r)
    BY <1>0, <2>0, <2>8, ProceedType DEF Admit
  <2>9. CASE Insert(r)
    <3>1. ASSUME DoInsert(r) PROVE Fresh(command[r], stamp[r]) \in Rows \cup {None}
      BY <3>1, InsertRow
    <3> QED
      BY <1>0, <2>0, <2>9, <3>1, AnsweredType, RefusedType
      DEF Insert, DoInsert, AnswerCommitted, Sessions
  <2>10. CASE Replace(r)
    <3>1. ASSUME DoReplace(r) PROVE Fresh(command[r], stamp[r]) \in Rows \cup {None}
      BY <3>1, ReplaceRow
    <3>2. CASE WriteRefused(r)
      BY <1>0, <2>0, <3>2, RefusedType DEF WriteRefused
    <3> QED
      BY <1>0, <2>0, <2>10, <3>1, <3>2, AnsweredType DEF Replace, DoReplace, AnswerCommitted, Sessions
  <2>11. CASE Revoke(r)
    <3>1. ASSUME DoRevoke(r) PROVE Retired(sessions[command[r].session]) \in Rows \cup {None}
      BY <3>1, RevokeRow
    <3>2. CASE WriteRefused(r)
      BY <1>0, <2>0, <3>2, RefusedType DEF WriteRefused
    <3>3. command[r].session \in Sessions \cup {None}
      BY <2>2, <2>11 DEF Revoke, At
    <3> QED
      BY <1>0, <2>0, <2>11, <3>1, <3>2, <3>3, AnsweredType DEF Revoke, DoRevoke, AnswerCommitted
  <2>12. CASE Fail(r)
    BY <1>0, <2>0, <2>12, RefusedType DEF Fail
  <2> QED
    BY <1>2, <2>1, <2>3, <2>4, <2>5, <2>6, <2>7, <2>8, <2>9, <2>10, <2>11, <2>12 DEF Act
<1> QED BY <1>1, <1>2 DEF Next

LEMMA TypeStep ==
  ASSUME IInv, Next
  PROVE  TypeOK'
<1>1. now' \in 0..MaxTime
  <2>1. CASE Tick
    BY <2>1, TimeAssumption DEF Tick, IInv, TypeOK
  <2>2. CASE ~Tick
    <3>1. PICK r \in Requests : Act(r)
      BY <2>2 DEF Next
    <3>2. Request(r) \/ LoadForUse(r) \/ ValidateBinding(r) => now' = now
      BY DEF Request, LoadForUse, ValidateBinding, WriteRefused, AnswerCommitted,
             Answer, Refuse, Proceed
    <3>3. LoadForExchange(r) \/ SearchJournal(r) \/ SearchSessions(r) => now' = now
      BY DEF LoadForExchange, SearchJournal, SearchSessions, WriteRefused, AnswerCommitted,
             Answer, Refuse, Proceed
    <3>4. TouchInteractive(r) \/ Admit(r) \/ Fail(r) => now' = now
      BY DEF TouchInteractive, Admit, Fail, WriteRefused, AnswerCommitted,
             Answer, Refuse, Proceed
    <3>5. Insert(r) \/ Replace(r) \/ Revoke(r) => now' = now
      BY DEF Insert, Replace, Revoke, WriteRefused, AnswerCommitted,
             Answer, Refuse, Proceed
    <3>6. now' = now
      BY <3>1, <3>2, <3>3, <3>4, <3>5 DEF Act
    <3> QED BY <3>6 DEF IInv, TypeOK
  <2> QED BY <2>1, <2>2
<1>2. consumed' \in [Evidence -> Operations \cup {None}]
  <2>1. consumed \in [Evidence -> Operations \cup {None}]
    BY DEF IInv, TypeOK
  <2>2. ASSUME NEW r \in Requests, Admit(r) PROVE consumed' \in [Evidence -> Operations \cup {None}]
    <3>1. Sound(command[r]) /\ command[r].kind \in Issues
      BY <2>2 DEF IInv, CallsHold, CallHolds, Admit, At
    <3>2. command[r].operation \in Operations
      BY <3>1 DEF Sound, Issues, Uses
    <3> QED BY <2>1, <2>2, <3>2 DEF Admit
  <2>3. CASE ~\E r \in Requests : Admit(r)
    BY <2>1, <2>3 DEF Next, Tick, Act, Request, LoadForUse, ValidateBinding, TouchInteractive,
                LoadForExchange, SearchJournal, SearchSessions, Insert, Replace, Revoke, Fail
  <2> QED BY <2>2, <2>3
<1> QED BY <1>1, <1>2, TablesType, LocalsStep DEF TypeOK, LocalType

-----------------------------------------------------------------------------
(* Calls: those at rest in a step keep what they know.                     *)

Unmoved(q) ==
  /\ command'[q] = command[q] /\ stamp'[q] = stamp[q] /\ pc'[q] = pc[q]
  /\ loaded'[q] = loaded[q] /\ told'[q] = told[q] /\ former'[q] = former[q]

LEMMA OneMoves ==
  ASSUME IInv, Next
  PROVE  \/ \A q \in Requests : Unmoved(q)
         \/ \E r \in Requests : Act(r) /\ \A q \in Requests \ {r} : Unmoved(q)
<1>1. CASE Tick
  BY <1>1 DEF Tick, local, Unmoved
<1>2. ASSUME NEW r \in Requests, Act(r) PROVE \A q \in Requests \ {r} : Unmoved(q)
  <2>1. CASE \E a : Refuse(r, a) \/ Answer(r, a)
    BY <2>1 DEF Refuse, Answer, Unmoved, IInv, TypeOK
  <2>2. CASE \E to : Proceed(r, to) /\ (UNCHANGED loaded \/ \E row : loaded' = [loaded EXCEPT ![r] = row])
    BY <2>2 DEF Proceed, Unmoved, IInv, TypeOK
  <2>3. CASE Request(r)
    BY <2>3 DEF Request, Unmoved, IInv, TypeOK
  <2>4. Request(r) \/ (\E a : Refuse(r, a) \/ Answer(r, a))
          \/ \E to : Proceed(r, to) /\ (UNCHANGED loaded \/ \E row : loaded' = [loaded EXCEPT ![r] = row])
    <3>1. CASE Request(r) \/ LoadForUse(r) \/ ValidateBinding(r) \/ LoadForExchange(r)
      BY <3>1 DEF LoadForUse, ValidateBinding, LoadForExchange
    <3>2. CASE SearchJournal(r) \/ SearchSessions(r) \/ Admit(r) \/ Fail(r)
      BY <3>2 DEF SearchJournal, SearchSessions, Admit, Fail
    <3>3. CASE TouchInteractive(r) \/ Insert(r) \/ Replace(r) \/ Revoke(r)
      BY <3>3 DEF TouchInteractive, Insert, Replace, Revoke, AnswerCommitted, WriteRefused
    <3> QED BY <1>2, <3>1, <3>2, <3>3 DEF Act
  <2> QED BY <2>1, <2>2, <2>3, <2>4
<1> QED BY <1>1, <1>2 DEF Next

(* What a call asks stays sound.                                           *)
LEMMA SoundStays ==
  ASSUME IInv, TypeOK', Grown, NEW c, Sound(c)
  PROVE  Sound(c)'
<1>1. ASSUME c.kind # "Create"
      PROVE  c.session \in Existing' /\ c.expected <= sessions'[c.session].version
  <2>1. c.session \in Existing /\ c.expected <= sessions[c.session].version /\ c.expected \in Nat
    BY <1>1 DEF Sound, Commands
  <2>2. Aged(c.session) /\ c.session \in Existing'
    BY <2>1 DEF Grown
  <2>3. sessions[c.session].version \in Nat /\ sessions'[c.session].version \in Nat
    BY <2>1, <2>2, RowFields DEF IInv, TypeOK, Existing
  <2> QED BY <2>1, <2>2, <2>3 DEF Aged
<1> QED BY <1>1 DEF Sound

LEMMA RestingCall ==
  ASSUME IInv, TypeOK', Grown, NEW q \in Requests, Unmoved(q)
  PROVE  CallHolds(q)'
<1>0. CallHolds(q)
  BY DEF IInv, CallsHold
<1>1. (pc[q] # "idle" => Sound(command[q]))'
  <2>1. PICK c : c = command[q]
    OBVIOUS
  <2>2. pc[q] # "idle" => Sound(c)'
    BY <1>0, <2>1, SoundStays DEF CallHolds
  <2> QED BY <2>1, <2>2 DEF Unmoved, Sound
<1>2. (former[q] \subseteq Revoked)'
  BY <1>0 DEF CallHolds, Unmoved, Grown
<1>3. ASSUME pc[q] \in Searching, command[q].kind \in Exchanges
      PROVE  loaded'[q].version <= sessions'[command'[q].session].version
  <2>1. command[q].session \in Existing /\ loaded[q] \in Rows
    BY <1>0, <1>3 DEF CallHolds, Sound, Exchanges, Searching
  <2>2. Aged(command[q].session) /\ sessions'[command[q].session] \in Rows
        /\ sessions[command[q].session] \in Rows
    BY <2>1 DEF Grown, Aged, IInv, TypeOK, Existing
  <2>3. loaded[q].version \in Nat /\ sessions[command[q].session].version \in Nat
        /\ sessions'[command[q].session].version \in Nat
    BY <2>1, <2>2, RowFields
  <2> QED BY <1>0, <1>3, <2>2, <2>3 DEF CallHolds, Aged, Unmoved
<1>4. ASSUME pc[q] = "writing", command[q].kind \in Issues
      PROVE  consumed'[command'[q].evidence] = command'[q].operation
  <2>1. command[q].evidence \in Evidence /\ command[q].operation \in Operations
    BY <1>0, <1>4 DEF CallHolds, Sound, Issues, Uses
  <2>2. consumed[command[q].evidence] # None
    BY <1>0, <1>4, <2>1, NoneAssumption DEF CallHolds
  <2> QED BY <1>0, <1>4, <2>1, <2>2 DEF CallHolds, Grown, Unmoved
<1> QED BY <1>0, <1>1, <1>2, <1>3, <1>4 DEF CallHolds, Unmoved

(* The call that moves: nothing holds of an answered one but that what it  *)
(* asked was sound, ...                                                    *)
LEMMA AnsweredCall ==
  ASSUME IInv, TypeOK', Grown, NEW r \in Requests, NEW reply, Answer(r, reply), pc[r] # "idle"
  PROVE  CallHolds(r)'
<1>1. pc'[r] = "done" /\ command' = command /\ former' = former
  BY DEF Answer, IInv, TypeOK
<1>2. Sound(command[r])'
  <2>1. PICK c : c = command[r]
    OBVIOUS
  <2> QED BY <1>1, <2>1, SoundStays DEF IInv, CallsHold, CallHolds, Sound
<1>3. (former[r] \subseteq Revoked)'
  BY <1>1 DEF IInv, CallsHold, CallHolds, Grown
<1> QED BY <1>1, <1>2, <1>3 DEF CallHolds, Using, Searching

LEMMA ActingCall ==
  ASSUME IInv, TypeOK', Grown, NEW r \in Requests, Act(r)
  PROVE  CallHolds(r)'
<1>0. CallHolds(r) /\ LocalType
  BY DEF IInv, CallsHold, TypeOK, LocalType
<1>1. CASE (\E reply : Answer(r, reply)) /\ pc[r] # "idle"
  BY <1>1, AnsweredCall
(* ... a call just made has seen nothing, ...                              *)
<1>2. CASE Request(r)
  <2>1. PICK c \in Asked : /\ command' = [command EXCEPT ![r] = c]
                           /\ pc' = [pc EXCEPT ![r] = IF c.kind \in {"Create", "Revoke"}
                                                      THEN "resolved" ELSE "asked"]
    BY <1>2 DEF Request
  <2>2. Sound(c) /\ c.kind \in Kinds
    BY AskedIsSound
  <2>3. command'[r] = c /\ former'[r] = Revoked /\ UNCHANGED <<sessions, told>> /\ pc[r] = "idle"
        /\ pc'[r] = IF c.kind \in {"Create", "Revoke"} THEN "resolved" ELSE "asked"
    BY <1>0, <1>2, <2>1 DEF LocalType, Request, tables
  <2>4. Sound(command[r])' /\ (former[r] \subseteq Revoked)'
    BY <2>2, <2>3 DEF Sound, Existing, Revoked
  <2> QED
    BY <1>0, <2>2, <2>3, <2>4 DEF CallHolds, Kinds, Issues, Exchanges, Uses, Using, Searching
(* ... and one that goes on knows what the step found out.                 *)
<1>3. ASSUME NEW to, Proceed(r, to), pc[r] \notin {"idle", "done"},
             loaded'[r] = loaded[r] \/ loaded'[r] = sessions[command[r].session]
      PROVE  /\ pc'[r] = to /\ command' = command /\ former' = former /\ UNCHANGED tables
             /\ told'[r].answer = "none" /\ Sound(command[r])' /\ (former[r] \subseteq Revoked)'
  <2>1. pc'[r] = to /\ UNCHANGED <<sessions, journal, command, told, former>>
    BY <1>0, <1>3 DEF Proceed, LocalType, tables
  <2> QED BY <1>0, <1>3, <2>1 DEF CallHolds, Sound, Existing, Revoked, tables
<1>4. ASSUME pc[r] \notin {"idle", "done"}, command[r].kind # "Create"
      PROVE  command[r].session \in Existing /\ sessions[command[r].session] \in Rows
  BY <1>0, <1>4, ExistingRows DEF CallHolds, Sound, IInv
<1>5. CASE LoadForUse(r)
  <2>1. CASE Proceed(r, "validating")
    <3>1. /\ Usable(sessions[command[r].session], stamp[r])
          /\ loaded'[r] = sessions[command[r].session] /\ At(r, Uses, "asked")
      BY <1>0, <1>5, <2>1 DEF LoadForUse, LocalType, Refuse, Answer, Proceed
    <3>2. command[r].session \notin former[r] /\ loaded'[r] \in Rows
      BY <1>0, <1>4, <3>1 DEF CallHolds, Usable, At, Uses, Revoked
    <3>3. /\ pc'[r] = "validating" /\ command' = command /\ former' = former
          /\ told'[r].answer = "none" /\ Sound(command[r])' /\ (former[r] \subseteq Revoked)'
      BY <1>3, <2>1, <3>1 DEF At
    <3> QED BY <3>1, <3>2, <3>3 DEF CallHolds, At, Using, Searching
  <2> QED BY <1>1, <1>5, <2>1 DEF LoadForUse, At, Refuse
<1>6. CASE ValidateBinding(r)
  <2>1. CASE Proceed(r, "touching") /\ UNCHANGED loaded
    <3>1. /\ pc'[r] = "touching" /\ command' = command /\ former' = former
          /\ told'[r].answer = "none" /\ Sound(command[r])' /\ (former[r] \subseteq Revoked)'
      BY <1>3, <1>6, <2>1 DEF ValidateBinding, At
    <3> QED BY <1>0, <1>6, <2>1, <3>1 DEF CallHolds, ValidateBinding, At, Using, Searching
  <2> QED BY <1>1, <1>6, <2>1 DEF ValidateBinding, At
<1>7. CASE LoadForExchange(r)
  <2>1. /\ pc'[r] = "resolved" /\ command' = command /\ former' = former /\ UNCHANGED tables
        /\ told'[r].answer = "none" /\ Sound(command[r])' /\ (former[r] \subseteq Revoked)'
        /\ loaded'[r] = sessions[command[r].session]
    <3>1. loaded'[r] = sessions[command[r].session]
      BY <1>0, <1>7 DEF LoadForExchange, LocalType
    <3> QED BY <1>3, <1>7, <3>1 DEF LoadForExchange, At
  <2>2. sessions[command[r].session] \in Rows /\ command[r].kind \in Exchanges
        /\ command[r].expected <= sessions[command[r].session].version
        /\ sessions[command[r].session].version \in Nat
    BY <1>0, <1>4, <1>7, RowFields DEF CallHolds, LoadForExchange, At, Sound, Exchanges
  <2> QED BY <2>1, <2>2 DEF CallHolds, Using, Searching, Exchanges, Uses, tables
<1>8. ASSUME NEW to \in Searching, Proceed(r, to), UNCHANGED loaded, pc[r] \in Searching,
             to = "writing" /\ command[r].kind \in Issues =>
               consumed'[command[r].evidence] = command[r].operation
      PROVE  CallHolds(r)'
  <2>1. /\ pc'[r] = to /\ command' = command /\ former' = former /\ UNCHANGED tables
        /\ told'[r].answer = "none" /\ Sound(command[r])' /\ (former[r] \subseteq Revoked)'
    BY <1>3, <1>8 DEF Searching
  <2> QED BY <1>0, <1>8, <2>1 DEF CallHolds, Using, Searching, tables
<1>9. CASE SearchJournal(r)
  BY <1>1, <1>8, <1>9 DEF SearchJournal, At, Searching
<1>10. CASE SearchSessions(r)
  BY <1>1, <1>8, <1>10 DEF SearchSessions, At, Searching, Refuse, Issues
<1>11. CASE Admit(r)
  <2>1. Sound(command[r]) /\ command[r].kind \in Issues
    BY <1>0, <1>11 DEF CallHolds, Admit, At
  <2>2. consumed'[command[r].evidence] = command[r].operation
    BY <1>11, <2>1 DEF Sound, Admit, IInv, TypeOK
  <2> QED BY <1>8, <1>11, <2>2 DEF Admit, At, Searching
<1>12. CASE TouchInteractive(r) \/ Insert(r) \/ Replace(r) \/ Revoke(r) \/ Fail(r)
  BY <1>1, <1>12
  DEF TouchInteractive, Insert, Replace, Revoke, Fail, At, AnswerCommitted, WriteRefused, Refuse
<1> QED BY <1>2, <1>5, <1>6, <1>7, <1>9, <1>10, <1>11, <1>12 DEF Act

LEMMA CallsStep ==
  ASSUME IInv, Next
  PROVE  CallsHold'
BY OneMoves, TypeStep, Growth, RestingCall, ActingCall DEF CallsHold

-----------------------------------------------------------------------------
(* A session goes with the finished call it is named after.                *)
LEMMA RowsStep ==
  ASSUME IInv, Next
  PROVE  RowsHold'
<1> SUFFICES ASSUME NEW s \in Existing' PROVE RowHolds(s)'
  BY DEF RowsHold
<1>0. Grown /\ TypeOK /\ s \in Requests
  BY Growth DEF IInv, Existing, Sessions
<1>1. CASE s \in Existing
  <2>1. RowHolds(s) /\ Aged(s)
    BY <1>0, <1>1 DEF IInv, RowsHold, Grown
  <2>2. ~Act(s)
    BY <2>1 DEF RowHolds, Act, Request, LoadForUse, ValidateBinding, TouchInteractive,
                LoadForExchange, SearchJournal, SearchSessions, Admit, Insert, Replace, Revoke,
                Fail, At
  <2>3. Unmoved(s)
    BY <1>0, <2>2, OneMoves
  <2>4. command[s].evidence \in Evidence /\ command[s].operation \in Operations
    BY <1>0, <2>1 DEF IInv, CallsHold, CallHolds, RowHolds, Sound, Issues, Uses
  <2>5. consumed'[command[s].evidence] = command[s].operation
    BY <1>0, <2>1, <2>4, NoneAssumption DEF RowHolds, Grown
  <2> QED BY <2>1, <2>3, <2>5 DEF RowHolds, Aged, Unmoved
<1>2. CASE s \notin Existing
  <2>0. sessions[s] = None /\ sessions'[s] # None
    BY <1>2 DEF Existing
  <2>1. PICK r \in Requests :
           (DoTouch(r) \/ DoInsert(r) \/ DoReplace(r) \/ DoRevoke(r)) /\ Finishes(r)
    BY <2>0, Writes DEF tables
  <2>2. s = r /\ (DoInsert(r) \/ DoReplace(r)) /\ sessions'[s] = Fresh(command[r], stamp[r])
    BY <1>0, <1>2, <2>0, <2>1, TouchRow, InsertRow, ReplaceRow, RevokeRow DEF Sessions
  <2>3. pc[r] = "writing" /\ command[r].kind \in Issues
    BY <2>2 DEF DoInsert, DoReplace, At, Issues, Exchanges
  <2>4. consumed'[command[r].evidence] = command[r].operation
    BY <2>2, <2>3 DEF IInv, CallsHold, CallHolds, DoInsert, DoReplace
  <2>5. pc'[s] = "done" /\ command'[s] = command[r]
    BY <1>0, <2>1, <2>2 DEF Finishes, TypeOK
  <2> QED BY <2>2, <2>3, <2>4, <2>5, FreshFields DEF RowHolds
<1> QED BY <1>1, <1>2

-----------------------------------------------------------------------------
(* What is told.                                                           *)

(* An answer stays true, and so does the denial of former sessions.        *)
LEMMA ToldStays ==
  ASSUME IInv, TypeOK', Grown, NEW q \in Requests, Unmoved(q)
  PROVE  AnswerIsTrue(q)' /\ HasNoFormer(q)'
<1>0. AnswerIsTrue(q) /\ HasNoFormer(q) /\ CallHolds(q)
  BY DEF IInv, AnswersAreTrue, FormerIsDenied, CallsHold
<1>1. HasNoFormer(q)'
  BY <1>0 DEF HasNoFormer, Told, Unmoved
<1>2. /\ told'[q] = told[q] /\ command'[q] = command[q]
      /\ journal \subseteq journal' /\ Existing \subseteq Existing'
  BY DEF Unmoved, Grown
<1>3. ASSUME Told(q, "VersionConflict")
      PROVE  sessions'[command[q].session].version > command[q].expected
  <2>0. pc[q] # "idle"
    BY <1>0, <1>3 DEF CallHolds, Told
  <2>1. /\ Sound(command[q]) /\ command[q].session \in Existing
        /\ sessions[command[q].session].version > command[q].expected
    BY <1>0, <1>3, <2>0 DEF CallHolds, AnswerIsTrue
  <2>2. Aged(command[q].session)
    BY <2>1 DEF Grown
  <2>3. sessions[command[q].session] \in Rows /\ sessions'[command[q].session] \in Rows
    BY <2>1, <2>2 DEF Aged, IInv, TypeOK, Existing
  <2>4. command[q].expected \in Nat
    BY <2>1 DEF Sound, Commands
  <2> QED BY <2>1, <2>2, <2>3, <2>4, RowFields DEF Aged
<1> QED BY <1>0, <1>1, <1>2, <1>3 DEF AnswerIsTrue, Told

(* An answer is true when it is given: of an issue or a revocation the     *)
(* entry has just been made, of a repeat it was found, ...                 *)
LEMMA ReplyIsTrue ==
  ASSUME IInv, TypeOK', NEW r \in Requests, NEW a, NEW s, NEW row, Answer(r, Reply(a, s, row)),
         a \in {"Issued", "AlreadyApplied", "Revoked"} =>
           \E e \in journal' : /\ e.command = command[r] /\ e.session = s
                               /\ a = "Issued" => e = Entry(command[r], r, row) /\ r \in Existing',
         a = "IdempotencyConflict" =>
           \E e \in journal' :
             e.command.operation = command[r].operation /\ e.command # command[r],
         a = "VersionConflict" =>
           /\ command[r].session \in Existing'
           /\ sessions'[command[r].session].version > command[r].expected,
         a = "Admitted" => s \notin former[r],
         a = "Issued" => command[r].session \notin former[r]
  PROVE  AnswerIsTrue(r)' /\ HasNoFormer(r)'
<1>1. /\ told'[r] = Reply(a, s, row) /\ command' = command /\ former' = former
      /\ told'[r].answer = a /\ told'[r].session = s /\ told'[r].row = row
  BY ReplyFields DEF Answer, IInv, TypeOK
<1>2. HasNoFormer(r)'
  BY <1>1 DEF HasNoFormer, Told
<1>3. AnswerIsTrue(r)'
  BY <1>1 DEF AnswerIsTrue, Told
<1> QED BY <1>2, <1>3

LEMMA DenialIsTrue ==
  ASSUME IInv, TypeOK', NEW r \in Requests, Answer(r, Denial)
  PROVE  AnswerIsTrue(r)' /\ HasNoFormer(r)'
BY ReplyIsTrue DEF Denial

LEMMA UnavailableIsTrue ==
  ASSUME IInv, TypeOK', NEW r \in Requests, Refuse(r, "Unavailable")
  PROVE  AnswerIsTrue(r)' /\ HasNoFormer(r)'
BY ReplyIsTrue DEF Refuse

(* ... and of a conflict the version has moved on.                         *)
LEMMA ConflictIsTrue ==
  ASSUME IInv, TypeOK', NEW r \in Requests, Refuse(r, "VersionConflict"),
         command[r].session \in Existing,
         sessions[command[r].session].version > command[r].expected
  PROVE  AnswerIsTrue(r)' /\ HasNoFormer(r)'
BY ReplyIsTrue DEF Refuse, tables, Existing

LEMMA ReplayIsTrue ==
  ASSUME IInv, TypeOK', NEW r \in Requests, UNCHANGED tables, NEW e \in journal, NEW row,
         e.command.operation = command[r].operation,
         Answer(r, ReplayReply(r, e.command, e.session, row))
  PROVE  AnswerIsTrue(r)' /\ HasNoFormer(r)'
<1>1. CASE ~SameIntent(e.command, command[r])
  <2>1. e \in journal' /\ e.command # command[r]
    BY <1>1 DEF tables, SameIntent
  <2>2. Answer(r, Reply("IdempotencyConflict", None, None))
    BY <1>1 DEF ReplayReply
  <2> QED BY <2>1, <2>2, ReplyIsTrue
<1>2. CASE SameIntent(e.command, command[r])
  <2>1. e \in journal' /\ e.command = command[r]
    BY <1>2 DEF tables, SameIntent
  <2>2. PICK a \in {"Revoked", "AlreadyApplied"} : Answer(r, Reply(a, e.session, row))
    BY <1>2 DEF ReplayReply
  <2> QED BY <2>1, <2>2, ReplyIsTrue
<1> QED BY <1>1, <1>2

LEMMA WriteRefusedIsTrue ==
  ASSUME IInv, TypeOK', NEW r \in Requests, WriteRefused(r), pc[r] # "idle",
         command[r].kind # "Create"
  PROVE  AnswerIsTrue(r)' /\ HasNoFormer(r)'
<1>1. CASE Refuse(r, "Unavailable")
  BY <1>1, UnavailableIsTrue
<1>2. CASE ~Refuse(r, "Unavailable")
  <2>1. /\ Refuse(r, "VersionConflict")
        /\ sessions[command[r].session].version # command[r].expected
    BY <1>2 DEF WriteRefused
  <2>2. /\ command[r].session \in Existing
        /\ command[r].expected <= sessions[command[r].session].version
        /\ command[r].expected \in Nat
    BY DEF IInv, CallsHold, CallHolds, Sound, Commands
  <2>3. sessions[command[r].session].version \in Nat
    BY <2>2, ExistingRows, RowFields DEF IInv
  <2> QED BY <2>1, <2>2, <2>3, ConflictIsTrue
<1> QED BY <1>1, <1>2

LEMMA ToldNow ==
  ASSUME IInv, TypeOK', Grown, NEW r \in Requests, Act(r)
  PROVE  AnswerIsTrue(r)' /\ HasNoFormer(r)'
<1>0. CallHolds(r) /\ LocalType
  BY DEF IInv, CallsHold, TypeOK, LocalType
<1>1. CASE pc[r] # "done" /\ UNCHANGED told
  BY <1>0, <1>1 DEF CallHolds, AnswerIsTrue, HasNoFormer, Told
<1>2. CASE Request(r) \/ LoadForExchange(r) \/ Admit(r)
  BY <1>1, <1>2 DEF Request, LoadForExchange, Admit, At, Proceed
<1>3. CASE LoadForUse(r) \/ Fail(r)
  BY <1>1, <1>3, UnavailableIsTrue DEF LoadForUse, Fail, At, Proceed
<1>4. CASE ValidateBinding(r)
  <2>1. CASE Answer(r, Reply("Admitted", command[r].session, loaded[r]))
    BY <1>0, <1>4, <2>1, ReplyIsTrue DEF ValidateBinding, At, CallHolds, Using
  <2> QED BY <1>1, <1>4, <2>1 DEF ValidateBinding, At, Proceed
<1>5. CASE TouchInteractive(r)
  <2>1. ASSUME NEW row, Answer(r, Reply("Admitted", command[r].session, row))
        PROVE  AnswerIsTrue(r)' /\ HasNoFormer(r)'
    BY <1>0, <1>5, <2>1, ReplyIsTrue DEF TouchInteractive, At, CallHolds, Using
  <2> QED
    BY <1>5, <2>1, DenialIsTrue, UnavailableIsTrue DEF TouchInteractive, AnswerCommitted
<1>6. CASE SearchJournal(r)
  <2>1. ASSUME NEW e \in journal, e.command.operation = command[r].operation,
               Answer(r, ReplayReply(r, e.command, e.session, e.row)), UNCHANGED tables
        PROVE  AnswerIsTrue(r)' /\ HasNoFormer(r)'
    BY <2>1, ReplayIsTrue
  <2> QED BY <1>1, <1>6, <2>1 DEF SearchJournal, At, Proceed
<1>7. CASE SearchSessions(r)
  <2>1. ASSUME NEW s \in Existing, sessions[s].command.operation = command[r].operation,
               Answer(r, ReplayReply(r, sessions[s].command, s, sessions[s])), UNCHANGED tables
        PROVE  AnswerIsTrue(r)' /\ HasNoFormer(r)'
    <3>1. PICK e \in journal : e.session = s /\ e.command = sessions[s].command
      BY DEF IInv, JournalHolds, IssuesOnRecord
    <3> QED BY <2>1, <3>1, ReplayIsTrue
  <2>2. ASSUME command[r].kind \in Exchanges, Outdated(r), Refuse(r, "VersionConflict")
        PROVE  AnswerIsTrue(r)' /\ HasNoFormer(r)'
    <3>1. /\ command[r].session \in Existing /\ loaded[r] \in Rows
          /\ command[r].expected <= loaded[r].version /\ command[r].expected \in Nat
          /\ loaded[r].version <= sessions[command[r].session].version
      BY <1>0, <1>7, <2>2 DEF CallHolds, SearchSessions, At, Searching, Sound, Exchanges, Commands
    <3>2. loaded[r].version \in Nat /\ sessions[command[r].session].version \in Nat
      BY <3>1, ExistingRows, RowFields DEF IInv
    <3> QED BY <2>2, <3>1, <3>2, ConflictIsTrue DEF Outdated
  <2> QED
    BY <1>1, <1>7, <2>1, <2>2, UnavailableIsTrue DEF SearchSessions, At, Proceed
<1>8. CASE Insert(r)
  <2>1. ASSUME DoInsert(r), Answer(r, Reply("Issued", r, Fresh(command[r], stamp[r])))
        PROVE  AnswerIsTrue(r)' /\ HasNoFormer(r)'
    <3> DEFINE e == Entry(command[r], r, Fresh(command[r], stamp[r]))
    <3>1. /\ e \in journal' /\ e.command = command[r] /\ e.session = r
      BY <2>1, EntryFields DEF DoInsert
    <3>2. r \in Existing'
      BY <2>1, InsertRow, RowFields DEF Existing, Sessions
    <3>3. command[r].session \notin former[r]
      BY <1>0, <2>1, InsertRow, NoneAssumption DEF LocalType
    <3> QED BY <2>1, <3>1, <3>2, <3>3, ReplyIsTrue
  <2> QED
    BY <1>8, <2>1, DenialIsTrue, UnavailableIsTrue DEF Insert, DoInsert, AnswerCommitted
<1>9. CASE Replace(r)
  <2>1. ASSUME DoReplace(r), Answer(r, Reply("Issued", r, Fresh(command[r], stamp[r])))
        PROVE  AnswerIsTrue(r)' /\ HasNoFormer(r)'
    <3> DEFINE e == Entry(command[r], r, Fresh(command[r], stamp[r]))
    <3>1. /\ e \in journal' /\ e.command = command[r] /\ e.session = r
      BY <2>1, EntryFields DEF DoReplace
    <3>2. r \in Existing'
      BY <2>1, ReplaceRow, RowFields DEF Existing, Sessions
    <3>3. command[r].session \notin former[r]
      BY <1>0, <2>1, ReplaceRow DEF CallHolds, Revoked
    <3> QED BY <2>1, <3>1, <3>2, <3>3, ReplyIsTrue
  <2>2. CASE WriteRefused(r)
    BY <1>9, <2>2, WriteRefusedIsTrue DEF Replace, At, Exchanges
  <2> QED BY <1>9, <2>1, <2>2, DenialIsTrue DEF Replace, DoReplace, AnswerCommitted
<1>10. CASE Revoke(r)
  <2>1. ASSUME DoRevoke(r),
               Answer(r, Reply("Revoked", command[r].session, Retired(sessions[command[r].session])))
        PROVE  AnswerIsTrue(r)' /\ HasNoFormer(r)'
    <3> DEFINE e == Entry(command[r], command[r].session, Retired(sessions[command[r].session]))
    <3>1. /\ e \in journal' /\ e.command = command[r] /\ e.session = command[r].session
      BY <2>1, EntryFields DEF DoRevoke
    <3> QED BY <2>1, <3>1, ReplyIsTrue
  <2>2. CASE WriteRefused(r)
    BY <1>10, <2>2, WriteRefusedIsTrue DEF Revoke, At
  <2> QED BY <1>10, <2>1, <2>2, DenialIsTrue DEF Revoke, DoRevoke, AnswerCommitted
<1> QED BY <1>2, <1>3, <1>4, <1>5, <1>6, <1>7, <1>8, <1>9, <1>10 DEF Act

LEMMA ToldStep ==
  ASSUME IInv, Next
  PROVE  AnswersAreTrue' /\ FormerIsDenied'
BY OneMoves, TypeStep, Growth, ToldStays, ToldNow DEF AnswersAreTrue, FormerIsDenied

-----------------------------------------------------------------------------
(* The theorems                                                            *)

LEMMA InitHolds == Init => IInv
<1> SUFFICES ASSUME Init PROVE IInv
  OBVIOUS
<1>1. Existing = {} /\ Revoked = {} /\ journal = {}
  BY DEF Init, Existing, Revoked
<1>2. TypeOK
  BY TimeAssumption DEF Init, TypeOK, Reply, Answers
<1>3. CallsHold /\ RowsHold
  BY <1>1 DEF Init, CallsHold, CallHolds, RowsHold, Using, Searching, Reply
<1>4. JournalHolds
  BY <1>1 DEF JournalHolds, OneResultPerOperation, IssuesOnRecord, EndsOnRecord, EndedBy
<1>5. AnswersAreTrue /\ FormerIsDenied
  BY DEF Init, AnswersAreTrue, AnswerIsTrue, FormerIsDenied, HasNoFormer, Told, Reply
<1> QED BY <1>2, <1>3, <1>4, <1>5 DEF IInv

LEMMA StutterHolds ==
  ASSUME IInv, UNCHANGED vars
  PROVE  IInv'
<1>1. Existing' = Existing /\ Revoked' = Revoked
  BY DEF vars, Existing, Revoked
<1>2. TypeOK' /\ RowsHold'
  BY <1>1 DEF IInv, TypeOK, RowsHold, RowHolds, vars
<1>3. CallsHold'
  BY <1>1 DEF IInv, CallsHold, CallHolds, Sound, vars
<1>4. JournalHolds'
  BY <1>1 DEF IInv, JournalHolds, OneResultPerOperation, IssuesOnRecord, EndsOnRecord, EndedBy, vars
<1>5. AnswersAreTrue' /\ FormerIsDenied'
  BY <1>1 DEF IInv, AnswersAreTrue, AnswerIsTrue, FormerIsDenied, HasNoFormer, Told, vars
<1> QED BY <1>2, <1>3, <1>4, <1>5 DEF IInv

LEMMA Invariance == Spec => []IInv
<1>1. IInv /\ [Next]_vars => IInv'
  BY TypeStep, CallsStep, RowsStep, JournalStep, ToldStep, StutterHolds DEF IInv
<1> QED BY <1>1, InitHolds, PTL DEF Spec

(* The tables and calls keep their types, with versions within the         *)
(* database's integers (guest_session, GuestSessionService).               *)
THEOREM TypesHold == Spec => []TypeOK
BY Invariance, PTL DEF IInv

(* However creations, exchanges, touches and revocations interleave and    *)
(* fail, the append-only journal explains the sessions: one result per     *)
(* operation, one issue per session, one end per revoked session.          *)
THEOREM JournalExplains == Spec => []JournalHolds
BY Invariance, PTL DEF IInv

(* What the service answers is on record (create, rotate, bindDining,      *)
(* revoke and their replays).                                              *)
THEOREM AnswersHold == Spec => []AnswersAreTrue
BY Invariance, PTL DEF IInv

(* A credential rotated or revoked before a call is made does not serve    *)
(* the call (resolve, authorize, rotate, bindDining).                      *)
THEOREM FormerStaysDenied == Spec => []FormerIsDenied
BY Invariance, PTL DEF IInv

(* Racing repeats make at most one session of an entry request or          *)
(* admission, given that its owner gives it to one operation.              *)
THEOREM EvidenceServesOnce == Spec => []OneSessionPerEvidence
<1>1. IInv => OneSessionPerEvidence
  <2> SUFFICES ASSUME IInv, NEW s \in Existing, NEW t \in Existing,
                      sessions[s].command.evidence = sessions[t].command.evidence
               PROVE  s = t
    BY DEF OneSessionPerEvidence
  <2>1. sessions[s].command.operation = sessions[t].command.operation
    BY DEF IInv, RowsHold, RowHolds
  <2>2. PICK d \in journal : d.session = s /\ d.command = sessions[s].command
    BY DEF IInv, JournalHolds, IssuesOnRecord
  <2>3. PICK e \in journal : e.session = t /\ e.command = sessions[t].command
    BY DEF IInv, JournalHolds, IssuesOnRecord
  <2> QED BY <2>1, <2>2, <2>3 DEF IInv, JournalHolds, OneResultPerOperation
<1> QED BY <1>1, Invariance, PTL

(* The sessions of the store are those its journal tells of, each from an  *)
(* admission of its own (create, rotate, bindDining, revoke).              *)
THEOREM SessionsRecorded == Spec => []SessionsAreOnRecord
BY JournalExplains, EvidenceServesOnce, PTL DEF SessionsAreOnRecord

(* No late call takes a session back (touchInteractive, lockCurrent).      *)
THEOREM SeenIsMonotonic == Spec => SeenMovesForward
<1> DEFINE Forward(s) ==
      /\ sessions'[s] # None
      /\ sessions'[s].seen >= sessions[s].seen
      /\ sessions'[s] # sessions[s] =>
           sessions[s].status = "Active" /\ sessions'[s].version > sessions[s].version
      /\ \A t \in Sessions \ Existing :
           sessions'[t] # None /\ sessions'[t].from = s =>
             sessions'[t].created >= sessions[s].seen
<1>1. ASSUME IInv, [Next]_vars, NEW s \in Existing PROVE Forward(s)
  <2>0. /\ s \in Sessions /\ sessions[s] \in Rows /\ sessions[s] # None
        /\ sessions[s].seen \in Nat /\ sessions[s].version \in Nat
        /\ \A t \in Sessions \ Existing : sessions[t] = None
    BY <1>1, ExistingRows, RowFields DEF IInv, Existing
  <2>1. CASE sessions' = sessions
    BY <2>0, <2>1
  <2>3. ASSUME NEW r \in Requests, DoTouch(r) PROVE Forward(s)
    <3>1. stamp[r] \in Nat
      BY <1>1, TimeAssumption DEF IInv, TypeOK
    <3>2. \A t \in Sessions \ Existing : sessions'[t] = None
      BY <1>1, <2>0, <2>3, TouchRow
    <3>3. CASE s = command[r].session
      <4>1. /\ sessions[s].status = "Active" /\ sessions[s].seen <= stamp[r]
            /\ sessions'[s] = Touched(sessions[s], stamp[r]) /\ sessions'[s] # None
        BY <1>1, <2>3, <3>3, TouchRow, RowFields
      <4>2. sessions'[s].seen = stamp[r] /\ sessions'[s].version > sessions[s].version
        BY <2>0, <3>1, <4>1, RowUpdates
      <4> QED BY <2>0, <3>1, <3>2, <4>1, <4>2
    <3>4. CASE s # command[r].session
      BY <1>1, <2>0, <2>3, <3>2, <3>4, TouchRow
    <3> QED BY <3>3, <3>4
  <2>4. ASSUME NEW r \in Requests, DoInsert(r) PROVE Forward(s)
    <3>1. s # None
      BY <2>0, NoneAssumption
    <3> QED BY <1>1, <2>0, <2>4, <3>1, InsertRow, FreshFields
  <2>5. ASSUME NEW r \in Requests, DoReplace(r) PROVE Forward(s)
    <3>1. stamp[r] \in Nat
      BY <1>1, TimeAssumption DEF IInv, TypeOK
    <3>2. /\ sessions'[r].from = command[r].session /\ sessions'[r].created = stamp[r]
          /\ \A t \in (Sessions \ Existing) \ {r} : sessions'[t] = None
      BY <1>1, <2>0, <2>5, ReplaceRow, FreshFields
    <3>3. CASE s = command[r].session
      <4>1. /\ sessions[s].status = "Active" /\ sessions[s].seen <= stamp[r]
            /\ sessions'[s] = Retired(sessions[s]) /\ sessions'[s] # None
        BY <1>1, <2>5, <3>3, ReplaceRow, RowFields
      <4>2. sessions'[s].seen = sessions[s].seen /\ sessions'[s].version > sessions[s].version
        BY <2>0, <3>1, <4>1, RowUpdates
      <4> QED BY <2>0, <3>1, <3>2, <4>1, <4>2
    <3>4. CASE s # command[r].session
      BY <1>1, <2>0, <2>5, <3>2, <3>4, ReplaceRow
    <3> QED BY <3>3, <3>4
  <2>6. ASSUME NEW r \in Requests, DoRevoke(r) PROVE Forward(s)
    <3>1. stamp[r] \in Nat
      BY <1>1, TimeAssumption DEF IInv, TypeOK
    <3>2. \A t \in Sessions \ Existing : sessions'[t] = None
      BY <1>1, <2>0, <2>6, RevokeRow
    <3>3. CASE s = command[r].session
      <4>1. /\ sessions[s].status = "Active"
            /\ sessions'[s] = Retired(sessions[s]) /\ sessions'[s] # None
        BY <1>1, <2>6, <3>3, RevokeRow, RowFields
      <4>2. sessions'[s].seen = sessions[s].seen /\ sessions'[s].version > sessions[s].version
        BY <2>0, <3>1, <4>1, RowUpdates
      <4> QED BY <2>0, <3>2, <4>1, <4>2
    <3>4. CASE s # command[r].session
      BY <1>1, <2>0, <2>6, <3>2, <3>4, RevokeRow
    <3> QED BY <3>3, <3>4
  <2> QED BY <1>1, <2>1, <2>3, <2>4, <2>5, <2>6, Writes DEF vars, tables
<1>2. IInv /\ [Next]_vars => [\A s \in Existing : Forward(s)]_vars
  BY <1>1
<1> QED BY <1>2, Invariance, PTL DEF Spec, SeenMovesForward

(* The guest sessions implement lineages with one live session each.       *)
THEOREM LineageRefinement == Spec => ImplementsLineage
<1> DEFINE StandingOf(row) ==
             IF row = None THEN "none" ELSE IF row.status = "Active" THEN "live" ELSE "gone"
           ParentOf(row) == IF row = None THEN None ELSE row.from
<1>1. Init => Lineage!Init
  BY DEF Init, Lineage!Init, Standing, Parent
<1>2. ASSUME IInv, [Next]_vars
      PROVE  [Lineage!Next]_<<Standing, Parent>>
  <2>0. /\ Standing = [s \in Sessions |-> StandingOf(sessions[s])]
        /\ Parent = [s \in Sessions |-> ParentOf(sessions[s])]
        /\ Standing' = [s \in Sessions |-> StandingOf(sessions'[s])]
        /\ Parent' = [s \in Sessions |-> ParentOf(sessions'[s])]
    BY DEF Standing, Parent
  <2>1. CASE sessions' = sessions
    BY <2>0, <2>1
  <2>2. ASSUME NEW r \in Requests, DoTouch(r)
        PROVE  UNCHANGED <<Standing, Parent>>
    <3>0. stamp[r] \in Nat /\ \A s \in Existing : sessions[s] \in Rows /\ s \in Sessions
      BY <1>2, TimeAssumption, ExistingRows DEF IInv, TypeOK
    <3>1. \A s \in Sessions : /\ StandingOf(sessions'[s]) = StandingOf(sessions[s])
                              /\ ParentOf(sessions'[s]) = ParentOf(sessions[s])
      BY <1>2, <2>2, <3>0, TouchRow, RowUpdates, RowFields
    <3> QED BY <2>0, <3>1
  <2>3. ASSUME NEW r \in Requests, DoInsert(r) PROVE Lineage!Next
    <3>1. /\ r \in Sessions /\ sessions[r] = None
          /\ StandingOf(sessions'[r]) = "live" /\ ParentOf(sessions'[r]) = None
          /\ \A s \in Sessions \ {r} : sessions'[s] = sessions[s]
      BY <1>2, <2>3, InsertRow, FreshFields, RowFields DEF Existing
    <3>2. \A s \in Sessions : ParentOf(sessions'[s]) = ParentOf(sessions[s])
      BY <3>1
    <3>3. Standing[r] = "none" /\ Standing' = [Standing EXCEPT ![r] = "live"] /\ Parent' = Parent
      BY <2>0, <3>1, <3>2 DEF StandingOf
    <3> QED BY <3>1, <3>3 DEF Lineage!Enter, Lineage!Next
  <2>4. ASSUME NEW r \in Requests, DoReplace(r) PROVE Lineage!Next
    <3> DEFINE old == command[r].session
    <3>1. /\ r \in Sessions /\ sessions[r] = None /\ old \in Sessions /\ old # r
          /\ StandingOf(sessions[old]) = "live" /\ StandingOf(sessions'[old]) = "gone"
          /\ StandingOf(sessions'[r]) = "live" /\ ParentOf(sessions'[r]) = old
          /\ ParentOf(sessions'[old]) = ParentOf(sessions[old])
          /\ \A s \in Sessions \ {r, old} : sessions'[s] = sessions[s]
      BY <1>2, <2>4, ReplaceRow, FreshFields, RowFields, RowUpdates, ExistingRows, TimeAssumption
      DEF Existing, IInv
    <3>2. /\ Standing[old] = "live" /\ Standing[r] = "none"
          /\ Standing' = [Standing EXCEPT ![old] = "gone", ![r] = "live"]
      BY <2>0, <3>1 DEF StandingOf
    <3>3. Parent' = [Parent EXCEPT ![r] = old]
      BY <2>0, <3>1
    <3> QED BY <3>1, <3>2, <3>3 DEF Lineage!Replace, Lineage!Next
  <2>5. ASSUME NEW r \in Requests, DoRevoke(r) PROVE Lineage!Next
    <3> DEFINE old == command[r].session
    <3>1. /\ old \in Sessions
          /\ StandingOf(sessions[old]) = "live" /\ StandingOf(sessions'[old]) = "gone"
          /\ ParentOf(sessions'[old]) = ParentOf(sessions[old])
          /\ \A s \in Sessions \ {old} : sessions'[s] = sessions[s]
      BY <1>2, <2>5, RevokeRow, RowFields, RowUpdates, ExistingRows, TimeAssumption
      DEF Existing, IInv
    <3>2. \A s \in Sessions : ParentOf(sessions'[s]) = ParentOf(sessions[s])
      BY <3>1
    <3>3. /\ Standing[old] = "live" /\ Standing' = [Standing EXCEPT ![old] = "gone"]
          /\ Parent' = Parent
      BY <2>0, <3>1, <3>2
    <3> QED BY <3>1, <3>3 DEF Lineage!End, Lineage!Next
  <2> QED BY <1>2, <2>1, <2>2, <2>3, <2>4, <2>5, Writes DEF vars, tables
<1> QED
  BY <1>1, <1>2, Invariance, PTL DEF Spec, ImplementsLineage, Lineage!Spec

-----------------------------------------------------------------------------
(* What a lineage promises of its families.  Nobody but a live session has *)
(* its place taken, and no circle of sessions took each other's: that is   *)
(* what lets a family lose its newest member and stay one.                 *)
Founded ==
  \A F \in SUBSET Lineage!Started : F # {} => \E s \in F : Parent[s] \notin F
LineageInv ==
  /\ DOMAIN Standing = Sessions /\ DOMAIN Parent = Sessions
  /\ \A s \in Sessions \ Lineage!Started : Parent[s] = None
  /\ \A s \in Sessions : Parent[s] = None \/ Parent[s] \in Lineage!Started
  /\ Founded
  /\ Lineage!OneIsLive

(* Without a session that is nobody's parent, a family is a family, or     *)
(* empty.                                                                  *)
LEMMA FamilyWithout ==
  ASSUME NEW F, NEW t \in F, NEW first \in F, NEW parents,
         \A s \in F \ {first} : parents[s] \in F,
         \A s \in F : parents[s] # t,
         \A X \in SUBSET (F \ {t}) : X # {} => \E s \in X : parents[s] \notin X
  PROVE  F = {t} \/ (first # t /\ \A s \in (F \ {t}) \ {first} : parents[s] \in F \ {t})
<1>1. CASE first = t
  <2>1. \A s \in F \ {t} : parents[s] \in F \ {t}
    BY <1>1
  <2>2. F \ {t} = {}
    BY <2>1
  <2> QED BY <2>2
<1>2. CASE first # t
  BY <1>2
<1> QED BY <1>1, <1>2

(* A new session, in nobody's place or in that of s.                       *)
LEMMA NewSession ==
  ASSUME LineageInv, NEW t \in Sessions, Standing[t] = "none",
         Lineage!Started' = Lineage!Started \cup {t},
         \A x \in Sessions \ {t} : Parent'[x] = Parent[x],
         Parent'[t] = None \/ Parent'[t] \in Lineage!Started,
         DOMAIN Standing' = Sessions, DOMAIN Parent' = Sessions
  PROVE  /\ \A s \in Sessions \ Lineage!Started' : Parent'[s] = None
         /\ \A s \in Sessions : Parent'[s] = None \/ Parent'[s] \in Lineage!Started'
         /\ Founded'
         /\ \A F \in Lineage!Families' :
              \/ F \in Lineage!Families
              \/ F = {t}
              \/ t \in F /\ Parent'[t] \in F /\ F \ {t} \in Lineage!Families
<1>1. t \notin Lineage!Started /\ Lineage!Started \subseteq Sessions /\ None \notin Sessions
  BY NoneAssumption DEF Lineage!Started
<1>2. \A s \in Lineage!Started' : Parent'[s] # t
  BY <1>1 DEF LineageInv
<1>3. \A F \in SUBSET Lineage!Started' : F # {} => \E s \in F : Parent'[s] \notin F
  <2> SUFFICES ASSUME NEW F \in SUBSET Lineage!Started', F # {}
               PROVE  \E s \in F : Parent'[s] \notin F
    OBVIOUS
  <2>1. CASE F \ {t} = {}
    BY <1>2, <2>1
  <2>2. CASE F \ {t} # {}
    <3>1. PICK s \in F \ {t} : Parent[s] \notin F \ {t}
      BY <2>2 DEF LineageInv, Founded
    <3>2. Parent'[s] = Parent[s] /\ Parent'[s] # t
      BY <1>1, <1>2, <3>1
    <3> QED BY <3>1, <3>2
  <2> QED BY <2>1, <2>2
<1>4. ASSUME NEW F \in Lineage!Families'
      PROVE  \/ F \in Lineage!Families
             \/ F = {t}
             \/ t \in F /\ Parent'[t] \in F /\ F \ {t} \in Lineage!Families
  <2>1. F \subseteq Lineage!Started'
    BY <1>4 DEF Lineage!Families
  <2>2. PICK first \in F : \A s \in F \ {first} : Parent'[s] \in F
    BY <1>4 DEF Lineage!Families
  <2>3. CASE t \notin F
    <3>1. F \subseteq Lineage!Started /\ \A s \in F : Parent'[s] = Parent[s]
      BY <1>1, <2>1, <2>3
    <3> QED BY <2>2, <3>1 DEF Lineage!Families
  <2>4. CASE t \in F
    <3>1. \A X \in SUBSET (F \ {t}) : X # {} => \E s \in X : Parent'[s] \notin X
      BY <1>3, <2>1
    <3>2. \/ F = {t}
          \/ first # t /\ \A s \in (F \ {t}) \ {first} : Parent'[s] \in F \ {t}
      <4>1. \A s \in F : Parent'[s] # t
        BY <1>2, <2>1
      <4> QED BY <2>2, <2>4, <3>1, <4>1, FamilyWithout
    <3>3. ASSUME F # {t} PROVE Parent'[t] \in F /\ F \ {t} \in Lineage!Families
      <4>1. F \ {t} \subseteq Lineage!Started /\ \A s \in F \ {t} : Parent'[s] = Parent[s]
        BY <1>1, <2>1
      <4>2. first \in F \ {t} /\ \A s \in (F \ {t}) \ {first} : Parent[s] \in F \ {t}
        BY <3>2, <3>3, <4>1
      <4> QED BY <2>2, <2>4, <4>1, <4>2 DEF Lineage!Families
    <3> QED BY <2>4, <3>3
  <2> QED BY <2>3, <2>4
<1>5. \A s \in Sessions \ Lineage!Started' : Parent'[s] = None
  BY <1>1 DEF LineageInv
<1>6. \A s \in Sessions : Parent'[s] = None \/ Parent'[s] \in Lineage!Started'
  BY <1>1 DEF LineageInv
<1> QED BY <1>3, <1>4, <1>5, <1>6 DEF Founded

LEMMA LineageStep == LineageInv /\ [Lineage!Next]_<<Standing, Parent>> => LineageInv'
<1> SUFFICES ASSUME LineageInv, [Lineage!Next]_<<Standing, Parent>> PROVE LineageInv'
  OBVIOUS
<1> USE DEF Lineage!Started
<1>1. CASE UNCHANGED <<Standing, Parent>>
  BY <1>1 DEF LineageInv, Founded, Lineage!OneIsLive, Lineage!Families
<1>2. ASSUME NEW s \in Sessions, Lineage!Enter(s) PROVE LineageInv'
  <2>1. /\ Standing[s] = "none" /\ Standing' = [Standing EXCEPT ![s] = "live"]
        /\ Parent' = Parent
    BY <1>2 DEF Lineage!Enter
  <2>2. Lineage!Started' = Lineage!Started \cup {s}
    BY <2>1 DEF LineageInv
  <2>3. Parent'[s] = None /\ DOMAIN Standing' = Sessions /\ DOMAIN Parent' = Sessions
    BY <2>1 DEF LineageInv
  <2>4. /\ \A x \in Sessions \ Lineage!Started' : Parent'[x] = None
        /\ \A x \in Sessions : Parent'[x] = None \/ Parent'[x] \in Lineage!Started'
        /\ Founded'
        /\ \A F \in Lineage!Families' :
             F \in Lineage!Families \/ F = {s} \/ (s \in F /\ Parent'[s] \in F /\ F \ {s} \in Lineage!Families)
    BY <2>1, <2>2, <2>3, NewSession
  <2>5. None \notin Sessions /\ \A F \in Lineage!Families' : F \subseteq Sessions
    BY NoneAssumption DEF Lineage!Families
  <2>6. \A F \in Lineage!Families' : F = {s} \/ (F \in Lineage!Families /\ s \notin F)
    BY <2>1, <2>3, <2>4, <2>5 DEF Lineage!Families
  <2>7. Lineage!OneIsLive'
    BY <2>1, <2>5, <2>6 DEF LineageInv, Lineage!OneIsLive
  <2> QED BY <2>3, <2>4, <2>7 DEF LineageInv
<1>3. ASSUME NEW s \in Sessions, NEW t \in Sessions, Lineage!Replace(s, t) PROVE LineageInv'
  <2>1. /\ Standing[s] = "live" /\ Standing[t] = "none" /\ s # t
        /\ Standing' = [Standing EXCEPT ![s] = "gone", ![t] = "live"]
        /\ Parent' = [Parent EXCEPT ![t] = s]
    BY <1>3 DEF Lineage!Replace
  <2>2. Lineage!Started' = Lineage!Started \cup {t} /\ s \in Lineage!Started
    BY <2>1 DEF LineageInv
  <2>3. /\ Parent'[t] = s /\ \A x \in Sessions \ {t} : Parent'[x] = Parent[x]
        /\ DOMAIN Standing' = Sessions /\ DOMAIN Parent' = Sessions
        /\ Standing'[s] = "gone" /\ Standing'[t] = "live"
        /\ \A x \in Sessions \ {s, t} : Standing'[x] = Standing[x]
    BY <2>1 DEF LineageInv
  <2>4. /\ \A x \in Sessions \ Lineage!Started' : Parent'[x] = None
        /\ \A x \in Sessions : Parent'[x] = None \/ Parent'[x] \in Lineage!Started'
        /\ Founded'
        /\ \A F \in Lineage!Families' :
             F \in Lineage!Families \/ F = {t} \/ (t \in F /\ Parent'[t] \in F /\ F \ {t} \in Lineage!Families)
    BY <2>1, <2>2, <2>3, NewSession
  <2>5. Lineage!OneIsLive'
    <3> SUFFICES ASSUME NEW F \in Lineage!Families', NEW x \in F, NEW y \in F,
                        Standing'[x] = "live", Standing'[y] = "live"
                 PROVE  x = y
      BY DEF Lineage!OneIsLive
    <3>1. F \subseteq Sessions
      BY DEF Lineage!Families
    <3>2. CASE F \in Lineage!Families
      <4>1. t \notin F
        BY <2>1, <3>2 DEF Lineage!Families
      <4>2. Standing[x] = "live" /\ Standing[y] = "live"
        BY <2>3, <3>1, <4>1
      <4> QED BY <3>2, <4>2 DEF LineageInv, Lineage!OneIsLive
    <3>3. CASE t \in F /\ s \in F /\ F \ {t} \in Lineage!Families
      <4>1. \A z \in F \ {t} : Standing[z] = "live" => z = s
        BY <2>1, <3>3 DEF LineageInv, Lineage!OneIsLive
      <4> QED BY <2>3, <3>1, <4>1
    <3> QED BY <2>3, <2>4, <3>2, <3>3
  <2> QED BY <2>3, <2>4, <2>5 DEF LineageInv
<1>4. ASSUME NEW s \in Sessions, Lineage!End(s) PROVE LineageInv'
  <2>1. /\ Standing[s] = "live" /\ Standing' = [Standing EXCEPT ![s] = "gone"]
        /\ Parent' = Parent
    BY <1>4 DEF Lineage!End
  <2>2. /\ Lineage!Started' = Lineage!Started
        /\ \A x \in Sessions : Standing'[x] = "live" => Standing[x] = "live"
        /\ DOMAIN Standing' = Sessions
    BY <2>1 DEF LineageInv
  <2>3. Lineage!Families' = Lineage!Families
    BY <2>1, <2>2 DEF Lineage!Families
  <2>4. Lineage!OneIsLive'
    BY <2>2, <2>3 DEF LineageInv, Lineage!OneIsLive, Lineage!Families
  <2> QED BY <2>1, <2>2, <2>4 DEF LineageInv, Founded
<1> QED BY <1>1, <1>2, <1>3, <1>4 DEF Lineage!Next

(* Of the guest sessions that descend from one another one at most is      *)
(* live: the lineages the store implements have that property.             *)
THEOREM OneSessionPerLineage == Spec => []Lineage!OneIsLive
<1>1. Lineage!Init => LineageInv
  <2> SUFFICES ASSUME Lineage!Init PROVE LineageInv
    OBVIOUS
  <2>1. /\ Standing = [s \in Sessions |-> "none"] /\ Parent = [s \in Sessions |-> None]
        /\ Lineage!Started = {}
    BY DEF Lineage!Init, Lineage!Started
  <2>2. Founded /\ Lineage!Families = {}
    BY <2>1 DEF Founded, Lineage!Families
  <2> QED BY <2>1, <2>2 DEF LineageInv, Lineage!OneIsLive
<1>2. LineageInv => Lineage!OneIsLive
  BY DEF LineageInv
<1> QED
  BY <1>1, <1>2, LineageStep, LineageRefinement, PTL DEF ImplementsLineage, Lineage!Spec
=============================================================================
