----------------------- MODULE OrderSubmissionProofs -----------------------
(***************************************************************************)
(* The properties of OrderSubmission hold for any number of requests,      *)
(* guests, keys and items, any menu, deadlines and version limit.          *)
(***************************************************************************)
EXTENDS OrderSubmission, TLAPS

(* What the tables say, whatever the requests are at.                      *)
EndsEnd == \A o \in ops : o.command.kind \in EndKinds => o.result.status # "Active"
KindsRecorded ==
  /\ \A o \in ops : o.command.kind \in EditKinds \cup EndKinds
  /\ \A o \in orders :
       o.command.kind = "CreateOrder" /\ o.command.item = None /\ o.command.choice = None
KeyTakenOnce ==
  /\ \A o, p \in ops :
       /\ o.command.key = p.command.key
       /\ o.command.kind \in EditKinds <=> p.command.kind \in EditKinds
       => o = p
  /\ \A q, p \in AttachedQuotes : q.command.key = p.command.key => q = p
  /\ \A o, p \in orders : o.command.key = p.command.key => o = p

(* A quote holds the lines of the version it was asked for.                *)
QuotesArePriced ==
  \A q \in AttachedQuotes : \E c \in Versions : c.version = q.version /\ c.lines = q.lines

TablesHold ==
  /\ NoEditIsLost /\ EndIsDueAndFinal /\ EndsEnd /\ KindsRecorded /\ KeyTakenOnce
  /\ QuotesArePriced
  /\ OrderIsQuotedCart

(* What request r holds: what it loaded is a version the cart has had and  *)
(* a quote that was attached, and what it was allowed on that version      *)
(* still is allowed there.                                                 *)
Fresh(r) ==
  pc[r] \in {"idle", "asked"} => seen[r] = None /\ held[r] = None
IsACommand(m) ==
  /\ m \in Commands
  /\ m.kind \in {"Add", "Update"} => m.choice \in Choices /\ m.guest \in Guests
  /\ m.kind = "CreateOrder" => m.item = None /\ m.choice = None
Asked(r) == pc[r] \notin {"idle", "refused"} => IsACommand(command[r])
EditHolds(r) ==
  command[r] \in Commands /\ command[r].kind \in EditKinds =>
    /\ pc[r] \in {"loaded", "selecting", "committing"} => seen[r] \in Versions
    /\ pc[r] \in {"selecting", "committing"} => MayEdit(seen[r], command[r])
    /\ pc[r] = "committing" /\ command[r].kind # "Remove" => offered[r] # 0
EndHolds(r) ==
  command[r] \in Commands /\ command[r].kind \in EndKinds /\ pc[r] = "committing" =>
    /\ seen[r] \in Versions
    /\ seen[r].version = command[r].expected /\ seen[r].version < MaxVersion
    /\ MayEnd(seen[r], command[r].kind, command[r].at)
QuoteHolds(r) ==
  command[r] \in Commands /\ command[r].kind = "AttachQuote" /\ pc[r] = "committing" =>
    seen[r] \in Versions
OrderHolds(r) ==
  command[r] \in Commands /\ command[r].kind = "CreateOrder" =>
    /\ pc[r] \in {"resolved", "checking", "committing"} =>
         seen[r] \in Versions \cup {None} /\ held[r] \in AttachedQuotes \cup {None}
    /\ pc[r] \in {"checking", "committing"} =>
         /\ seen[r] # None /\ held[r] # None /\ since[r] # 0
         /\ MayCheckOut(seen[r], held[r], command[r])
RequestHolds(r) ==
  Fresh(r) /\ Asked(r) /\ EditHolds(r) /\ EndHolds(r) /\ QuoteHolds(r) /\ OrderHolds(r)

RequestsHold == \A r \in Requests : RequestHolds(r)

IInv == TypeOK /\ TablesHold /\ RequestsHold /\ AnswersAreTrue

(***************************************************************************)
(* The initial states                                                      *)
(***************************************************************************)

LEMMA FirstCartIsACart == FirstCart \in Carts
  BY CartAssumption, TimeAssumption DEF FirstCart, Carts

LEMMA InitHolds == Init => IInv
<1> SUFFICES ASSUME Init PROVE IInv
  OBVIOUS
<1> USE DEF Init
<1>1. TypeOK
  BY FirstCartIsACart, CartAssumption, TimeAssumption DEF TypeOK, PCs
<1>2. TablesHold
  BY FirstCartIsACart DEF TablesHold, NoEditIsLost, EndIsDueAndFinal, EndsEnd, KindsRecorded,
    KeyTakenOnce, QuotesArePriced, OrderIsQuotedCart, Versions, AttachedQuotes, Carts
<1>3. RequestsHold /\ AnswersAreTrue
  BY DEF RequestsHold, RequestHolds, Fresh, Asked, EditHolds, EndHolds, QuoteHolds, OrderHolds,
    AnswersAreTrue, AnswerIsTrue
<1> QED
  BY <1>1, <1>2, <1>3 DEF IInv

(***************************************************************************)
(* Frames                                                                  *)
(***************************************************************************)

(* What a step of request r leaves of the others.                          *)
Stands(s) ==
  /\ command'[s] = command[s] /\ pc'[s] = pc[s] /\ seen'[s] = seen[s] /\ held'[s] = held[s]
  /\ offered'[s] = offered[s] /\ since'[s] = since[s]

(* Tables only grow.                                                       *)
Grows ==
  /\ Versions \subseteq Versions' /\ AttachedQuotes \subseteq AttachedQuotes'
  /\ cart.version <= cart'.version

(* Records that would make a true answer false are not inserted: a table   *)
(* gets no record of a key it has one of.                                  *)
KeepsAnswers ==
  \A m \in Commands : Under(m) # {} => Under(m)' = Under(m)

LEMMA StandingRequestHolds ==
  ASSUME IInv, TypeOK', Grows, NEW s \in Requests, Stands(s)
  PROVE  RequestHolds(s)'
<1>1. RequestHolds(s)
  BY DEF IInv, RequestsHold
<1>2. cart.version \in Nat /\ cart'.version \in Nat
  BY DEF IInv, TypeOK, Carts
<1>3. Fresh(s)' /\ Asked(s)'
  BY <1>1 DEF RequestHolds, Fresh, Asked, IsACommand, Stands
<1>4. EditHolds(s)'
  BY <1>1 DEF RequestHolds, EditHolds, Stands, Grows, MayEdit, IsActive, Items
<1>5. EndHolds(s)'
  BY <1>1 DEF RequestHolds, EndHolds, Stands, Grows, MayEnd, IsDue
<1>6. QuoteHolds(s)'
  BY <1>1 DEF RequestHolds, QuoteHolds, Stands, Grows
<1>7. OrderHolds(s)'
  BY <1>1, <1>2 DEF RequestHolds, OrderHolds, Stands, Grows, MayCheckOut, IsActive, Items,
    SameLines
<1> QED
  BY <1>3, <1>4, <1>5, <1>6, <1>7 DEF RequestHolds

LEMMA StandingAnswerHolds ==
  ASSUME IInv, KeepsAnswers, NEW s \in Requests, Stands(s)
  PROVE  AnswerIsTrue(s)'
<1> SUFFICES ASSUME pc[s] \in {"applied", "replayed"}
             PROVE  AnswerIsTrue(s)'
  BY DEF Stands, AnswerIsTrue
<1>1. AnswerIsTrue(s) /\ command[s] \in Commands
  BY DEF IInv, AnswersAreTrue, RequestsHold, RequestHolds, Asked, IsACommand
<1>2. Under(command[s]) # {}
  BY <1>1 DEF AnswerIsTrue
<1>3. PICK m \in Commands : m = command[s] /\ m = command'[s]
  BY <1>1 DEF Stands
<1>4. Under(m)' = Under(m)
  BY <1>1, <1>2, <1>3 DEF KeepsAnswers
<1>5. Under(command[s])' = Under(m)'
  BY <1>3 DEF Under, EditsUnder, EndsUnder, QuotesUnder, AttachedQuotes, OrdersUnder
<1> QED
  BY <1>1, <1>3, <1>4, <1>5 DEF AnswerIsTrue, Stands

(* What is asked under m was recorded once, and as it was asked.           *)
FoundAs(m) ==
  \E o \in Under(m) :
    /\ Under(m) = {o}
    /\ IF m.kind = "CreateOrder" THEN o.command = [m EXCEPT !.at = o.command.at]
                                 ELSE o.command = m

LEMMA TablesStand ==
  ASSUME IInv, UNCHANGED tables
  PROVE  /\ TablesHold' /\ Grows /\ KeepsAnswers
         /\ Versions' = Versions /\ AttachedQuotes' = AttachedQuotes
<1> USE DEF tables
<1>1. Versions' = Versions /\ AttachedQuotes' = AttachedQuotes
  BY DEF Versions, AttachedQuotes
<1>2. cart.version <= cart'.version
  BY DEF IInv, TypeOK, Carts
<1>3. ASSUME NEW m \in Commands PROVE Under(m)' = Under(m)
  BY <1>1 DEF Under, EditsUnder, EndsUnder, QuotesUnder, OrdersUnder
<1>4. NoEditIsLost' /\ EndIsDueAndFinal'
  BY <1>1 DEF IInv, TablesHold, NoEditIsLost, EndIsDueAndFinal, IsDue
<1>5. EndsEnd' /\ KindsRecorded' /\ KeyTakenOnce'
  BY <1>1 DEF IInv, TablesHold, EndsEnd, KindsRecorded, KeyTakenOnce
<1>6. QuotesArePriced' /\ OrderIsQuotedCart'
  BY <1>1 DEF IInv, TablesHold, QuotesArePriced, OrderIsQuotedCart, IsActive
<1> QED
  BY <1>1, <1>2, <1>3, <1>4, <1>5, <1>6 DEF TablesHold, Grows, KeepsAnswers

(* A request goes on and is not answered yet.                              *)
LEMMA GoingOnHolds ==
  ASSUME IInv, TypeOK', UNCHANGED tables, NEW r \in Requests,
         \A s \in Requests \ {r} : Stands(s),
         RequestHolds(r)', pc'[r] \notin {"applied", "replayed"}
  PROVE  IInv'
<1>1. TablesHold' /\ Grows /\ KeepsAnswers
  BY TablesStand
<1>2. RequestsHold'
  <2> SUFFICES ASSUME NEW s \in Requests PROVE RequestHolds(s)'
    BY DEF RequestsHold
  <2> QED
    BY <1>1, StandingRequestHolds
<1>3. AnswersAreTrue'
  <2> SUFFICES ASSUME NEW s \in Requests PROVE AnswerIsTrue(s)'
    BY DEF AnswersAreTrue
  <2>1. CASE s = r
    BY <2>1 DEF AnswerIsTrue
  <2>2. CASE s # r
    BY <1>1, <2>2, StandingAnswerHolds
  <2> QED
    BY <2>1, <2>2
<1> QED
  BY <1>1, <1>2, <1>3 DEF IInv

(* A request is answered; what it is told is so.                           *)
LEMMA AnsweringHolds ==
  ASSUME IInv, NEW r \in Requests, NEW to \in {"applied", "replayed", "refused"},
         pc[r] \notin {"idle", "refused"}, Answer(r, to), UNCHANGED outside,
         cart' \in Carts, ops' \subseteq Operations, quotes' \in Seq(Quotes),
         orders' \subseteq Orders,
         TablesHold', Grows, KeepsAnswers,
         \A m \in Commands : m = command[r] /\ to # "refused" => FoundAs(m)'
  PROVE  IInv'
<1>1. TypeOK'
  <2>1. TypeOK
    BY DEF IInv
  <2>2. command' \in [Requests -> Commands \cup {None}] /\ pc' \in [Requests -> PCs]
    BY <2>1 DEF TypeOK, Answer, Go, PCs
  <2>3. /\ seen' \in [Requests -> Carts \cup {None}]
        /\ held' \in [Requests -> Quotes \cup {None}]
        /\ offered' \in [Requests -> 0..MaxMenu]
    BY <2>1, CartAssumption DEF TypeOK, Answer
  <2>4. checked' \in [Requests -> SUBSET ItemRefs] /\ since' \in [Requests -> 0..MaxMenu]
    BY <2>1, CartAssumption DEF TypeOK, Answer
  <2> QED
    BY <2>1, <2>2, <2>3, <2>4 DEF TypeOK, outside
<1>2. \A s \in Requests \ {r} : Stands(s)
  BY DEF IInv, TypeOK, Answer, Go, Stands
<1>3. pc'[r] = to /\ (to # "refused" => command'[r] = command[r])
  BY DEF IInv, TypeOK, Answer, Go
<1>4. IsACommand(command[r])
  BY DEF IInv, RequestsHold, RequestHolds, Asked
<1>5. RequestHolds(r)'
  BY <1>3, <1>4 DEF RequestHolds, Fresh, Asked, IsACommand, EditHolds, EndHolds, QuoteHolds,
    OrderHolds
<1>6. AnswerIsTrue(r)'
  <2> SUFFICES ASSUME to # "refused" PROVE AnswerIsTrue(r)'
    BY <1>3 DEF AnswerIsTrue
  <2>1. PICK m \in Commands : m = command[r] /\ m = command'[r]
    BY <1>3, <1>4 DEF IsACommand
  <2>2. FoundAs(m)'
    BY <2>1
  <2>3. Under(command[r])' = Under(m)'
    BY <2>1 DEF Under, EditsUnder, EndsUnder, QuotesUnder, AttachedQuotes, OrdersUnder
  <2> QED
    BY <2>1, <2>2, <2>3 DEF FoundAs, AnswerIsTrue
<1>7. RequestsHold'
  <2> SUFFICES ASSUME NEW s \in Requests PROVE RequestHolds(s)'
    BY DEF RequestsHold
  <2> QED
    BY <1>1, <1>2, <1>5, StandingRequestHolds
<1>8. AnswersAreTrue'
  <2> SUFFICES ASSUME NEW s \in Requests PROVE AnswerIsTrue(s)'
    BY DEF AnswersAreTrue
  <2> QED
    BY <1>2, <1>6, StandingAnswerHolds
<1> QED
  BY <1>1, <1>7, <1>8 DEF IInv

LEMMA RefusingHolds ==
  ASSUME IInv, NEW r \in Requests, pc[r] \notin {"idle", "refused"}, Refuse(r)
  PROVE  IInv'
<1>1. TablesHold' /\ Grows /\ KeepsAnswers
  BY TablesStand DEF Refuse
<1>2. cart' \in Carts /\ ops' \subseteq Operations /\ quotes' \in Seq(Quotes)
        /\ orders' \subseteq Orders
  BY DEF Refuse, tables, IInv, TypeOK
<1> QED
  BY <1>1, <1>2, AnsweringHolds DEF Refuse

(* A key has one record of its kind.                                       *)
LEMMA OneRecord ==
  ASSUME IInv, NEW m \in Commands, NEW o \in Under(m)
  PROVE  Under(m) = {o}
<1>1. \A p, q \in Under(m) : p = q
  <2>1. KeyTakenOnce /\ KindsRecorded /\ \A k \in EndKinds : k \notin EditKinds
    BY DEF IInv, TablesHold, EditKinds, EndKinds
  <2>2. CASE m.kind \in EditKinds
    <3>1. Under(m) = EditsUnder(m.key)
      BY <2>2 DEF Under, EditKinds, EndKinds
    <3> QED
      BY <2>1, <3>1 DEF EditsUnder, KeyTakenOnce
  <2>3. CASE m.kind \in EndKinds
    <3>1. Under(m) = EndsUnder(m.key)
      BY <2>3 DEF Under, EditKinds, EndKinds
    <3> QED
      BY <2>1, <3>1 DEF EndsUnder, KeyTakenOnce
  <2>4. CASE m.kind = "AttachQuote"
    BY <2>1, <2>4 DEF Under, QuotesUnder, KeyTakenOnce, EditKinds, EndKinds
  <2>5. CASE m.kind = "CreateOrder"
    BY <2>1, <2>5 DEF Under, OrdersUnder, KeyTakenOnce, EditKinds, EndKinds
  <2> QED
    BY <2>2, <2>3, <2>4, <2>5 DEF Commands, AllKinds
<1> QED
  BY <1>1

(* A used key is answered from its record.                                 *)
LEMMA AnsweringFromHolds ==
  ASSUME IInv, NEW r \in Requests, pc[r] \notin {"idle", "refused"},
         command[r].kind # "CreateOrder", AnswerFrom(r, Under(command[r]))
  PROVE  IInv'
<1>1. TablesHold' /\ Grows /\ KeepsAnswers
  BY TablesStand DEF AnswerFrom
<1>2. cart' \in Carts /\ ops' \subseteq Operations /\ quotes' \in Seq(Quotes)
        /\ orders' \subseteq Orders
  BY DEF AnswerFrom, tables, IInv, TypeOK
<1>3. PICK m \in Commands : m = command[r]
  BY DEF IInv, RequestsHold, RequestHolds, Asked, IsACommand
<1>4. ASSUME NEW o \in Under(m), o.command = m
      PROVE  FoundAs(m)'
  <2>1. Under(m) = {o}
    BY <1>4, OneRecord
  <2>2. Under(m)' = {o}
    BY <1>1, <2>1 DEF KeepsAnswers
  <2> QED
    BY <1>3, <1>4, <2>2 DEF FoundAs
<1>5. CASE \E o \in Under(m) : o.command = m
  <2>1. Answer(r, "replayed") /\ UNCHANGED outside
    BY <1>3, <1>5 DEF AnswerFrom, SameIntent
  <2> QED
    BY <1>1, <1>2, <1>3, <1>4, <1>5, <2>1, AnsweringHolds
<1>6. CASE ~\E o \in Under(m) : o.command = m
  <2>1. Answer(r, "refused") /\ UNCHANGED outside
    BY <1>3, <1>6 DEF AnswerFrom, SameIntent
  <2> QED
    BY <1>1, <1>2, <2>1, AnsweringHolds
<1> QED
  BY <1>5, <1>6

(***************************************************************************)
(* Steps that write nothing down                                           *)
(***************************************************************************)

LEMMA AttachedAreQuotes ==
  ASSUME TypeOK
  PROVE  AttachedQuotes \subseteq Quotes
<1> SUFFICES ASSUME NEW n \in DOMAIN quotes PROVE quotes[n] \in Quotes
  BY DEF AttachedQuotes
<1>1. quotes \in Seq(Quotes)
  BY DEF TypeOK
<1> QED
  BY <1>1

(* Request r only moves on to its next step.                               *)
LEMMA ProceedingHolds ==
  ASSUME IInv, NEW r \in Requests, NEW to \in PCs, Proceed(r, to), RequestHolds(r)',
         to \notin {"applied", "replayed"}
  PROVE  IInv'
<1>1. TypeOK'
  BY DEF IInv, TypeOK, Proceed, Go, outside, tables
<1>2. pc'[r] = to /\ \A s \in Requests \ {r} : Stands(s)
  BY DEF IInv, TypeOK, Proceed, Go, Stands
<1> QED
  BY <1>1, <1>2, GoingOnHolds DEF Proceed

LEMMA RequestHoldsUp ==
  ASSUME IInv, NEW r \in Requests, Request(r)
  PROVE  IInv'
<1>1. PICK s \in Sends[r], key \in Keys, expected \in 1..cart.version : \E d \in Details(s[1]) :
         command' = [command EXCEPT ![r] =
                       [kind |-> s[1], key |-> key, guest |-> s[2], expected |-> expected,
                        item |-> d.item, choice |-> d.choice, quote |-> d.quote, at |-> now]]
  BY DEF Request
<1>2. PICK d \in Details(s[1]) :
         command' = [command EXCEPT ![r] =
                       [kind |-> s[1], key |-> key, guest |-> s[2], expected |-> expected,
                        item |-> d.item, choice |-> d.choice, quote |-> d.quote, at |-> now]]
  BY <1>1
<1> DEFINE m == [kind |-> s[1], key |-> key, guest |-> s[2], expected |-> expected,
                 item |-> d.item, choice |-> d.choice, quote |-> d.quote, at |-> now]
<1>3. /\ d.item \in IF s[1] \in {"Update", "Remove"} THEN ItemRefs ELSE {None}
      /\ d.choice \in IF s[1] \in {"Add", "Update"} THEN Choices ELSE {None}
      /\ d.quote \in Keys \cup {None}
  <2>1. \A n \in DOMAIN quotes : quotes[n].command.key \in Keys
    BY AttachedAreQuotes DEF AttachedQuotes, Quotes, Commands, IInv
  <2> QED
    BY <2>1 DEF Details
<1>4. s[1] \in AllKinds /\ s[2] \in Guests \cup {None} /\ (s[1] # "Expire" => s[2] \in Guests)
  BY SendsAssumption, SendersAssumption
<1>5. expected \in 1..MaxVersion /\ now \in 0..MaxTime
  BY CartAssumption DEF IInv, TypeOK, Carts
<1>6. IsACommand(m)
  BY <1>3, <1>4, <1>5 DEF IsACommand, Commands
<1>7. TypeOK'
  BY <1>2, <1>6 DEF IInv, TypeOK, Request, IsACommand, PCs, outside, tables
<1>8. \A t \in Requests \ {r} : Stands(t)
  BY <1>2 DEF IInv, TypeOK, Request, Stands
<1>9. command'[r] = m /\ pc'[r] = "asked"
  BY <1>2 DEF IInv, TypeOK, Request
<1>10. Fresh(r)'
  BY DEF IInv, RequestsHold, RequestHolds, Fresh, Request
<1>11. Asked(r)'
  BY <1>6, <1>9 DEF Asked, IsACommand
<1>12. RequestHolds(r)'
  BY <1>9, <1>10, <1>11 DEF RequestHolds, EditHolds, EndHolds, QuoteHolds, OrderHolds
<1> QED
  BY <1>7, <1>8, <1>9, <1>12, GoingOnHolds DEF Request

LEMMA LoadForEditHolds ==
  ASSUME IInv, NEW r \in Requests, LoadForEdit(r)
  PROVE  IInv'
<1>1. TypeOK' /\ \A s \in Requests \ {r} : Stands(s)
  BY DEF IInv, TypeOK, LoadForEdit, Go, PCs, Stands, outside, tables
<1>2. pc'[r] = "loaded" /\ seen'[r] = cart /\ command'[r] = command[r]
  BY DEF IInv, TypeOK, LoadForEdit, Go
<1>3. cart \in Versions'
  BY TablesStand DEF IInv, TablesHold, NoEditIsLost, LoadForEdit
<1>4. Asked(r)' /\ Fresh(r)'
  BY <1>2 DEF IInv, RequestsHold, RequestHolds, Asked, Fresh, IsACommand, LoadForEdit, At
<1>5. command[r].kind \in EditKinds
  BY DEF LoadForEdit, At
<1>6. RequestHolds(r)'
  BY <1>2, <1>3, <1>4, <1>5 DEF RequestHolds, EditHolds, EndHolds, QuoteHolds, OrderHolds
<1> QED
  BY <1>1, <1>2, <1>6, GoingOnHolds DEF LoadForEdit

LEMMA ResolveEditHolds ==
  ASSUME IInv, NEW r \in Requests, ResolveEdit(r)
  PROVE  IInv'
<1> DEFINE prior == EditsUnder(command[r].key)
<1>1. pc[r] = "loaded" /\ command[r].kind \in EditKinds
  BY DEF ResolveEdit, At
<1>2. CASE prior # {} /\ AnswerFrom(r, prior)
  <2>1. prior = Under(command[r]) /\ command[r].kind # "CreateOrder"
    BY <1>1 DEF Under, EditKinds, EndKinds
  <2> QED
    BY <1>1, <1>2, <2>1, AnsweringFromHolds
<1>3. CASE Refuse(r)
  BY <1>1, <1>3, RefusingHolds
<1>4. ASSUME MayEdit(seen[r], command[r]), NEW to \in {"committing", "selecting"},
             command[r].kind = "Remove" <=> to = "committing", Proceed(r, to)
      PROVE  IInv'
  <2>1. pc'[r] = to /\ seen'[r] = seen[r] /\ command'[r] = command[r]
    BY <1>4 DEF IInv, TypeOK, Proceed, Go
  <2>2. RequestHolds(r)
    BY DEF IInv, RequestsHold
  <2>3. seen[r] \in Versions'
    BY <1>1, <1>4, <2>2, TablesStand DEF RequestHolds, EditHolds, Asked, IsACommand, Proceed
  <2>4. MayEdit(seen[r], command[r])'
    BY <1>4, <2>1 DEF MayEdit, IsActive, Items
  <2>5. Asked(r)' /\ Fresh(r)'
    BY <1>1, <2>1, <2>2 DEF RequestHolds, Asked, Fresh, IsACommand
  <2>6. RequestHolds(r)'
    BY <1>1, <1>4, <2>1, <2>3, <2>4, <2>5
      DEF RequestHolds, EditHolds, EndHolds, QuoteHolds, OrderHolds, EditKinds, EndKinds
  <2> QED
    BY <1>4, <2>6, ProceedingHolds DEF PCs
<1> QED
  BY <1>2, <1>3, <1>4 DEF ResolveEdit

LEMMA SelectOnMenuHolds ==
  ASSUME IInv, NEW r \in Requests, SelectOnMenu(r)
  PROVE  IInv'
<1>1. TypeOK' /\ \A s \in Requests \ {r} : Stands(s)
  BY CartAssumption DEF IInv, TypeOK, SelectOnMenu, Go, PCs, Stands, outside, tables
<1>2. /\ pc'[r] = "committing" /\ seen'[r] = seen[r] /\ command'[r] = command[r]
      /\ offered'[r] # 0
  BY CartAssumption DEF IInv, TypeOK, SelectOnMenu, Go
<1>3. /\ pc[r] = "selecting" /\ command[r].kind \in EditKinds /\ RequestHolds(r)
      /\ IsACommand(command[r])
  BY DEF SelectOnMenu, At, IInv, RequestsHold, RequestHolds, Asked
<1>4. seen[r] \in Versions' /\ MayEdit(seen[r], command[r])
  BY <1>3, TablesStand DEF RequestHolds, EditHolds, IsACommand, SelectOnMenu
<1>5. MayEdit(seen[r], command[r])'
  BY <1>2, <1>4 DEF MayEdit, IsActive, Items
<1>6. RequestHolds(r)'
  BY <1>2, <1>3, <1>4, <1>5
    DEF RequestHolds, Asked, Fresh, IsACommand, EditHolds, EndHolds, QuoteHolds, OrderHolds,
      EditKinds, EndKinds
<1> QED
  BY <1>1, <1>2, <1>6, GoingOnHolds DEF SelectOnMenu

(* Both loads of an end and of a pricing go by the cart as it is now.      *)
LEMMA ResolveEndHolds ==
  ASSUME IInv, NEW r \in Requests, ResolveEnd(r)
  PROVE  IInv'
<1> DEFINE prior == EndsUnder(command[r].key)
<1>1. pc[r] = "asked" /\ command[r].kind \in EndKinds
  BY DEF ResolveEnd, At
<1>2. CASE AnswerFrom(r, prior)
  <2>1. prior = Under(command[r]) /\ command[r].kind # "CreateOrder"
    BY <1>1 DEF Under, EditKinds, EndKinds
  <2> QED
    BY <1>1, <1>2, <2>1, AnsweringFromHolds
<1>3. CASE Proceed(r, "resolved")
  <2>1. pc'[r] = "resolved" /\ command'[r] = command[r]
    BY <1>3 DEF IInv, TypeOK, Proceed, Go
  <2>2. RequestHolds(r)'
    BY <1>1, <2>1
      DEF IInv, RequestsHold, RequestHolds, Asked, IsACommand, Fresh, EditHolds, EndHolds,
        QuoteHolds, OrderHolds, EditKinds, EndKinds
  <2> QED
    BY <1>3, <2>2, ProceedingHolds DEF PCs
<1> QED
  BY <1>2, <1>3 DEF ResolveEnd

LEMMA LoadForEndHolds ==
  ASSUME IInv, NEW r \in Requests, LoadForEnd(r)
  PROVE  IInv'
<1>1. pc[r] = "resolved" /\ command[r].kind \in EndKinds
  BY DEF LoadForEnd, At
<1>2. CASE Refuse(r)
  BY <1>1, <1>2, RefusingHolds
<1>3. ASSUME cart.version = command[r].expected, cart.version < MaxVersion,
             MayEnd(cart, command[r].kind, command[r].at),
             seen' = [seen EXCEPT ![r] = cart], Go(r, "committing"),
             UNCHANGED <<outside, tables, command, held, offered, checked, since>>
      PROVE  IInv'
  <2>1. TypeOK' /\ \A s \in Requests \ {r} : Stands(s)
    BY <1>3 DEF IInv, TypeOK, Go, PCs, Stands, outside, tables
  <2>2. pc'[r] = "committing" /\ seen'[r] = cart /\ command'[r] = command[r]
    BY <1>3 DEF IInv, TypeOK, Go
  <2>3. cart \in Versions'
    BY <1>3, TablesStand DEF IInv, TablesHold, NoEditIsLost
  <2>4. MayEnd(seen[r], command[r].kind, command[r].at)'
    BY <1>3, <2>2 DEF MayEnd, IsDue
  <2>5. RequestHolds(r)'
    BY <1>1, <1>3, <2>2, <2>3, <2>4
      DEF IInv, RequestsHold, RequestHolds, Asked, IsACommand, Fresh, EditHolds, EndHolds,
        QuoteHolds, OrderHolds, EditKinds, EndKinds
  <2> QED
    BY <1>3, <2>1, <2>2, <2>5, GoingOnHolds
<1> QED
  BY <1>2, <1>3 DEF LoadForEnd

LEMMA ResolveAttachHolds ==
  ASSUME IInv, NEW r \in Requests, ResolveAttach(r)
  PROVE  IInv'
<1> DEFINE prior == QuotesUnder(command[r].key)
<1>1. pc[r] = "asked" /\ command[r].kind = "AttachQuote"
  BY DEF ResolveAttach, At
<1>2. CASE AnswerFrom(r, prior)
  <2>1. prior = Under(command[r])
    BY <1>1 DEF Under, EditKinds, EndKinds
  <2> QED
    BY <1>1, <1>2, <2>1, AnsweringFromHolds
<1>3. CASE Proceed(r, "resolved")
  <2>1. pc'[r] = "resolved" /\ command'[r] = command[r]
    BY <1>3 DEF IInv, TypeOK, Proceed, Go
  <2>2. RequestHolds(r)'
    BY <1>1, <2>1
      DEF IInv, RequestsHold, RequestHolds, Asked, IsACommand, Fresh, EditHolds, EndHolds,
        QuoteHolds, OrderHolds, EditKinds, EndKinds
  <2> QED
    BY <1>3, <2>2, ProceedingHolds DEF PCs
<1> QED
  BY <1>2, <1>3 DEF ResolveAttach

LEMMA LoadForQuoteHolds ==
  ASSUME IInv, NEW r \in Requests, LoadForQuote(r)
  PROVE  IInv'
<1>1. pc[r] = "resolved" /\ command[r].kind = "AttachQuote"
  BY DEF LoadForQuote, At
<1>2. CASE Refuse(r)
  BY <1>1, <1>2, RefusingHolds
<1>3. ASSUME seen' = [seen EXCEPT ![r] = cart], Go(r, "committing"),
             UNCHANGED <<outside, tables, command, held, offered, checked, since>>
      PROVE  IInv'
  <2>1. TypeOK' /\ \A s \in Requests \ {r} : Stands(s)
    BY <1>3 DEF IInv, TypeOK, Go, PCs, Stands, outside, tables
  <2>2. pc'[r] = "committing" /\ seen'[r] = cart /\ command'[r] = command[r]
    BY <1>3 DEF IInv, TypeOK, Go
  <2>3. cart \in Versions'
    BY <1>3, TablesStand DEF IInv, TablesHold, NoEditIsLost
  <2>4. RequestHolds(r)'
    BY <1>1, <1>3, <2>2, <2>3
      DEF IInv, RequestsHold, RequestHolds, Asked, IsACommand, Fresh, EditHolds, EndHolds,
        QuoteHolds, OrderHolds, EditKinds, EndKinds
  <2> QED
    BY <1>3, <2>1, <2>2, <2>4, GoingOnHolds
<1> QED
  BY <1>2, <1>3 DEF LoadForQuote

LEMMA ResolveSubmissionHolds ==
  ASSUME IInv, NEW r \in Requests, ResolveSubmission(r)
  PROVE  IInv'
<1> DEFINE prior == OrdersUnder(command[r].key)
<1>1. pc[r] = "asked" /\ command[r].kind = "CreateOrder"
  BY DEF ResolveSubmission, At
<1>2. PICK m \in Commands : m = command[r] /\ m.item = None /\ m.choice = None
  BY <1>1 DEF IInv, RequestsHold, RequestHolds, Asked, IsACommand
<1>3. Under(m) = prior
  BY <1>1, <1>2 DEF Under, EditKinds, EndKinds
<1>4. ASSUME UNCHANGED <<outside, tables>> PROVE
        /\ TablesHold' /\ Grows /\ KeepsAnswers
        /\ cart' \in Carts /\ ops' \subseteq Operations /\ quotes' \in Seq(Quotes)
        /\ orders' \subseteq Orders
  BY <1>4, TablesStand DEF IInv, TypeOK, tables
<1>5. ASSUME NEW o \in prior, SameSubmission(o.command, m), UNCHANGED <<outside, tables>>
      PROVE  FoundAs(m)'
  <2>1. Under(m) = {o}
    BY <1>3, OneRecord
  <2>2. Under(m)' = {o}
    BY <1>4, <1>5, <2>1 DEF KeepsAnswers
  <2>3. o.command \in Commands /\ o.command.key = m.key /\ o.command.kind = "CreateOrder"
          /\ o.command.item = None /\ o.command.choice = None
    BY <1>2 DEF IInv, TypeOK, Orders, TablesHold, KindsRecorded, OrdersUnder
  <2>4. o.command = [m EXCEPT !.at = o.command.at]
    BY <1>1, <1>2, <1>5, <2>3 DEF SameSubmission, Commands
  <2> QED
    BY <1>1, <1>2, <2>2, <2>4 DEF FoundAs
<1>6. CASE prior # {} /\ UNCHANGED <<outside, tables>> /\ Answer(r, "refused")
  BY <1>1, <1>4, <1>6, AnsweringHolds
<1>7. CASE /\ \E o \in prior : SameSubmission(o.command, m)
           /\ UNCHANGED <<outside, tables>> /\ Answer(r, "replayed")
  <2>1. FoundAs(m)'
    BY <1>5, <1>7
  <2> QED
    BY <1>1, <1>2, <1>4, <1>7, <2>1, AnsweringHolds
<1>8. CASE Proceed(r, "resolved")
  <2>1. pc'[r] = "resolved" /\ command'[r] = command[r] /\ seen'[r] = seen[r]
          /\ held'[r] = held[r] /\ since'[r] = since[r]
    BY <1>8 DEF IInv, TypeOK, Proceed, Go
  <2>2. RequestHolds(r)'
    BY <1>1, <2>1
      DEF IInv, RequestsHold, RequestHolds, Asked, IsACommand, Fresh, EditHolds, EndHolds,
        QuoteHolds, OrderHolds, EditKinds, EndKinds
  <2> QED
    BY <1>8, <2>2, ProceedingHolds DEF PCs
<1> QED
  BY <1>2, <1>6, <1>7, <1>8 DEF ResolveSubmission

LEMMA LoadCartHolds ==
  ASSUME IInv, NEW r \in Requests, LoadCart(r)
  PROVE  IInv'
<1>1. TypeOK' /\ \A s \in Requests \ {r} : Stands(s)
  BY DEF IInv, TypeOK, LoadCart, Stands, outside, tables
<1>2. /\ pc'[r] = "resolved" /\ seen'[r] = cart /\ command'[r] = command[r]
      /\ held'[r] = held[r] /\ since'[r] = since[r]
      /\ pc[r] = "resolved" /\ command[r].kind = "CreateOrder"
  BY DEF IInv, TypeOK, LoadCart, At
<1>3. cart \in Versions' /\ AttachedQuotes' = AttachedQuotes
  BY TablesStand DEF IInv, TablesHold, NoEditIsLost, LoadCart
<1>4. RequestHolds(r)'
  BY <1>2, <1>3
    DEF IInv, RequestsHold, RequestHolds, Asked, IsACommand, Fresh, EditHolds, EndHolds,
      QuoteHolds, OrderHolds, EditKinds, EndKinds
<1> QED
  BY <1>1, <1>2, <1>4, GoingOnHolds DEF LoadCart

LEMMA LoadQuoteHolds ==
  ASSUME IInv, NEW r \in Requests, LoadQuote(r)
  PROVE  IInv'
<1>1. quotes[Len(quotes)] \in AttachedQuotes
  <2>1. quotes \in Seq(Quotes) /\ quotes # <<>>
    BY DEF IInv, TypeOK, LoadQuote
  <2>2. Len(quotes) \in DOMAIN quotes
    BY <2>1
  <2> QED
    BY <2>2 DEF AttachedQuotes
<1>2. TypeOK' /\ \A s \in Requests \ {r} : Stands(s)
  BY <1>1, AttachedAreQuotes DEF IInv, TypeOK, LoadQuote, Stands, outside, tables
<1>3. /\ pc'[r] = "resolved" /\ seen'[r] = seen[r] /\ command'[r] = command[r]
      /\ held'[r] \in AttachedQuotes /\ since'[r] = since[r]
      /\ pc[r] = "resolved" /\ command[r].kind = "CreateOrder"
  BY <1>1 DEF IInv, TypeOK, LoadQuote, At
<1>4. Versions' = Versions /\ AttachedQuotes' = AttachedQuotes
  BY TablesStand DEF LoadQuote
<1>5. RequestHolds(r)'
  BY <1>3, <1>4
    DEF IInv, RequestsHold, RequestHolds, Asked, IsACommand, Fresh, EditHolds, EndHolds,
      QuoteHolds, OrderHolds, EditKinds, EndKinds
<1> QED
  BY <1>2, <1>3, <1>5, GoingOnHolds DEF LoadQuote

LEMMA CheckCheckoutHolds ==
  ASSUME IInv, NEW r \in Requests, CheckCheckout(r)
  PROVE  IInv'
<1>1. /\ pc[r] = "resolved" /\ command[r].kind = "CreateOrder"
      /\ seen[r] # None /\ held[r] # None
  BY DEF CheckCheckout, At
<1>2. CASE Refuse(r)
  BY <1>1, <1>2, RefusingHolds
<1>3. ASSUME MayCheckOut(seen[r], held[r], command[r]),
             since' = [since EXCEPT ![r] = menu], Go(r, "checking"),
             UNCHANGED <<outside, tables, command, seen, held, offered, checked>>
      PROVE  IInv'
  <2>1. TypeOK' /\ \A s \in Requests \ {r} : Stands(s)
    BY <1>3, CartAssumption DEF IInv, TypeOK, Go, PCs, Stands, outside, tables
  <2>2. pc'[r] = "checking" /\ command'[r] = command[r] /\ seen'[r] = seen[r]
          /\ held'[r] = held[r] /\ since'[r] # 0
    BY <1>3, CartAssumption DEF IInv, TypeOK, Go
  <2>3. Versions' = Versions /\ AttachedQuotes' = AttachedQuotes
    BY <1>3, TablesStand
  <2>4. MayCheckOut(seen[r], held[r], command[r])'
    BY <1>3, <2>2 DEF MayCheckOut, IsActive, Items, SameLines
  <2>5. RequestHolds(r)'
    BY <1>1, <2>2, <2>3, <2>4
      DEF IInv, RequestsHold, RequestHolds, Asked, IsACommand, Fresh, EditHolds, EndHolds,
        QuoteHolds, OrderHolds, EditKinds, EndKinds
  <2> QED
    BY <1>3, <2>1, <2>2, <2>5, GoingOnHolds
<1> QED
  BY <1>2, <1>3 DEF CheckCheckout

(* A version that was loaded is not ahead of the row, and is the row when  *)
(* it has the row's version.                                               *)
LEMMA LoadedIsBehind ==
  ASSUME IInv, NEW c \in Versions
  PROVE  /\ c \in Carts /\ c.version <= cart.version
         /\ c.version = cart.version => c = cart
  BY FirstCartIsACart DEF IInv, TypeOK, TablesHold, NoEditIsLost, Versions, Operations

LEMMA RevalidateItemHolds ==
  ASSUME IInv, NEW r \in Requests, NEW i \in ItemRefs, RevalidateItem(r, i)
  PROVE  IInv'
<1>1. pc[r] = "checking" /\ command[r].kind = "CreateOrder"
  BY DEF RevalidateItem, At
<1>2. CASE Refuse(r)
  BY <1>1, <1>2, RefusingHolds
<1>3. ASSUME checked' = [checked EXCEPT ![r] = @ \cup {i}],
             UNCHANGED <<outside, tables, command, pc, seen, held, offered, since>>
      PROVE  IInv'
  <2>1. TypeOK'
    BY <1>3 DEF IInv, TypeOK, outside, tables
  <2>2. \A s \in Requests \ {r} : Stands(s)
    BY <1>3 DEF IInv, TypeOK, Stands
  <2>3. /\ pc'[r] = "checking" /\ command'[r] = command[r] /\ seen'[r] = seen[r]
        /\ held'[r] = held[r] /\ cart' = cart /\ since'[r] = since[r]
    BY <1>1, <1>3 DEF IInv, TypeOK, tables
  <2>4. Versions' = Versions /\ AttachedQuotes' = AttachedQuotes
    BY <1>3, TablesStand
  <2>5. OrderHolds(r) /\ Asked(r)
    BY DEF IInv, RequestsHold, RequestHolds
  <2>6. seen[r] \in Versions /\ MayCheckOut(seen[r], held[r], command[r])
    BY <1>1, <2>5 DEF OrderHolds, Asked, IsACommand
  <2>7. MayCheckOut(seen[r], held[r], command[r])'
    BY <2>3, <2>6 DEF MayCheckOut, IsActive, Items, SameLines
  <2>9. OrderHolds(r)'
    BY <1>1, <2>3, <2>4, <2>5, <2>7 DEF OrderHolds, Asked, IsACommand
  <2>10. RequestHolds(r)'
    BY <1>1, <2>3, <2>5, <2>9
      DEF RequestHolds, Asked, IsACommand, Fresh, EditHolds, EndHolds, QuoteHolds, EditKinds,
        EndKinds
  <2> QED
    BY <1>3, <2>1, <2>2, <2>3, <2>10, GoingOnHolds
<1> QED
  BY <1>2, <1>3 DEF RevalidateItem

LEMMA LoadSourceHolds ==
  ASSUME IInv, NEW r \in Requests, LoadSource(r)
  PROVE  IInv'
<1>1. pc[r] = "checking" /\ command[r].kind = "CreateOrder"
  BY DEF LoadSource, At
<1>2. CASE Refuse(r)
  BY <1>1, <1>2, RefusingHolds
<1>3. ASSUME IsValidated(r), seen' = [seen EXCEPT ![r] = cart], Go(r, "committing"),
             UNCHANGED <<outside, tables, command, held, offered, checked, since>>
      PROVE  IInv'
  <2>1. TypeOK' /\ \A s \in Requests \ {r} : Stands(s)
    BY <1>3 DEF IInv, TypeOK, Go, PCs, Stands, outside, tables
  <2>2. OrderHolds(r) /\ Asked(r)
    BY DEF IInv, RequestsHold, RequestHolds
  <2>3. seen[r] \in Versions /\ MayCheckOut(seen[r], held[r], command[r])
    BY <1>1, <2>2 DEF OrderHolds, Asked, IsACommand
  <2>4. cart.version = seen[r].version /\ seen[r] = cart
    BY <1>3, <2>3, LoadedIsBehind DEF IsValidated
  <2>5. /\ pc'[r] = "committing" /\ command'[r] = command[r] /\ seen'[r] = seen[r]
        /\ held'[r] = held[r] /\ since'[r] = since[r]
    BY <1>3, <2>4 DEF IInv, TypeOK, Go
  <2>7. Versions' = Versions /\ AttachedQuotes' = AttachedQuotes
    BY <1>3, TablesStand
  <2>8. MayCheckOut(seen[r], held[r], command[r])'
    BY <2>3, <2>5 DEF MayCheckOut, IsActive, Items, SameLines
  <2>9. OrderHolds(r)'
    BY <1>1, <2>2, <2>5, <2>7, <2>8 DEF OrderHolds, Asked, IsACommand
  <2>10. RequestHolds(r)'
    BY <1>1, <2>2, <2>5, <2>9
      DEF RequestHolds, Asked, IsACommand, Fresh, EditHolds, EndHolds, QuoteHolds, EditKinds,
        EndKinds
  <2> QED
    BY <1>3, <2>1, <2>5, <2>10, GoingOnHolds
<1> QED
  BY <1>2, <1>3 DEF LoadSource

(* The clock, the catalog and a stutter touch no request.                  *)
LEMMA SurroundingsHold ==
  ASSUME IInv, Tick \/ Publish \/ UNCHANGED vars
  PROVE  IInv'
<1>1. UNCHANGED <<tables, local>>
  BY DEF Tick, Publish, vars, tables, local
<1>2. TypeOK'
  BY <1>1, CartAssumption, TimeAssumption
    DEF IInv, TypeOK, Tick, Publish, vars, tables, local
<1>3. TablesHold' /\ Grows /\ KeepsAnswers
  BY <1>1, TablesStand
<1>4. \A s \in Requests : Stands(s)
  BY <1>1 DEF Stands, local
<1>5. RequestsHold'
  <2> SUFFICES ASSUME NEW s \in Requests PROVE RequestHolds(s)'
    BY DEF RequestsHold
  <2> QED
    BY <1>2, <1>3, <1>4, StandingRequestHolds
<1>6. AnswersAreTrue'
  <2> SUFFICES ASSUME NEW s \in Requests PROVE AnswerIsTrue(s)'
    BY DEF AnswersAreTrue
  <2> QED
    BY <1>3, <1>4, StandingAnswerHolds
<1> QED
  BY <1>2, <1>3, <1>5, <1>6 DEF IInv

(***************************************************************************)
(* Steps that commit                                                       *)
(***************************************************************************)

(* A table without a record under m gets the one o, of m itself.           *)
LEMMA TheRecordIsFound ==
  ASSUME NEW m \in Commands, NEW o, o.command = m, Under(m)' = {o}
  PROVE  FoundAs(m)'
<1>1. m = [m EXCEPT !.at = m.at]
  BY DEF Commands
<1> QED
  BY <1>1 DEF FoundAs

(* The cart's next version is committed with the record of what made it.   *)
LEMMA NextVersionHolds ==
  ASSUME IInv, NEW m \in Commands, NEW i \in ItemRefs \cup {None}, NEW result \in Carts,
         m.kind \in EditKinds \cup EndKinds, Under(m) = {},
         result.version = cart.version + 1, cart.status = "Active",
         m.kind = "Expire" <=> IsDue(cart, m.at),
         m.kind \in EndKinds => result.status # "Active",
         \A j \in ItemRefs \ {i} : result.lines[j] = cart.lines[j],
         cart' = result, UNCHANGED <<quotes, orders>>,
         ops' = ops \cup {[command |-> m, item |-> i, result |-> result]}
  PROVE  ops' \subseteq Operations /\ TablesHold' /\ Grows /\ KeepsAnswers /\ FoundAs(m)'
<1> DEFINE o == [command |-> m, item |-> i, result |-> result]
<1>1. /\ o \in Operations /\ o.command = m /\ o.item = i /\ o.result = result
      /\ ops' = ops \cup {o}
  BY DEF Operations
<1> HIDE DEF o
<1>2. ops' \subseteq Operations
  BY <1>1 DEF IInv, TypeOK
<1>3. TablesHold /\ cart \in Carts /\ cart.version \in Nat /\ cart \in Versions
  BY DEF IInv, TypeOK, Carts, TablesHold, NoEditIsLost
<1>4. Versions' = Versions \cup {result} /\ AttachedQuotes' = AttachedQuotes
  BY <1>1 DEF Versions, AttachedQuotes
<1>5. ASSUME NEW c \in Versions
      PROVE  /\ c.version \in Nat /\ c.version <= cart.version /\ c.version < result.version
             /\ c # result /\ (c.version = cart.version => c = cart)
  BY <1>3, LoadedIsBehind DEF Carts
<1>6. result.version \in Nat /\ cart.version < result.version /\ cart' = result
  BY <1>3
<1>7. NoEditIsLost'
  <2>1. cart' \in Versions' /\ \A c \in Versions' : c.version <= cart'.version
    BY <1>4, <1>5, <1>6
  <2>2. \A c, d \in Versions' : c.version = d.version => c = d
    BY <1>3, <1>4, <1>5 DEF TablesHold, NoEditIsLost
  <2>3. ASSUME NEW p \in ops'
        PROVE  \E c \in Versions' :
                 /\ c.version + 1 = p.result.version
                 /\ \A j \in ItemRefs \ {p.item} : p.result.lines[j] = c.lines[j]
    <3>1. CASE p \in ops
      BY <1>3, <1>4, <3>1 DEF TablesHold, NoEditIsLost
    <3>2. CASE p = o
      BY <1>1, <1>3, <1>4, <3>2
    <3> QED
      BY <1>1, <3>1, <3>2
  <2> QED
    BY <2>1, <2>2, <2>3 DEF NoEditIsLost
<1>8. EndIsDueAndFinal'
  <2> SUFFICES ASSUME NEW p \in ops', NEW c \in Versions'
               PROVE  /\ c.version + 1 = p.result.version =>
                           /\ c.status = "Active"
                           /\ p.command.kind = "Expire" <=> IsDue(c, p.command.at)
                      /\ p.command.kind \in EndKinds /\ c # p.result =>
                           c.version < p.result.version
    BY DEF EndIsDueAndFinal, IsDue
  <2>1. CASE p \in ops /\ c \in Versions
    BY <1>3, <2>1 DEF TablesHold, EndIsDueAndFinal
  <2>2. CASE p \in ops /\ c = result
    <3>1. p.result \in Versions
      BY <2>2 DEF Versions
    <3>2. c.version + 1 # p.result.version
      BY <1>5, <1>6, <2>2, <3>1
    <3>3. p.command.kind \notin EndKinds
      <4> SUFFICES ASSUME p.command.kind \in EndKinds PROVE FALSE
        OBVIOUS
      <4>1. p.result # cart
        BY <1>3, <2>2 DEF TablesHold, EndsEnd
      <4>2. cart.version < p.result.version
        BY <1>3, <2>2, <4>1 DEF TablesHold, EndIsDueAndFinal
      <4> QED
        BY <1>3, <1>5, <3>1, <4>2
    <3> QED
      BY <3>2, <3>3
  <2>3. CASE p = o /\ c \in Versions
    BY <1>1, <1>3, <1>5, <2>3
  <2>4. CASE p = o /\ c = result
    BY <1>1, <1>6, <2>4
  <2> QED
    BY <1>1, <1>4, <2>1, <2>2, <2>3, <2>4
<1>9. EndsEnd' /\ KindsRecorded'
  BY <1>1, <1>3 DEF TablesHold, EndsEnd, KindsRecorded
<1>10. ASSUME NEW p \in ops, p.command.key = m.key
       PROVE  ~(p.command.kind \in EditKinds <=> m.kind \in EditKinds)
  <2>1. p.command.kind \in EditKinds \cup EndKinds
    BY <1>3 DEF TablesHold, KindsRecorded
  <2>2. CASE m.kind \in EditKinds
    BY <1>10, <2>1, <2>2 DEF Under, EditsUnder, EditKinds, EndKinds
  <2>3. CASE m.kind \in EndKinds
    BY <1>10, <2>1, <2>3 DEF Under, EndsUnder, EditKinds, EndKinds
  <2> QED
    BY <2>2, <2>3
<1>11. KeyTakenOnce'
  <2>1. \A p, q \in ops' :
          /\ p.command.key = q.command.key
          /\ p.command.kind \in EditKinds <=> q.command.kind \in EditKinds
          => p = q
    BY <1>1, <1>3, <1>10 DEF TablesHold, KeyTakenOnce
  <2> QED
    BY <1>3, <1>4, <2>1 DEF TablesHold, KeyTakenOnce
<1>12. QuotesArePriced' /\ OrderIsQuotedCart'
  BY <1>3, <1>4 DEF TablesHold, QuotesArePriced, OrderIsQuotedCart, IsActive
<1>13. Grows
  BY <1>3, <1>4, <1>6 DEF Grows
<1>14. Under(m)' = {o}
  <2>1. CASE m.kind \in EditKinds
    BY <1>1, <2>1 DEF Under, EditsUnder, EditKinds, EndKinds
  <2>2. CASE m.kind \in EndKinds
    BY <1>1, <2>2 DEF Under, EndsUnder, EditKinds, EndKinds
  <2> QED
    BY <2>1, <2>2
<1>15. KeepsAnswers
  <2> SUFFICES ASSUME NEW d \in Commands, Under(d) # {}
               PROVE  Under(d)' = Under(d)
    BY DEF KeepsAnswers
  <2>1. CASE d.kind \in EditKinds
    <3>1. Under(d) = EditsUnder(d.key) /\ Under(d)' = EditsUnder(d.key)'
      BY <2>1 DEF Under, EditKinds, EndKinds
    <3> QED
      BY <1>1, <1>10, <3>1 DEF EditsUnder
  <2>2. CASE d.kind \in EndKinds
    <3>1. Under(d) = EndsUnder(d.key) /\ Under(d)' = EndsUnder(d.key)'
      BY <2>2 DEF Under, EditKinds, EndKinds
    <3> QED
      BY <1>1, <1>10, <3>1 DEF EndsUnder, EditKinds, EndKinds
  <2>3. CASE d.kind \in {"AttachQuote", "CreateOrder"}
    BY <1>4, <2>3 DEF Under, QuotesUnder, OrdersUnder, EditKinds, EndKinds
  <2> QED
    BY <2>1, <2>2, <2>3 DEF Commands, AllKinds
<1> QED
  BY <1>1, <1>2, <1>7, <1>8, <1>9, <1>11, <1>12, <1>13, <1>14, <1>15, TheRecordIsFound
    DEF TablesHold

LEMMA CommitEditHolds ==
  ASSUME IInv, NEW r \in Requests, CommitEdit(r)
  PROVE  IInv'
<1> DEFINE k == command[r]
<1>1. pc[r] = "committing" /\ k.kind \in EditKinds
  BY DEF CommitEdit, At
<1>2. CASE Refuse(r)
  BY <1>1, <1>2, RefusingHolds
<1>3. ASSUME IsCurrent(k), EditsUnder(k.key) = {}, NEW i \in ItemsFor(k),
             cart' = Edited(seen[r], i, LineOf(k, offered[r]), k.at),
             ops' = ops \cup {[command |-> k, item |-> i, result |-> cart']},
             Answer(r, "applied"), UNCHANGED <<outside, quotes, orders>>
      PROVE  IInv'
  <2>1. PICK m \in Commands : m = k
    BY <1>1 DEF IInv, RequestsHold, RequestHolds, Asked, IsACommand
  <2>2. IsACommand(m) /\ EditHolds(r) /\ m.kind \in EditKinds
    BY <1>1, <2>1 DEF IInv, RequestsHold, RequestHolds, Asked
  <2>3. seen[r] \in Versions /\ MayEdit(seen[r], m)
          /\ (m.kind # "Remove" => offered[r] # 0)
    BY <1>1, <2>1, <2>2 DEF EditHolds
  <2>4. seen[r] = cart
    BY <1>3, <2>1, <2>3, LoadedIsBehind DEF IsCurrent, MayEdit
  <2>5. cart \in Carts /\ cart.version \in Nat /\ m.at \in Nat /\ cart.idle \in Nat
    BY DEF IInv, TypeOK, Carts, Commands
  <2>6. i \in ItemRefs
    BY <1>3, <2>1, <2>2, <2>3, <2>4 DEF ItemsFor, MayEdit, Items, EditKinds
  <2>7. LineOf(m, offered[r]) \in Line \cup {None}
    BY <2>2, <2>3 DEF IsACommand, LineOf, Line, EditKinds, IInv, TypeOK
  <2> DEFINE result == Edited(cart, i, LineOf(m, offered[r]), m.at)
  <2>8. result \in Carts
    <3>1. Advanced(m.at) \in Nat
      BY <2>5, TimeAssumption DEF Advanced
    <3>2. cart.version + 1 \in 1..MaxVersion
      BY <2>3, <2>4, CartAssumption DEF MayEdit, IInv, TypeOK, Carts
    <3>3. [cart.lines EXCEPT ![i] = LineOf(m, offered[r])] \in Lines
      BY <2>5, <2>6, <2>7 DEF Carts, Lines
    <3> QED
      BY <2>5, <3>1, <3>2, <3>3 DEF Edited, Carts
  <2>9. /\ result.version = cart.version + 1 /\ cart.status = "Active"
        /\ \A j \in ItemRefs \ {i} : result.lines[j] = cart.lines[j]
    BY <2>3, <2>4, <2>5, <2>6 DEF Edited, MayEdit, IsActive, Carts, Lines
  <2>10. m.kind \notin EndKinds /\ m.kind # "Expire"
    BY <2>2 DEF EditKinds, EndKinds
  <2>11. ~IsDue(cart, m.at)
    BY <2>3, <2>4, <2>5, TimeAssumption DEF MayEdit, IsActive, IsDue
  <2>12. Under(m) = {}
    BY <1>3, <2>1, <2>2 DEF Under, EditKinds, EndKinds
  <2>13. cart' = result /\ ops' = ops \cup {[command |-> m, item |-> i, result |-> result]}
    BY <1>3, <2>1, <2>4
  <2> HIDE DEF result
  <2>14. ops' \subseteq Operations /\ TablesHold' /\ Grows /\ KeepsAnswers /\ FoundAs(m)'
    BY <1>3, <2>2, <2>6, <2>8, <2>9, <2>10, <2>11, <2>12, <2>13, NextVersionHolds
  <2>15. cart' \in Carts /\ quotes' \in Seq(Quotes) /\ orders' \subseteq Orders
    BY <1>3, <2>8, <2>13 DEF IInv, TypeOK
  <2> QED
    BY <1>1, <1>3, <2>1, <2>14, <2>15, AnsweringHolds
<1> QED
  BY <1>2, <1>3 DEF CommitEdit

LEMMA CommitEndHolds ==
  ASSUME IInv, NEW r \in Requests, CommitEnd(r)
  PROVE  IInv'
<1> DEFINE k == command[r]
<1>1. pc[r] = "committing" /\ k.kind \in EndKinds
  BY DEF CommitEnd, At
<1>2. CASE Refuse(r)
  BY <1>1, <1>2, RefusingHolds
<1>3. ASSUME IsCurrent(k), EndsUnder(k.key) = {}, cart' = Ended(seen[r], k.kind),
             ops' = ops \cup {[command |-> k, item |-> None, result |-> cart']},
             Answer(r, "applied"), UNCHANGED <<outside, quotes, orders>>
      PROVE  IInv'
  <2>1. PICK m \in Commands : m = k
    BY <1>1 DEF IInv, RequestsHold, RequestHolds, Asked, IsACommand
  <2>2. EndHolds(r) /\ m.kind \in EndKinds
    BY <1>1, <2>1 DEF IInv, RequestsHold, RequestHolds
  <2>3. seen[r] \in Versions /\ seen[r].version = m.expected /\ seen[r].version < MaxVersion
          /\ MayEnd(seen[r], m.kind, m.at)
    BY <1>1, <2>1, <2>2 DEF EndHolds
  <2>4. seen[r] = cart
    BY <1>3, <2>1, <2>3, LoadedIsBehind DEF IsCurrent
  <2>5. cart \in Carts /\ cart.version \in Nat
    BY DEF IInv, TypeOK, Carts
  <2> DEFINE result == Ended(cart, m.kind)
  <2>6. result \in Carts /\ result.version = cart.version + 1 /\ result.status # "Active"
          /\ result.lines = cart.lines
    <3>1. cart.version + 1 \in 1..MaxVersion
      BY <2>3, <2>4, CartAssumption DEF IInv, TypeOK, Carts
    <3>2. result.version = cart.version + 1 /\ result.lines = cart.lines
      BY <2>5 DEF Ended, Carts
    <3>3. result.status # "Active"
      BY <2>5 DEF Ended, Carts
    <3> QED
      BY <2>5, <3>1, <3>2, <3>3 DEF Ended, Carts
  <2>7. cart.status = "Active" /\ (m.kind = "Expire" <=> IsDue(cart, m.at))
    BY <2>3, <2>4 DEF MayEnd
  <2>8. Under(m) = {}
    BY <1>3, <2>1, <2>2 DEF Under, EditKinds, EndKinds
  <2>9. cart' = result /\ ops' = ops \cup {[command |-> m, item |-> None, result |-> result]}
    BY <1>3, <2>1, <2>4
  <2> HIDE DEF result
  <2>10. ops' \subseteq Operations /\ TablesHold' /\ Grows /\ KeepsAnswers /\ FoundAs(m)'
    BY <1>3, <2>2, <2>6, <2>7, <2>8, <2>9, NextVersionHolds
  <2>11. cart' \in Carts /\ quotes' \in Seq(Quotes) /\ orders' \subseteq Orders
    BY <1>3, <2>6, <2>9 DEF IInv, TypeOK
  <2> QED
    BY <1>1, <1>3, <2>1, <2>10, <2>11, AnsweringHolds
<1> QED
  BY <1>2, <1>3 DEF CommitEnd

LEMMA AppendAttaches ==
  ASSUME TypeOK, NEW q \in Quotes, quotes' = Append(quotes, q)
  PROVE  quotes' \in Seq(Quotes) /\ AttachedQuotes' = AttachedQuotes \cup {q}
<1>1. quotes \in Seq(Quotes)
  BY DEF TypeOK
<1>2. quotes' \in Seq(Quotes) /\ Len(quotes') = Len(quotes) + 1
  BY <1>1
<1>3. \A n \in 1..Len(quotes) : quotes'[n] = quotes[n]
  BY <1>1
<1>4. quotes'[Len(quotes) + 1] = q
  BY <1>1
<1>5. /\ DOMAIN quotes = 1..Len(quotes) /\ DOMAIN quotes' = 1..Len(quotes) + 1
      /\ Len(quotes) \in Nat
  BY <1>1, <1>2
<1> QED
  BY <1>2, <1>3, <1>4, <1>5 DEF AttachedQuotes

LEMMA AttachQuoteHolds ==
  ASSUME IInv, NEW r \in Requests, AttachQuote(r)
  PROVE  IInv'
<1> DEFINE k == command[r]
<1>1. pc[r] = "committing" /\ k.kind = "AttachQuote"
  BY DEF AttachQuote, At
<1>2. CASE Refuse(r)
  BY <1>1, <1>2, RefusingHolds
<1>3. ASSUME QuotesUnder(k.key) = {},
             quotes' = Append(quotes, [command |-> k, version |-> seen[r].version,
                                       lines |-> seen[r].lines, expires |-> k.at + QuoteLife]),
             Answer(r, "applied"), UNCHANGED <<outside, cart, ops, orders>>
      PROVE  IInv'
  <2>1. PICK m \in Commands : m = k
    BY <1>1 DEF IInv, RequestsHold, RequestHolds, Asked, IsACommand
  <2> DEFINE q == [command |-> m, version |-> seen[r].version, lines |-> seen[r].lines,
                   expires |-> m.at + QuoteLife]
  <2>2. seen[r] \in Versions /\ seen[r] \in Carts
    BY <1>1, <2>1, LoadedIsBehind DEF IInv, RequestsHold, RequestHolds, QuoteHolds
  <2>3. /\ q \in Quotes /\ q.command = m
        /\ q.version = seen[r].version /\ q.lines = seen[r].lines
    BY <2>2, TimeAssumption DEF Quotes, Carts, Commands
  <2>4. quotes' = Append(quotes, q)
    BY <1>3, <2>1
  <2> HIDE DEF q
  <2>5. quotes' \in Seq(Quotes) /\ AttachedQuotes' = AttachedQuotes \cup {q}
    BY <2>3, <2>4, AppendAttaches DEF IInv
  <2>6. Versions' = Versions /\ cart' = cart /\ cart.version \in Nat /\ TablesHold
    BY <1>3 DEF Versions, IInv, TypeOK, Carts
  <2>7. ASSUME NEW p \in AttachedQuotes, p.command.key = m.key PROVE FALSE
    BY <1>3, <2>1, <2>7 DEF QuotesUnder
  <2>8. NoEditIsLost' /\ EndIsDueAndFinal'
    BY <1>3, <2>6 DEF TablesHold, NoEditIsLost, EndIsDueAndFinal, IsDue
  <2>9. EndsEnd' /\ KindsRecorded'
    BY <1>3, <2>6 DEF TablesHold, EndsEnd, KindsRecorded
  <2>10. KeyTakenOnce'
    BY <1>3, <2>3, <2>5, <2>6, <2>7 DEF TablesHold, KeyTakenOnce
  <2>11. QuotesArePriced' /\ OrderIsQuotedCart'
    <3>1. QuotesArePriced'
      BY <2>2, <2>3, <2>5, <2>6 DEF TablesHold, QuotesArePriced
    <3>2. OrderIsQuotedCart'
      BY <1>3, <2>5, <2>6 DEF TablesHold, OrderIsQuotedCart, IsActive
    <3> QED
      BY <3>1, <3>2
  <2>12. Grows
    BY <2>5, <2>6 DEF Grows
  <2>13. ASSUME NEW d \in Commands, d.kind # "AttachQuote" PROVE Under(d)' = Under(d)
    BY <1>3, <2>13 DEF Under, EditsUnder, EndsUnder, OrdersUnder, EditKinds, EndKinds, Commands,
      AllKinds
  <2>14. ASSUME NEW d \in Commands, d.kind = "AttachQuote"
         PROVE  Under(d) = QuotesUnder(d.key) /\ Under(d)' = QuotesUnder(d.key)'
    BY <2>14 DEF Under, EditKinds, EndKinds
  <2>15. KeepsAnswers
    <3> SUFFICES ASSUME NEW d \in Commands, Under(d) # {} PROVE Under(d)' = Under(d)
      BY DEF KeepsAnswers
    <3>1. CASE d.kind # "AttachQuote"
      BY <2>13, <3>1
    <3>2. CASE d.kind = "AttachQuote"
      <4>1. Under(d) = QuotesUnder(d.key) /\ Under(d)' = QuotesUnder(d.key)'
        BY <2>14, <3>2
      <4>2. d.key # m.key
        BY <2>7, <4>1 DEF QuotesUnder
      <4> QED
        BY <2>3, <2>5, <4>1, <4>2 DEF QuotesUnder
    <3> QED
      BY <3>1, <3>2
  <2>16. Under(m)' = {q}
    BY <1>1, <2>1, <2>3, <2>5, <2>7, <2>14 DEF QuotesUnder
  <2>17. FoundAs(m)'
    BY <2>3, <2>16, TheRecordIsFound
  <2>18. cart' \in Carts /\ ops' \subseteq Operations /\ orders' \subseteq Orders
    BY <1>3 DEF IInv, TypeOK
  <2>19. TablesHold'
    BY <2>8, <2>9, <2>10, <2>11 DEF TablesHold
  <2> QED
    BY <1>1, <1>3, <2>1, <2>5, <2>12, <2>15, <2>17, <2>18, <2>19, AnsweringHolds
<1> QED
  BY <1>2, <1>3 DEF AttachQuote

LEMMA CommitOrderHolds ==
  ASSUME IInv, NEW r \in Requests, CommitOrder(r)
  PROVE  IInv'
<1> DEFINE k == command[r]
<1>1. pc[r] = "committing" /\ k.kind = "CreateOrder"
  BY DEF CommitOrder, At
<1>2. CASE Refuse(r)
  BY <1>1, <1>2, RefusingHolds
<1>3. ASSUME OrdersUnder(k.key) = {},
             orders' = orders \cup {[command |-> k, version |-> seen[r].version,
                                     lines |-> seen[r].lines, onSale |-> since[r]]},
             Answer(r, "applied"), UNCHANGED <<outside, cart, ops, quotes>>
      PROVE  IInv'
  <2>1. PICK m \in Commands : m = k
    BY <1>1 DEF IInv, RequestsHold, RequestHolds, Asked, IsACommand
  <2> DEFINE o == [command |-> m, version |-> seen[r].version, lines |-> seen[r].lines,
                   onSale |-> since[r]]
  <2>2. /\ seen[r] \in Versions /\ held[r] \in AttachedQuotes
        /\ MayCheckOut(seen[r], held[r], m) /\ since[r] # 0
    BY <1>1, <2>1 DEF IInv, RequestsHold, RequestHolds, OrderHolds
  <2>3. seen[r] \in Carts /\ since[r] \in 1..MaxMenu
    BY <2>2, LoadedIsBehind, CartAssumption DEF IInv, TypeOK
  <2>4. /\ o \in Orders /\ o.command = m /\ o.version = seen[r].version
        /\ o.lines = seen[r].lines
    BY <2>2, <2>3 DEF Orders, Carts
  <2>5. orders' = orders \cup {o}
    BY <1>3, <2>1
  <2> HIDE DEF o
  <2>6. orders' \subseteq Orders
    BY <2>4, <2>5 DEF IInv, TypeOK
  <2>7. /\ Versions' = Versions /\ AttachedQuotes' = AttachedQuotes
        /\ cart' = cart /\ cart.version \in Nat /\ TablesHold
    BY <1>3 DEF Versions, AttachedQuotes, IInv, TypeOK, Carts
  <2>8. ASSUME NEW p \in orders, p.command.key = m.key PROVE FALSE
    BY <1>3, <2>1, <2>8 DEF OrdersUnder
  <2>9. NoEditIsLost' /\ EndIsDueAndFinal'
    BY <1>3, <2>7 DEF TablesHold, NoEditIsLost, EndIsDueAndFinal, IsDue
  <2>10. EndsEnd' /\ QuotesArePriced'
    BY <1>3, <2>7 DEF TablesHold, EndsEnd, QuotesArePriced
  <2>11. KindsRecorded'
    BY <1>1, <1>3, <2>1, <2>4, <2>5, <2>7
      DEF TablesHold, KindsRecorded, IInv, RequestsHold, RequestHolds, Asked, IsACommand
  <2>12. KeyTakenOnce'
    BY <1>3, <2>4, <2>5, <2>7, <2>8 DEF TablesHold, KeyTakenOnce
  <2>13. OrderIsQuotedCart'
    <3>1. held[r].version = seen[r].version /\ held[r].lines = seen[r].lines
      <4>1. PICK c \in Versions : c.version = held[r].version /\ c.lines = held[r].lines
        BY <2>2, <2>7 DEF TablesHold, QuotesArePriced
      <4> QED
        BY <2>2, <2>7, <4>1 DEF TablesHold, NoEditIsLost, MayCheckOut
    <3>2. /\ \E c \in Versions :
               c.version = o.version /\ c.lines = o.lines /\ IsActive(c, o.command.at)
          /\ \E q \in AttachedQuotes :
               /\ q.command.key = o.command.quote
               /\ q.version = o.version /\ q.lines = o.lines
               /\ o.command.at < q.expires
      BY <2>2, <2>4, <3>1 DEF MayCheckOut
    <3> QED
      BY <2>5, <2>7, <3>2 DEF TablesHold, OrderIsQuotedCart, IsActive
  <2>14. Grows
    BY <2>7 DEF Grows
  <2>15. ASSUME NEW d \in Commands, d.kind # "CreateOrder" PROVE Under(d)' = Under(d)
    BY <1>3, <2>7, <2>15 DEF Under, EditsUnder, EndsUnder, QuotesUnder, EditKinds, EndKinds,
      Commands, AllKinds
  <2>16. ASSUME NEW d \in Commands, d.kind = "CreateOrder"
         PROVE  Under(d) = OrdersUnder(d.key) /\ Under(d)' = OrdersUnder(d.key)'
    BY <2>16 DEF Under, EditKinds, EndKinds
  <2>17. KeepsAnswers
    <3> SUFFICES ASSUME NEW d \in Commands, Under(d) # {} PROVE Under(d)' = Under(d)
      BY DEF KeepsAnswers
    <3>1. CASE d.kind # "CreateOrder"
      BY <2>15, <3>1
    <3>2. CASE d.kind = "CreateOrder"
      <4>1. Under(d) = OrdersUnder(d.key) /\ Under(d)' = OrdersUnder(d.key)'
        BY <2>16, <3>2
      <4>2. d.key # m.key
        BY <2>8, <4>1 DEF OrdersUnder
      <4> QED
        BY <2>4, <2>5, <4>1, <4>2 DEF OrdersUnder
    <3> QED
      BY <3>1, <3>2
  <2>18. Under(m)' = {o}
    BY <1>1, <2>1, <2>4, <2>5, <2>8, <2>16 DEF OrdersUnder
  <2>19. FoundAs(m)'
    BY <2>4, <2>18, TheRecordIsFound
  <2>20. cart' \in Carts /\ ops' \subseteq Operations /\ quotes' \in Seq(Quotes)
    BY <1>3 DEF IInv, TypeOK
  <2>21. TablesHold'
    BY <2>9, <2>10, <2>11, <2>12, <2>13 DEF TablesHold
  <2> QED
    BY <1>1, <1>3, <2>1, <2>6, <2>14, <2>17, <2>19, <2>20, <2>21, AnsweringHolds
<1> QED
  BY <1>2, <1>3 DEF CommitOrder

(***************************************************************************)
(* The theorems                                                            *)
(***************************************************************************)

LEMMA StepHolds == IInv /\ [Next]_vars => IInv'
<1> SUFFICES ASSUME IInv, [Next]_vars PROVE IInv'
  OBVIOUS
<1>1. CASE Tick \/ Publish \/ UNCHANGED vars
  BY <1>1, SurroundingsHold
<1>2. ASSUME NEW r \in Requests, EditStep(r) PROVE IInv'
  BY <1>2, LoadForEditHolds, ResolveEditHolds, SelectOnMenuHolds, CommitEditHolds DEF EditStep
<1>3. ASSUME NEW r \in Requests, EndStep(r) PROVE IInv'
  BY <1>3, ResolveEndHolds, LoadForEndHolds, CommitEndHolds DEF EndStep
<1>4. ASSUME NEW r \in Requests, QuoteStep(r) PROVE IInv'
  BY <1>4, ResolveAttachHolds, LoadForQuoteHolds, AttachQuoteHolds DEF QuoteStep
<1>5. ASSUME NEW r \in Requests, OrderStep(r) PROVE IInv'
  BY <1>5, ResolveSubmissionHolds, LoadCartHolds, LoadQuoteHolds, CheckCheckoutHolds,
    RevalidateItemHolds, LoadSourceHolds, CommitOrderHolds DEF OrderStep
<1> QED
  BY <1>1, <1>2, <1>3, <1>4, <1>5, RequestHoldsUp DEF Next

THEOREM Invariance == Spec => []IInv
  BY InitHolds, StepHolds, PTL DEF Spec

(***************************************************************************)
(* The menu                                                                *)
(***************************************************************************)

(* The menu only moves on, so a line is of no menu later than the one it   *)
(* was accepted on.  A checkout turns to the catalog with lines no later   *)
(* than the menu on sale then, and what the catalog accepts is no earlier. *)
Behind(c, n) == \A i \in Items(c) : c.lines[i].menu \in 1..n

MenuHolds(r) ==
  /\ offered[r] <= menu
  /\ pc[r] \notin {"checking", "committing"} => checked[r] = {}
  /\ pc[r] \in {"checking", "committing"} /\ command[r].kind = "CreateOrder" =>
       /\ since[r] <= menu
       /\ Behind(seen[r], since[r])
       /\ \A i \in Items(seen[r]) :
            i \in checked[r] \/ pc[r] = "committing" => seen[r].lines[i].menu = since[r]

MenuInv ==
  /\ \A c \in Versions : Behind(c, menu)
  /\ \A r \in Requests : MenuHolds(r)
  /\ OrderIsOfOneMenu

LEMMA InitialMenuHolds == Init => MenuInv
<1> SUFFICES ASSUME Init PROVE MenuInv
  OBVIOUS
<1>1. \A c \in Versions : Behind(c, menu)
  BY CartAssumption DEF Init, Versions, FirstCart, Behind, Items
<1> QED
  BY <1>1 DEF Init, MenuInv, MenuHolds, OrderIsOfOneMenu

(* What a step leaves of a request for MenuHolds.                          *)
KeepsMenu(s) ==
  /\ command'[s] = command[s] /\ pc'[s] = pc[s] /\ seen'[s] = seen[s]
  /\ offered'[s] = offered[s] /\ checked'[s] = checked[s] /\ since'[s] = since[s]

LEMMA KeptMenuHolds ==
  ASSUME TypeOK, TypeOK', menu <= menu', NEW s \in Requests, MenuHolds(s), KeepsMenu(s)
  PROVE  MenuHolds(s)'
<1>1. menu \in Nat /\ menu' \in Nat /\ offered[s] \in Nat /\ since[s] \in Nat
  BY DEF TypeOK
<1>2. Behind(seen[s], since[s]) <=> Behind(seen[s], since[s])'
  BY DEF KeepsMenu, Behind, Items
<1> QED
  BY <1>1, <1>2 DEF MenuHolds, KeepsMenu, Items

(* A step of request r that commits no cart and no order.                  *)
LEMMA MenuStands ==
  ASSUME TypeOK, TypeOK', MenuInv, menu' = menu, UNCHANGED <<ops, orders>>, NEW r \in Requests,
         \A s \in Requests \ {r} : KeepsMenu(s), MenuHolds(r)'
  PROVE  MenuInv'
<1>1. \A c \in Versions' : Behind(c, menu)'
  BY DEF MenuInv, Versions, Behind, Items
<1>2. menu <= menu'
  BY DEF TypeOK
<1>3. \A s \in Requests : MenuHolds(s)'
  BY <1>2, KeptMenuHolds DEF MenuInv
<1> QED
  BY <1>1, <1>3 DEF MenuInv, OrderIsOfOneMenu

(* An answered request has forgotten its menus.                            *)
LEMMA AnsweredMenuHolds ==
  ASSUME IInv, NEW r \in Requests, NEW to \in {"applied", "replayed", "refused"},
         Answer(r, to), menu' = menu
  PROVE  MenuHolds(r)' /\ \A s \in Requests \ {r} : KeepsMenu(s)
<1>1. /\ pc'[r] = to /\ offered'[r] = 0 /\ checked'[r] = {} /\ menu \in Nat
      /\ \A s \in Requests \ {r} : KeepsMenu(s)
  BY DEF IInv, TypeOK, Answer, Go, KeepsMenu
<1> QED
  BY <1>1 DEF MenuHolds

LEMMA AnsweringKeepsMenus ==
  ASSUME IInv, IInv', MenuInv, NEW r \in Requests, NEW to \in {"applied", "replayed", "refused"},
         Answer(r, to), UNCHANGED <<outside, ops, orders>>
  PROVE  MenuInv'
<1>1. menu' = menu /\ TypeOK /\ TypeOK' /\ UNCHANGED <<ops, orders>>
  BY DEF IInv, outside
<1> QED
  BY <1>1, AnsweredMenuHolds, MenuStands

LEMMA RefusingKeepsMenus ==
  ASSUME IInv, IInv', MenuInv, NEW r \in Requests, Refuse(r)
  PROVE  MenuInv'
<1>1. Answer(r, "refused") /\ UNCHANGED <<outside, ops, orders>>
  BY DEF Refuse, tables
<1> QED
  BY <1>1, AnsweringKeepsMenus

LEMMA AnsweringFromKeepsMenus ==
  ASSUME IInv, IInv', MenuInv, NEW r \in Requests, NEW records, AnswerFrom(r, records)
  PROVE  MenuInv'
<1>1. UNCHANGED <<outside, ops, orders>> /\ (Answer(r, "replayed") \/ Answer(r, "refused"))
  BY DEF AnswerFrom, tables
<1> QED
  BY <1>1, AnsweringKeepsMenus

(* A step that does not take request r to where menus are compared.        *)
LEMMA ElsewhereKeepsMenus ==
  ASSUME IInv, IInv', MenuInv, NEW r \in Requests, pc[r] \notin {"checking", "committing"},
         UNCHANGED <<outside, ops, orders, checked>>,
         offered'[r] = offered[r] \/ offered'[r] = menu,
         pc'[r] \notin {"checking", "committing"} \/ command'[r].kind # "CreateOrder",
         \A s \in Requests \ {r} : KeepsMenu(s)
  PROVE  MenuInv'
<1>1. menu' = menu /\ TypeOK /\ TypeOK' /\ UNCHANGED <<ops, orders>> /\ menu \in Nat
  BY DEF IInv, TypeOK, outside
<1>2. MenuHolds(r)'
  BY <1>1 DEF MenuInv, MenuHolds
<1> QED
  BY <1>1, <1>2, MenuStands

LEMMA ProceedingKeepsMenus ==
  ASSUME IInv, IInv', MenuInv, NEW r \in Requests, pc[r] \notin {"checking", "committing"},
         NEW to, Proceed(r, to),
         to \notin {"checking", "committing"} \/ command[r].kind # "CreateOrder"
  PROVE  MenuInv'
<1>1. UNCHANGED <<outside, ops, orders, checked>> /\ offered' = offered /\ command' = command
        /\ pc'[r] = to /\ \A s \in Requests \ {r} : KeepsMenu(s)
  BY DEF IInv, TypeOK, Proceed, Go, tables, KeepsMenu
<1> QED
  BY <1>1, ElsewhereKeepsMenus

LEMMA EditsKeepMenus ==
  ASSUME IInv, IInv', MenuInv, NEW r \in Requests,
         LoadForEdit(r) \/ ResolveEdit(r) \/ SelectOnMenu(r)
  PROVE  MenuInv'
<1>1. command[r].kind \in EditKinds /\ command[r].kind # "CreateOrder"
        /\ pc[r] \notin {"checking", "committing"}
  BY DEF LoadForEdit, ResolveEdit, SelectOnMenu, At, EditKinds
<1>2. CASE LoadForEdit(r)
  <2>1. UNCHANGED <<outside, ops, orders, checked>> /\ offered' = offered /\ command' = command
          /\ \A s \in Requests \ {r} : KeepsMenu(s)
    BY <1>2 DEF IInv, TypeOK, LoadForEdit, Go, tables, KeepsMenu
  <2> QED
    BY <1>1, <2>1, ElsewhereKeepsMenus
<1>3. CASE ResolveEdit(r)
  BY <1>1, <1>3, AnsweringFromKeepsMenus, RefusingKeepsMenus, ProceedingKeepsMenus DEF ResolveEdit
<1>4. CASE SelectOnMenu(r)
  <2>1. UNCHANGED <<outside, ops, orders, checked>> /\ offered'[r] = menu /\ command' = command
          /\ \A s \in Requests \ {r} : KeepsMenu(s)
    BY <1>4 DEF IInv, TypeOK, SelectOnMenu, Go, tables, KeepsMenu
  <2> QED
    BY <1>1, <2>1, ElsewhereKeepsMenus
<1> QED
  BY <1>2, <1>3, <1>4

(* Ends and quotes ask the catalog nothing.                                *)
LEMMA LoadingKeepsMenus ==
  ASSUME IInv, IInv', MenuInv, NEW r \in Requests, pc[r] = "resolved",
         command[r].kind # "CreateOrder", Go(r, "committing"), seen' = [seen EXCEPT ![r] = cart],
         UNCHANGED <<outside, tables, command, held, offered, checked, since>>
  PROVE  MenuInv'
<1>1. UNCHANGED <<outside, ops, orders, checked>> /\ offered' = offered /\ command' = command
        /\ \A s \in Requests \ {r} : KeepsMenu(s)
  BY DEF IInv, TypeOK, Go, tables, KeepsMenu
<1> QED
  BY <1>1, ElsewhereKeepsMenus

LEMMA EndsAndQuotesKeepMenus ==
  ASSUME IInv, IInv', MenuInv, NEW r \in Requests,
         ResolveEnd(r) \/ LoadForEnd(r) \/ QuoteStep(r)
  PROVE  MenuInv'
<1>1. CASE ResolveEnd(r) \/ ResolveAttach(r)
  <2>1. pc[r] = "asked"
    BY <1>1 DEF ResolveEnd, ResolveAttach, At
  <2> QED
    BY <1>1, <2>1, AnsweringFromKeepsMenus, ProceedingKeepsMenus DEF ResolveEnd, ResolveAttach
<1>2. CASE LoadForEnd(r) \/ LoadForQuote(r)
  <2>1. pc[r] = "resolved" /\ command[r].kind # "CreateOrder"
    BY <1>2 DEF LoadForEnd, LoadForQuote, At, EndKinds
  <2> QED
    BY <1>2, <2>1, RefusingKeepsMenus, LoadingKeepsMenus DEF LoadForEnd, LoadForQuote
<1>3. CASE AttachQuote(r)
  BY <1>3, RefusingKeepsMenus, AnsweringKeepsMenus DEF AttachQuote
<1> QED
  BY <1>1, <1>2, <1>3 DEF QuoteStep

(* The version a commit adds to the cart has no line of a later menu.      *)
LEMMA NextVersionKeepsMenus ==
  ASSUME IInv, IInv', MenuInv, NEW r \in Requests, Answer(r, "applied"),
         UNCHANGED <<outside, orders>>, Behind(cart', menu),
         NEW o, o.result = cart', ops' = ops \cup {o}
  PROVE  MenuInv'
<1>1. menu' = menu /\ menu \in Nat /\ TypeOK /\ TypeOK'
  BY DEF IInv, TypeOK, outside
<1>2. Versions' = Versions \cup {cart'}
  BY DEF Versions
<1>3. \A c \in Versions' : Behind(c, menu)'
  BY <1>1, <1>2 DEF MenuInv, Behind, Items
<1>4. \A s \in Requests : MenuHolds(s)'
  BY <1>1, AnsweredMenuHolds, KeptMenuHolds DEF MenuInv
<1> QED
  BY <1>3, <1>4 DEF MenuInv, OrderIsOfOneMenu

LEMMA CommitEditKeepsMenus ==
  ASSUME IInv, IInv', MenuInv, NEW r \in Requests, CommitEdit(r)
  PROVE  MenuInv'
<1>1. CASE Refuse(r)
  BY <1>1, RefusingKeepsMenus
<1>2. ASSUME NEW i \in ItemsFor(command[r]),
             cart' = Edited(seen[r], i, LineOf(command[r], offered[r]), command[r].at),
             ops' = ops \cup {[command |-> command[r], item |-> i, result |-> cart']},
             Answer(r, "applied"), UNCHANGED <<outside, quotes, orders>>
      PROVE  MenuInv'
  <2>1. pc[r] = "committing" /\ command[r].kind \in EditKinds
    BY DEF CommitEdit, At
  <2>2. PICK m \in Commands : m = command[r]
    BY <2>1 DEF IInv, RequestsHold, RequestHolds, Asked, IsACommand
  <2>3. seen[r] \in Versions /\ (m.kind # "Remove" => offered[r] # 0)
    BY <2>1, <2>2 DEF IInv, RequestsHold, RequestHolds, EditHolds
  <2>4. seen[r] \in Carts /\ seen[r].lines \in Lines /\ Behind(seen[r], menu)
    BY <2>3, LoadedIsBehind DEF MenuInv, Carts
  <2>5. offered[r] \in Nat /\ offered[r] <= menu /\ menu \in Nat
    BY DEF IInv, TypeOK, MenuInv, MenuHolds
  <2> DEFINE l == LineOf(m, offered[r])
  <2>6. l # None => l.menu \in 1..menu
    BY <2>3, <2>5 DEF LineOf
  <2>7. cart' = Edited(seen[r], i, l, m.at)
    BY <1>2, <2>2
  <2> HIDE DEF l
  <2>8. cart'.lines = [seen[r].lines EXCEPT ![i] = l]
    BY <2>4, <2>7 DEF Edited, Carts
  <2>9. Behind(cart', menu)
    BY <2>4, <2>6, <2>8 DEF Behind, Items, Lines
  <2> QED
    BY <1>2, <2>9, NextVersionKeepsMenus
<1> QED
  BY <1>1, <1>2 DEF CommitEdit

LEMMA CommitEndKeepsMenus ==
  ASSUME IInv, IInv', MenuInv, NEW r \in Requests, CommitEnd(r)
  PROVE  MenuInv'
<1>1. CASE Refuse(r)
  BY <1>1, RefusingKeepsMenus
<1>2. ASSUME cart' = Ended(seen[r], command[r].kind),
             ops' = ops \cup {[command |-> command[r], item |-> None, result |-> cart']},
             Answer(r, "applied"), UNCHANGED <<outside, quotes, orders>>
      PROVE  MenuInv'
  <2>1. pc[r] = "committing" /\ command[r].kind \in EndKinds
    BY DEF CommitEnd, At
  <2>2. seen[r] \in Versions
    BY <2>1 DEF IInv, RequestsHold, RequestHolds, EndHolds, Asked, IsACommand
  <2>3. seen[r] \in Carts /\ Behind(seen[r], menu)
    BY <2>2, LoadedIsBehind DEF MenuInv
  <2>4. cart'.lines = seen[r].lines
    BY <1>2, <2>3 DEF Ended, Carts
  <2>5. Behind(cart', menu)
    BY <2>3, <2>4 DEF Behind, Items
  <2> QED
    BY <1>2, <2>5, NextVersionKeepsMenus
<1> QED
  BY <1>1, <1>2 DEF CommitEnd

(* A checkout turns to the catalog with nothing checked yet.               *)
LEMMA CheckCheckoutKeepsMenus ==
  ASSUME IInv, IInv', MenuInv, NEW r \in Requests, CheckCheckout(r)
  PROVE  MenuInv'
<1>1. pc[r] = "resolved" /\ command[r].kind = "CreateOrder" /\ seen[r] # None
  BY DEF CheckCheckout, At
<1>2. CASE Refuse(r)
  BY <1>2, RefusingKeepsMenus
<1>3. ASSUME since' = [since EXCEPT ![r] = menu], Go(r, "checking"),
             UNCHANGED <<outside, tables, command, seen, held, offered, checked>>
      PROVE  MenuInv'
  <2>1. /\ pc'[r] = "checking" /\ since'[r] = menu /\ menu' = menu /\ menu \in Nat
        /\ \A s \in Requests \ {r} : KeepsMenu(s)
    BY <1>3 DEF IInv, TypeOK, Go, outside, KeepsMenu
  <2>2. seen[r] \in Versions
    BY <1>1 DEF IInv, RequestsHold, RequestHolds, OrderHolds, Asked, IsACommand
  <2>3. Behind(seen[r], menu) /\ checked[r] = {} /\ offered[r] <= menu
    BY <1>1, <2>2 DEF MenuInv, MenuHolds
  <2>4. MenuHolds(r)'
    BY <1>1, <1>3, <2>1, <2>3 DEF MenuHolds, Behind, Items
  <2> QED
    BY <1>3, <2>1, <2>4, MenuStands DEF IInv, tables
<1> QED
  BY <1>2, <1>3 DEF CheckCheckout

(* What the catalog accepts is on sale now and no later than then.         *)
LEMMA RevalidateItemKeepsMenus ==
  ASSUME IInv, IInv', MenuInv, NEW r \in Requests, NEW i \in ItemRefs, RevalidateItem(r, i)
  PROVE  MenuInv'
<1>1. pc[r] = "checking" /\ command[r].kind = "CreateOrder" /\ i \in Items(seen[r])
  BY DEF RevalidateItem, At
<1>2. CASE Refuse(r)
  BY <1>2, RefusingKeepsMenus
<1>3. ASSUME StillSold(r, i), checked' = [checked EXCEPT ![r] = @ \cup {i}],
             UNCHANGED <<outside, tables, command, pc, seen, held, offered, since>>
      PROVE  MenuInv'
  <2>1. /\ checked'[r] = checked[r] \cup {i} /\ menu' = menu /\ menu \in Nat
        /\ since[r] \in Nat /\ \A s \in Requests \ {r} : KeepsMenu(s)
    BY <1>3 DEF IInv, TypeOK, outside, KeepsMenu
  <2>2. MenuHolds(r) /\ since[r] <= menu /\ Behind(seen[r], since[r])
    BY <1>1 DEF MenuInv, MenuHolds
  <2>3. seen[r].lines[i].menu = since[r]
    BY <1>1, <1>3, <2>1, <2>2 DEF StillSold, Behind
  <2>4. MenuHolds(r)'
    BY <1>1, <1>3, <2>1, <2>2, <2>3 DEF MenuHolds, Behind, Items
  <2> QED
    BY <1>3, <2>1, <2>4, MenuStands DEF IInv, tables
<1> QED
  BY <1>2, <1>3 DEF RevalidateItem

(* The source of the snapshots is the very version that was checked.       *)
LEMMA LoadSourceKeepsMenus ==
  ASSUME IInv, IInv', MenuInv, NEW r \in Requests, LoadSource(r)
  PROVE  MenuInv'
<1>1. pc[r] = "checking" /\ command[r].kind = "CreateOrder" /\ checked[r] = Items(seen[r])
  BY DEF LoadSource, At
<1>2. CASE Refuse(r)
  BY <1>2, RefusingKeepsMenus
<1>3. ASSUME IsValidated(r), seen' = [seen EXCEPT ![r] = cart], Go(r, "committing"),
             UNCHANGED <<outside, tables, command, held, offered, checked, since>>
      PROVE  MenuInv'
  <2>1. /\ pc'[r] = "committing" /\ seen'[r] = cart /\ menu' = menu
        /\ \A s \in Requests \ {r} : KeepsMenu(s)
    BY <1>3 DEF IInv, TypeOK, Go, outside, KeepsMenu
  <2>2. seen[r] \in Versions
    BY <1>1 DEF IInv, RequestsHold, RequestHolds, OrderHolds, Asked, IsACommand
  <2>3. seen[r] = cart
    BY <1>3, <2>2, LoadedIsBehind DEF IsValidated
  <2>4. MenuHolds(r)
    BY DEF MenuInv
  <2>5. MenuHolds(r)'
    BY <1>1, <1>3, <2>1, <2>3, <2>4 DEF MenuHolds, Behind, Items
  <2> QED
    BY <1>3, <2>1, <2>5, MenuStands DEF IInv, tables
<1> QED
  BY <1>2, <1>3 DEF LoadSource

LEMMA CommitOrderKeepsMenus ==
  ASSUME IInv, IInv', MenuInv, NEW r \in Requests, CommitOrder(r)
  PROVE  MenuInv'
<1>1. pc[r] = "committing" /\ command[r].kind = "CreateOrder"
  BY DEF CommitOrder, At
<1>2. CASE Refuse(r)
  BY <1>2, RefusingKeepsMenus
<1> DEFINE o == [command |-> command[r], version |-> seen[r].version, lines |-> seen[r].lines,
                 onSale |-> since[r]]
<1>3. ASSUME orders' = orders \cup {o}, Answer(r, "applied"),
             UNCHANGED <<outside, cart, ops, quotes>>
      PROVE  MenuInv'
  <2>1. \A i \in ItemRefs : o.lines[i] # None => o.lines[i].menu = o.onSale
    BY <1>1 DEF MenuInv, MenuHolds, Items
  <2> HIDE DEF o
  <2>2. OrderIsOfOneMenu'
    BY <1>3, <2>1 DEF MenuInv, OrderIsOfOneMenu
  <2>3. menu' = menu /\ menu \in Nat /\ TypeOK /\ TypeOK'
    BY <1>3 DEF IInv, TypeOK, outside
  <2>4. \A c \in Versions' : Behind(c, menu)'
    BY <1>3, <2>3 DEF MenuInv, Versions, Behind, Items
  <2>5. \A s \in Requests : MenuHolds(s)'
    BY <1>3, <2>3, AnsweredMenuHolds, KeptMenuHolds DEF MenuInv
  <2> QED
    BY <2>2, <2>4, <2>5 DEF MenuInv
<1> QED
  BY <1>2, <1>3 DEF CommitOrder

LEMMA OrdersKeepMenus ==
  ASSUME IInv, IInv', MenuInv, NEW r \in Requests, OrderStep(r)
  PROVE  MenuInv'
<1>1. CASE ResolveSubmission(r)
  <2>1. pc[r] = "asked"
    BY <1>1 DEF ResolveSubmission, At
  <2>2. CASE Proceed(r, "resolved")
    BY <2>1, <2>2, ProceedingKeepsMenus
  <2>3. ASSUME NEW to \in {"replayed", "refused"}, Answer(r, to), UNCHANGED <<outside, tables>>
        PROVE  MenuInv'
    BY <2>3, AnsweringKeepsMenus DEF tables
  <2> QED
    BY <1>1, <2>2, <2>3 DEF ResolveSubmission
<1>2. CASE LoadCart(r) \/ LoadQuote(r)
  <2>1. pc[r] = "resolved" /\ pc' = pc
    BY <1>2 DEF LoadCart, LoadQuote, At
  <2>2. UNCHANGED <<outside, ops, orders, checked>> /\ offered' = offered
          /\ \A s \in Requests \ {r} : KeepsMenu(s)
    BY <1>2 DEF IInv, TypeOK, LoadCart, LoadQuote, tables, KeepsMenu
  <2> QED
    BY <2>1, <2>2, ElsewhereKeepsMenus
<1>3. CASE \E i \in ItemRefs : RevalidateItem(r, i)
  BY <1>3, RevalidateItemKeepsMenus
<1> QED
  BY <1>1, <1>2, <1>3, CheckCheckoutKeepsMenus, LoadSourceKeepsMenus, CommitOrderKeepsMenus
    DEF OrderStep

LEMMA MenuStepHolds == IInv /\ IInv' /\ MenuInv /\ [Next]_vars => MenuInv'
<1> SUFFICES ASSUME IInv, IInv', MenuInv, [Next]_vars PROVE MenuInv'
  OBVIOUS
<1>1. CASE Tick \/ Publish \/ UNCHANGED vars
  <2>1. UNCHANGED <<ops, orders>> /\ \A s \in Requests : KeepsMenu(s)
    BY <1>1 DEF Tick, Publish, vars, tables, local, KeepsMenu
  <2>2. TypeOK /\ TypeOK'
    BY DEF IInv
  <2>3. menu \in Nat /\ menu' \in Nat
    BY <2>2 DEF TypeOK
  <2>4. menu <= menu'
    BY <1>1, <2>3 DEF Tick, Publish, vars
  <2>5. \A c \in Versions' : Behind(c, menu)'
    BY <2>1, <2>3, <2>4 DEF MenuInv, Versions, Behind, Items
  <2>6. \A s \in Requests : MenuHolds(s)'
    BY <2>1, <2>2, <2>4, KeptMenuHolds DEF MenuInv
  <2> QED
    BY <2>1, <2>5, <2>6 DEF MenuInv, OrderIsOfOneMenu
<1>2. ASSUME NEW r \in Requests, Request(r) PROVE MenuInv'
  <2>1. pc[r] = "idle" /\ pc'[r] = "asked" /\ UNCHANGED <<outside, ops, orders, checked>>
          /\ offered' = offered /\ \A s \in Requests \ {r} : KeepsMenu(s)
    BY <1>2 DEF IInv, TypeOK, Request, tables, KeepsMenu
  <2> QED
    BY <2>1, ElsewhereKeepsMenus
<1>3. ASSUME NEW r \in Requests, EditStep(r) \/ EndStep(r) PROVE MenuInv'
  BY <1>3, EditsKeepMenus, CommitEditKeepsMenus, EndsAndQuotesKeepMenus, CommitEndKeepsMenus
    DEF EditStep, EndStep
<1> QED
  BY <1>1, <1>2, <1>3, EndsAndQuotesKeepMenus, OrdersKeepMenus DEF Next

LEMMA MenusAreInOrder == Spec => []MenuInv
<1>1. Init => MenuInv
  BY InitialMenuHolds
<1>2. IInv /\ IInv' /\ MenuInv /\ [Next]_vars => MenuInv'
  BY MenuStepHolds
<1>3. Spec => []IInv
  BY Invariance
<1> QED
  BY <1>1, <1>2, <1>3, PTL DEF Spec

(* Every variable keeps its type: no step of the cart, quote and order     *)
(* services stores a record of another shape, in particular no version     *)
(* beyond the last and no line without a menu it was accepted on.          *)
THEOREM TypeCorrect == Spec => []TypeOK
<1>1. IInv => TypeOK
  BY DEF IInv
<1> QED
  BY <1>1, Invariance, PTL

(* However many guests edit a shared cart at once, each version is the one *)
(* before it with one recorded edit, or ended.                             *)
THEOREM EditsAreKept == Spec => []NoEditIsLost
<1>1. IInv => NoEditIsLost
  BY DEF IInv, TablesHold
<1> QED
  BY <1>1, Invariance, PTL

(* A cart is expired only past the deadline of the version it ends,        *)
(* abandoned or edited only before it, and its end is its last version.    *)
THEOREM EndsAreDueAndFinal == Spec => []EndIsDueAndFinal
<1>1. IInv => EndIsDueAndFinal
  BY DEF IInv, TablesHold
<1> QED
  BY <1>1, Invariance, PTL

(* An order holds the lines of one live cart version and has a standing    *)
(* quote of exactly these, although checkout reads the two side by side.   *)
THEOREM OrdersAreQuoted == Spec => []OrderIsQuotedCart
<1>1. IInv => OrderIsQuotedCart
  BY DEF IInv, TablesHold
<1> QED
  BY <1>1, Invariance, PTL

(* An order is wholly of the one menu on sale as its checkout turned to    *)
(* the catalog, whatever is edited and published while that answers.       *)
THEOREM OrdersAreOfOneMenu == Spec => []OrderIsOfOneMenu
<1>1. MenuInv => OrderIsOfOneMenu
  BY DEF MenuInv
<1> QED
  BY <1>1, MenusAreInOrder, PTL

(* A request that is told its command was applied finds its key's one      *)
(* record, of exactly that command.                                        *)
THEOREM AnswersHold == Spec => []AnswersAreTrue
<1>1. IInv => AnswersAreTrue
  BY DEF IInv
<1> QED
  BY <1>1, Invariance, PTL

=============================================================================
