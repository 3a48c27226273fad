-------------------------- MODULE OrderSubmission --------------------------
(***************************************************************************)
(* A cart shared by the guests of one dining session, from its edits to    *)
(* the orders made of it.                                                  *)
(*                                                                         *)
(* A guest edits or abandons the cart, has it priced and submits it, each  *)
(* under an idempotency key and for the cart version the guest saw; a job  *)
(* expires it at its deadline.  Every service awaits its repository, the   *)
(* catalog and pricing in turn, so between any two of its steps the others *)
(* may go on.  A request that is denied, fails or crashes before its       *)
(* commit takes no further step; a request whose reply is lost is asked    *)
(* again as a request of its own.                                          *)
(***************************************************************************)
EXTENDS Naturals, Sequences, FiniteSets

CONSTANTS
  Requests,         \* requests to the services, each served once
  Guests,           \* participants of the dining session
  Keys,             \* idempotency keys
  ItemRefs,         \* references drawn for cart items
  Quantities,       \* of an item
  Selections,       \* options selected with it
  FirstLines,       \* the items the cart holds at version 1
  FirstIdle,        \* and its idle deadline then
  Sends,            \* Sends[r]: the commands request r may be, with their senders
  MaxMenu,          \* bound: versions of the menu
  MaxVersion,       \* largest cart version (999 in the code)
  IdleTimeout,      \* of the cart, from its last edit
  AbsoluteTimeout,  \* when it ends whatever its edits
  QuoteLife,        \* how long a price stands
  MaxTime,          \* bound: clock
  None              \* null

EditKinds == {"Add", "Update", "Remove"}
EndKinds == {"Abandon", "Expire"}
AllKinds == EditKinds \cup EndKinds \cup {"AttachQuote", "CreateOrder"}

Choices == [quantity : Quantities, options : Selections]
Line == [choice : Choices, menu : 1..MaxMenu, by : Guests]
Lines == [ItemRefs -> Line \cup {None}]

ASSUME TimeAssumption ==
  /\ IdleTimeout \in Nat \ {0} /\ AbsoluteTimeout \in Nat
  /\ FirstIdle \in Nat /\ FirstIdle <= AbsoluteTimeout
  /\ QuoteLife \in Nat \ {0} /\ MaxTime \in Nat
ASSUME CartAssumption ==
  /\ MaxMenu \in Nat \ {0} /\ MaxVersion \in Nat \ {0} /\ FirstLines \in Lines
  /\ \A i \in ItemRefs : FirstLines[i] # None => FirstLines[i].menu = 1
ASSUME NoneAssumption == None \notin Guests \cup ItemRefs \cup Line \cup Choices
ASSUME SendsAssumption == Sends \in [Requests -> SUBSET (AllKinds \X (Guests \cup {None}))]
ASSUME SendersAssumption ==
  \A r \in Requests : \A s \in Sends[r] : s[1] = "Expire" <=> s[2] = None

Carts == [version : 1..MaxVersion, lines : Lines, status : {"Active", "Abandoned", "Expired"},
          idle : Nat]
FirstCart == [version |-> 1, lines |-> FirstLines, status |-> "Active", idle |-> FirstIdle]

(* The parsed command with the instant the request arrived at: what the    *)
(* code hashes into its intent.                                            *)
Commands == [kind : AllKinds, key : Keys, guest : Guests \cup {None}, expected : 1..MaxVersion,
             item : ItemRefs \cup {None}, choice : Choices \cup {None},
             quote : Keys \cup {None}, at : 0..MaxTime]

(* Records of operations on the cart, attached quotes, and orders; of an   *)
(* order also the menu on sale as its checkout turned to the catalog.      *)
Operations == [command : Commands, item : ItemRefs \cup {None}, result : Carts]
Quotes == [command : Commands, version : 1..MaxVersion, lines : Lines, expires : Nat]
Orders == [command : Commands, version : 1..MaxVersion, lines : Lines,
           onSale : 1..MaxMenu]
ASSUME NullAssumption == None \notin Carts \cup Commands \cup Quotes

VARIABLES
  now,      \* the clock the requests are stamped with
  menu,     \* version the catalog sells
  cart,     \* row of the cart
  ops,      \* operation records of edits and of the cart's end
  quotes,   \* attached quotes, in the order they were attached
  orders,   \* orders with their submission records
  command,  \* command[r]: what request r asks
  pc,       \* pc[r]: how far request r is
  seen,     \* seen[r]: the cart as request r loaded it
  held,     \* held[r]: the quote as request r loaded it
  offered,  \* offered[r]: menu version the edit r was accepted with, 0 before
  checked,  \* checked[r]: items of the order r the catalog accepted again
  since     \* since[r]: menu on sale as the order r turned to the catalog, 0 before

outside == <<now, menu>>
tables == <<cart, ops, quotes, orders>>
local == <<command, pc, seen, held, offered, checked, since>>
vars == <<now, menu, cart, ops, quotes, orders, command, pc, seen, held, offered, checked, since>>

Init ==
  /\ now = 0
  /\ menu = 1
  /\ cart = FirstCart
  /\ ops = {}
  /\ quotes = <<>>
  /\ orders = {}
  /\ command = [r \in Requests |-> None]
  /\ pc = [r \in Requests |-> "idle"]
  /\ seen = [r \in Requests |-> None]
  /\ held = [r \in Requests |-> None]
  /\ offered = [r \in Requests |-> 0]
  /\ checked = [r \in Requests |-> {}]
  /\ since = [r \in Requests |-> 0]

(***************************************************************************)
(* The domain: carts and their lifecycle                                   *)
(***************************************************************************)

Items(c) == {i \in ItemRefs : c.lines[i] # None}
IsActive(c, at) == c.status = "Active" /\ at < c.idle /\ at < AbsoluteTimeout
IsDue(c, at) == at >= c.idle \/ at >= AbsoluteTimeout
Advanced(at) == IF at + IdleTimeout < AbsoluteTimeout THEN at + IdleTimeout ELSE AbsoluteTimeout

(* The cart after an edit: the line of item i becomes l.                   *)
Edited(c, i, l, at) ==
  [c EXCEPT !.version = @ + 1, !.lines[i] = l, !.idle = Advanced(at)]

(* The cart after its end: its items stay.                                 *)
Ended(c, kind) ==
  [c EXCEPT !.version = @ + 1, !.status = IF kind = "Expire" THEN "Expired" ELSE "Abandoned"]
MayEnd(c, kind, at) ==
  /\ c.status = "Active"
  /\ IF kind = "Expire" THEN IsDue(c, at) ELSE ~IsDue(c, at)

(***************************************************************************)
(* Requests                                                                *)
(***************************************************************************)

(* The handler stamps the request.  Its sender knows the versions and the  *)
(* quotes there have been.                                                 *)
Details(kind) ==
  [item : IF kind \in {"Update", "Remove"} THEN ItemRefs ELSE {None},
   choice : IF kind \in {"Add", "Update"} THEN Choices ELSE {None},
   quote : IF kind = "CreateOrder" THEN {quotes[n].command.key : n \in DOMAIN quotes} ELSE {None}]
Request(r) ==
  /\ pc[r] = "idle"
  /\ \E s \in Sends[r], key \in Keys, expected \in 1..cart.version :
       \E d \in Details(s[1]) :
         command' = [command EXCEPT ![r] =
                       [kind |-> s[1], key |-> key, guest |-> s[2], expected |-> expected,
                        item |-> d.item, choice |-> d.choice, quote |-> d.quote, at |-> now]]
  /\ pc' = [pc EXCEPT ![r] = "asked"]
  /\ UNCHANGED <<outside, tables, seen, held, offered, checked, since>>

(* Request r is at step "from" of a command of these kinds.                *)
At(r, kinds, from) == pc[r] = from /\ command[r].kind \in kinds
Go(r, to) == pc' = [pc EXCEPT ![r] = to]
Proceed(r, to) ==
  /\ Go(r, to)
  /\ UNCHANGED <<outside, tables, command, seen, held, offered, checked, since>>

(* Request r is answered and what it had loaded is forgotten.              *)
Answer(r, to) ==
  /\ Go(r, to)
  /\ command' = [command EXCEPT ![r] = IF to = "refused" THEN None ELSE @]
  /\ seen' = [seen EXCEPT ![r] = None]
  /\ held' = [held EXCEPT ![r] = None]
  /\ offered' = [offered EXCEPT ![r] = 0]
  /\ checked' = [checked EXCEPT ![r] = {}]
  /\ since' = [since EXCEPT ![r] = 0]

(* A key that was used is answered from its record, when the record is of  *)
(* the same intent.  (Equal intents have equal instants, so a record's     *)
(* retention of a day never decides.)                                      *)
SlipSameIntent(c, d) == c.kind = d.kind /\ c.guest = d.guest   \* mutant: intents are not compared
SameIntent(c, d) == c = d
AnswerFrom(r, records) ==
  /\ Answer(r, IF \E o \in records : SameIntent(o.command, command[r])
               THEN "replayed" ELSE "refused")
  /\ UNCHANGED <<outside, tables>>

Refuse(r) ==
  /\ Answer(r, "refused")
  /\ UNCHANGED <<outside, tables>>

(***************************************************************************)
(* Edits: add, update, remove                                              *)
(***************************************************************************)

LoadForEdit(r) ==
  /\ At(r, EditKinds, "asked")
  /\ seen' = [seen EXCEPT ![r] = cart]
  /\ Go(r, "loaded")
  /\ UNCHANGED <<outside, tables, command, held, offered, checked, since>>

EditsUnder(key) == {o \in ops : o.command.key = key /\ o.command.kind \in EditKinds}

(* A guest changes no line but his own, and a cart has no version beyond   *)
(* MaxVersion.                                                             *)
MayEdit(c, m) ==
  /\ c.version = m.expected
  /\ IsActive(c, m.at)
  /\ c.version < MaxVersion
  /\ m.kind # "Add" => m.item \in Items(c) /\ c.lines[m.item].by = m.guest

ResolveEdit(r) ==
  /\ At(r, EditKinds, "loaded")
  /\ LET prior == EditsUnder(command[r].key)
     IN \/ prior # {} /\ AnswerFrom(r, prior)
        \/ prior = {} /\ ~MayEdit(seen[r], command[r]) /\ Refuse(r)
        \/ /\ prior = {}
           /\ MayEdit(seen[r], command[r])
           /\ Proceed(r, IF command[r].kind = "Remove" THEN "committing" ELSE "selecting")

(* The catalog accepts the selection on the menu it sells now.             *)
SelectOnMenu(r) ==
  /\ At(r, EditKinds, "selecting")
  /\ offered' = [offered EXCEPT ![r] = menu]
  /\ Go(r, "committing")
  /\ UNCHANGED <<outside, tables, command, seen, held, checked, since>>

(* The line an edit leaves: added and updated lines carry the menu version *)
(* they were accepted on, an updated line stays its guest's.               *)
LineOf(m, onMenu) ==
  IF m.kind = "Remove" THEN None ELSE [choice |-> m.choice, menu |-> onMenu, by |-> m.guest]

(* References are drawn anew for every added item.                         *)
Drawn == Items(FirstCart) \cup {o.item : o \in ops}
ItemsFor(m) == IF m.kind = "Add" THEN ItemRefs \ Drawn ELSE {m.item}

(* The commit replaces the cart the service loaded when its version is     *)
(* still the expected one, and inserts the record of the operation.        *)
SlipIsCurrent(m) == cart.version >= m.expected   \* mutant: the commit does not compare versions
\* mutant: the commit of an end does not compare versions
SlipEndIsCurrent(m) == m.kind \in EndKinds \/ cart.version = m.expected
IsCurrent(m) == cart.version = m.expected
CommitEdit(r) ==
  /\ At(r, EditKinds, "committing")
  /\ LET m == command[r]
     IN \/ /\ ~IsCurrent(m) \/ EditsUnder(m.key) # {}
           /\ Refuse(r)
        \/ /\ IsCurrent(m) /\ EditsUnder(m.key) = {}
           /\ \E i \in ItemsFor(m) :
                LET result == Edited(seen[r], i, LineOf(m, offered[r]), m.at)
                IN /\ cart' = result
                   /\ ops' = ops \cup {[command |-> m, item |-> i, result |-> result]}
           /\ Answer(r, "applied")
           /\ UNCHANGED <<outside, quotes, orders>>

(***************************************************************************)
(* The end of the cart: a guest abandons it, a job expires it              *)
(***************************************************************************)

EndsUnder(key) == {o \in ops : o.command.key = key /\ o.command.kind \in EndKinds}

ResolveEnd(r) ==
  /\ At(r, EndKinds, "asked")
  /\ LET prior == EndsUnder(command[r].key)
     IN \/ prior # {} /\ AnswerFrom(r, prior)
        \/ prior = {} /\ Proceed(r, "resolved")

LoadForEnd(r) ==
  /\ At(r, EndKinds, "resolved")
  /\ LET m == command[r]
         allowed == cart.version = m.expected /\ MayEnd(cart, m.kind, m.at)
                      /\ cart.version < MaxVersion
     IN \/ ~allowed /\ Refuse(r)
        \/ /\ allowed
           /\ seen' = [seen EXCEPT ![r] = cart]
           /\ Go(r, "committing")
           /\ UNCHANGED <<outside, tables, command, held, offered, checked, since>>

CommitEnd(r) ==
  /\ At(r, EndKinds, "committing")
  /\ LET m == command[r]
         result == Ended(seen[r], m.kind)
     IN \/ /\ ~IsCurrent(m) \/ EndsUnder(m.key) # {}
           /\ Refuse(r)
        \/ /\ IsCurrent(m) /\ EndsUnder(m.key) = {}
           /\ cart' = result
           /\ ops' = ops \cup {[command |-> m, item |-> None, result |-> result]}
           /\ Answer(r, "applied")
           /\ UNCHANGED <<outside, quotes, orders>>

(***************************************************************************)
(* Pricing: a quote attached to a cart version                             *)
(***************************************************************************)

AttachedQuotes == {quotes[n] : n \in DOMAIN quotes}
QuotesUnder(key) == {q \in AttachedQuotes : q.command.key = key}

ResolveAttach(r) ==
  /\ At(r, {"AttachQuote"}, "asked")
  /\ LET prior == QuotesUnder(command[r].key)
     IN \/ prior # {} /\ AnswerFrom(r, prior)
        \/ prior = {} /\ Proceed(r, "resolved")

LoadForQuote(r) ==
  /\ At(r, {"AttachQuote"}, "resolved")
  /\ LET m == command[r]
         quotable == cart.version = m.expected /\ IsActive(cart, m.at) /\ Items(cart) # {}
     IN \/ ~quotable /\ Refuse(r)
        \/ /\ quotable
           /\ seen' = [seen EXCEPT ![r] = cart]
           /\ Go(r, "committing")
           /\ UNCHANGED <<outside, tables, command, held, offered, checked, since>>

(* Pricing answers with the lines it was sent; the attachment is stored    *)
(* when the cart is still at the version that was priced.                  *)
AttachQuote(r) ==
  /\ At(r, {"AttachQuote"}, "committing")
  /\ LET m == command[r]
     IN \/ /\ ~IsCurrent(m) \/ QuotesUnder(m.key) # {}
           /\ Refuse(r)
        \/ /\ IsCurrent(m) /\ QuotesUnder(m.key) = {}
           /\ quotes' = Append(quotes, [command |-> m, version |-> seen[r].version,
                                        lines |-> seen[r].lines, expires |-> m.at + QuoteLife])
           /\ Answer(r, "applied")
           /\ UNCHANGED <<outside, cart, ops, orders>>

(***************************************************************************)
(* Submission: checkout validation and order creation                      *)
(***************************************************************************)

OrdersUnder(key) == {o \in orders : o.command.key = key}

(* The intent of a submission leaves out the instant.                      *)
SameSubmission(c, d) ==
  c.guest = d.guest /\ c.expected = d.expected /\ c.quote = d.quote

ResolveSubmission(r) ==
  /\ At(r, {"CreateOrder"}, "asked")
  /\ LET prior == OrdersUnder(command[r].key)
     IN \/ /\ prior # {}
           /\ Answer(r, IF \E o \in prior : SameSubmission(o.command, command[r])
                        THEN "replayed" ELSE "refused")
           /\ UNCHANGED <<outside, tables>>
        \/ prior = {} /\ Proceed(r, "resolved")

(* The cart and the quote attached to it last are read side by side.       *)
LoadCart(r) ==
  /\ At(r, {"CreateOrder"}, "resolved")
  /\ seen[r] = None
  /\ seen' = [seen EXCEPT ![r] = cart]
  /\ UNCHANGED <<outside, tables, command, pc, held, offered, checked, since>>

LoadQuote(r) ==
  /\ At(r, {"CreateOrder"}, "resolved")
  /\ held[r] = None
  /\ quotes # <<>>
  /\ held' = [held EXCEPT ![r] = quotes[Len(quotes)]]
  /\ UNCHANGED <<outside, tables, command, pc, seen, offered, checked, since>>

(* The lines agree in item, quantity and menu; the options chosen are not  *)
(* compared.                                                               *)
SameLines(q, c) ==
  \A i \in ItemRefs :
    /\ q.lines[i] = None <=> c.lines[i] = None
    /\ q.lines[i] # None =>
         /\ q.lines[i].choice.quantity = c.lines[i].choice.quantity
         /\ q.lines[i].menu = c.lines[i].menu
MayCheckOut(c, q, m) ==
  /\ c.version = m.expected
  /\ IsActive(c, m.at)
  /\ Items(c) # {}
  /\ q.version = c.version
  /\ q.command.key = m.quote
  /\ m.at < q.expires
  /\ SameLines(q, c)

CheckCheckout(r) ==
  /\ At(r, {"CreateOrder"}, "resolved")
  /\ seen[r] # None /\ held[r] # None
  /\ IF MayCheckOut(seen[r], held[r], command[r])
     THEN /\ since' = [since EXCEPT ![r] = menu]
          /\ Go(r, "checking")
          /\ UNCHANGED <<outside, tables, command, seen, held, offered, checked>>
     ELSE Refuse(r)

(* The catalog is asked for every item at once and answers each on the     *)
(* menu it sells then, which has to be the one the item was added on.      *)
SlipStillSold(r, i) == TRUE   \* mutant: the menu it answers on is not compared
StillSold(r, i) == seen[r].lines[i].menu = menu
RevalidateItem(r, i) ==
  /\ At(r, {"CreateOrder"}, "checking")
  /\ i \in Items(seen[r]) \ checked[r]
  /\ IF StillSold(r, i)
     THEN /\ checked' = [checked EXCEPT ![r] = @ \cup {i}]
          /\ UNCHANGED <<outside, tables, command, pc, seen, held, offered, since>>
     ELSE Refuse(r)

(* The source of the snapshots is the cart as it is now, and has to be at  *)
(* the version that was validated.                                         *)
SlipIsValidated(r) == cart.status = "Active"   \* mutant: the version is not compared again
IsValidated(r) == cart.version = seen[r].version /\ cart.status = "Active"
LoadSource(r) ==
  /\ At(r, {"CreateOrder"}, "checking")
  /\ checked[r] = Items(seen[r])
  /\ \/ ~IsValidated(r) /\ Refuse(r)
     \/ /\ IsValidated(r)
        /\ seen' = [seen EXCEPT ![r] = cart]
        /\ Go(r, "committing")
        /\ UNCHANGED <<outside, tables, command, held, offered, checked, since>>

(* The commit inserts order, number, submission record and event.  It asks *)
(* nothing of the cart.                                                    *)
CommitOrder(r) ==
  /\ At(r, {"CreateOrder"}, "committing")
  /\ LET m == command[r]
     IN \/ OrdersUnder(m.key) # {} /\ Refuse(r)
        \/ /\ OrdersUnder(m.key) = {}
           /\ orders' = orders \cup {[command |-> m, version |-> seen[r].version,
                                      lines |-> seen[r].lines, onSale |-> since[r]]}
           /\ Answer(r, "applied")
           /\ UNCHANGED <<outside, cart, ops, quotes>>

(***************************************************************************)
(* The surroundings                                                        *)
(***************************************************************************)

Tick ==
  /\ now < MaxTime
  /\ now' = now + 1
  /\ UNCHANGED <<menu, tables, local>>

(* A new menu is published; one that was superseded never returns.         *)
Publish ==
  /\ menu < MaxMenu
  /\ menu' = menu + 1
  /\ UNCHANGED <<now, tables, local>>

EditStep(r) == LoadForEdit(r) \/ ResolveEdit(r) \/ SelectOnMenu(r) \/ CommitEdit(r)
EndStep(r) == ResolveEnd(r) \/ LoadForEnd(r) \/ CommitEnd(r)
QuoteStep(r) == ResolveAttach(r) \/ LoadForQuote(r) \/ AttachQuote(r)
OrderStep(r) ==
  \/ ResolveSubmission(r) \/ LoadCart(r) \/ LoadQuote(r) \/ CheckCheckout(r)
  \/ \E i \in ItemRefs : RevalidateItem(r, i)
  \/ LoadSource(r) \/ CommitOrder(r)

Next ==
  \/ Tick \/ Publish
  \/ \E r \in Requests :
       Request(r) \/ EditStep(r) \/ EndStep(r) \/ QuoteStep(r) \/ OrderStep(r)

Spec == Init /\ [][Next]_vars

(***************************************************************************)
(* Properties                                                              *)
(***************************************************************************)

PCs == {"idle", "asked", "loaded", "selecting", "resolved", "checking", "committing",
        "applied", "replayed", "refused"}

TypeOK ==
  /\ now \in 0..MaxTime /\ menu \in 1..MaxMenu
  /\ cart \in Carts
  /\ ops \subseteq Operations /\ quotes \in Seq(Quotes) /\ orders \subseteq Orders
  /\ command \in [Requests -> Commands \cup {None}]
  /\ pc \in [Requests -> PCs]
  /\ seen \in [Requests -> Carts \cup {None}]
  /\ held \in [Requests -> Quotes \cup {None}]
  /\ offered \in [Requests -> 0..MaxMenu]
  /\ checked \in [Requests -> SUBSET ItemRefs]
  /\ since \in [Requests -> 0..MaxMenu]

(* The versions the cart has had.                                          *)
Versions == {FirstCart} \cup {o.result : o \in ops}

(* Every version of the cart is the one before it with one recorded edit,  *)
(* or ended: of guests editing the shared cart at once none overwrites     *)
(* another's edit or resurrects what another removed, and the row is the   *)
(* last of these versions (CAS at cart-item-command-service.ts:442).       *)
NoEditIsLost ==
  /\ cart \in Versions
  /\ \A c, d \in Versions : c.version = d.version => c = d
  /\ \A c \in Versions : c.version <= cart.version
  /\ \A o \in ops : \E c \in Versions :
       /\ c.version + 1 = o.result.version
       /\ \A i \in ItemRefs \ {o.item} : o.result.lines[i] = c.lines[i]

(* An end is final and was allowed on the very version it ended: a cart    *)
(* was expired only when the deadline of its last edit, not of an earlier  *)
(* version the job had read, was reached; abandoned or edited only before  *)
(* its deadline; and no version follows an end.                            *)
EndIsDueAndFinal ==
  \A o \in ops, c \in Versions :
    /\ c.version + 1 = o.result.version =>
         /\ c.status = "Active"
         /\ o.command.kind = "Expire" <=> IsDue(c, o.command.at)
    /\ o.command.kind \in EndKinds /\ c # o.result => c.version < o.result.version

(* An order is made of one version of the cart, live when it was asked     *)
(* for, and of a quote of exactly that version and those lines that had    *)
(* not run out, however the cart and its quotes changed while the checkout *)
(* read one and then the other.                                            *)
OrderIsQuotedCart ==
  \A o \in orders :
    /\ \E c \in Versions :
         c.version = o.version /\ c.lines = o.lines /\ IsActive(c, o.command.at)
    /\ \E q \in AttachedQuotes :
         /\ q.command.key = o.command.quote
         /\ q.version = o.version /\ q.lines = o.lines
         /\ o.command.at < q.expires

(* An order is wholly of one menu, the one on sale as its checkout turned  *)
(* to the catalog: although that is asked item by item, while guests edit  *)
(* the cart and a menu is published, no order mixes items of two menus or  *)
(* holds one of a menu superseded before (catalogEvidence and the source   *)
(* cart's version at order-item-snapshot.ts:643).                          *)
OrderIsOfOneMenu ==
  \A o \in orders, i \in ItemRefs : o.lines[i] # None => o.lines[i].menu = o.onSale

(* The records of a command's table under its key.                         *)
Under(m) ==
  CASE m.kind \in EditKinds -> EditsUnder(m.key)
    [] m.kind \in EndKinds -> EndsUnder(m.key)
    [] m.kind = "AttachQuote" -> QuotesUnder(m.key)
    [] m.kind = "CreateOrder" -> OrdersUnder(m.key)

(* What a request is told is so: one told that its command was applied     *)
(* finds the one record of its key and in it exactly its own command (an   *)
(* order's at the instant it was first asked for), whoever else used the   *)
(* key, before or at the same time.                                        *)
AnswerIsTrue(r) ==
  pc[r] \in {"applied", "replayed"} =>
    \E o \in Under(command[r]) :
      /\ Under(command[r]) = {o}
      /\ IF command[r].kind = "CreateOrder"
         THEN o.command = [command[r] EXCEPT !.at = o.command.at]
         ELSE o.command = command[r]
AnswersAreTrue == \A r \in Requests : AnswerIsTrue(r)

=============================================================================
