# A verification of bop-rms in TLA+

bop-rms is a restaurant platform in TypeScript: a generic layer (`packages/bop`:
tenancy, identity, permissions, eventing, publishing, tasks, ...), a restaurant layer
on top of it (`packages/rms`: ordering, payment, kitchen, inventory, ...), an API, two
web clients and a worker process.  Most services are written against ports: a service
reads evidence, decides, and hands one record to a repository that commits it.  What
makes the system hard is what lies between two such commits, and that is what is
modelled here: overlapping workers and jobs under leases, lost replies, repeated and
reordered deliveries, retries, and processes that die.

Paths below are relative to `src/`.  `PROJECT.json` maps each definition to the lines it
stands for, and lists runs, hazards, findings and theorems.

## 1. Inventory

### Eventing (`packages/bop/eventing`, `apps/worker`, `migrations/0000-platform`)

*State.*  `outbox_event` (one row per event: attempt count, lease, error code, when it
is due, published, released), `consumer_inbox` (one row per consumer and event),
`consumer_retry_schedule`, `dead_letter_item`; in memory, what each worker has claimed.

*Operations.*  Append in the producer's transaction.  `OutboxDispatcher` claims the head
of each aggregate under a 30 s lease, calls the transport adapter with a timeout and a
bound on open calls, and settles each row by its lease token.  `OutboxRetryScheduler`
polls parked rows and makes them due again or dead-letters them.  On the other side
`ConsumerDeliveryWorker` runs a handler in one transaction with the inbox row and records
a failure in a second; `ConsumerRetryScheduler` claims scheduled retries under a lease.
Operators retry, discard, resolve and release dead letters.

*Hard.*  Several workers; adapter calls outside any transaction; leases that lapse under
live workers; COMMITs whose reply is lost; failures recorded late, over a schedule someone
else has changed; eight attempts and 24 hours.

*Correct when* the events of an aggregate first reach the transport in order, an effect is
committed once, nothing is lost without an operator learning of it, a discard is final.

### Online payments (`packages/rms/payment`)

*State.*  Payment intent and provider observations, webhook receipts with their
processing, the terminal fact with its event, reconciliation records and exceptions.

*Operations.*  Create (claim an intent, call the provider, record what it said), accept
and process a webhook, reconcile (claim candidates with a snapshot, ask the provider,
judge, heal, commit the run).

*Hard.*  Two customer commands for one order; a provider call between two transactions;
webhooks repeated, late and out of order; a job that judges by a snapshot while webhooks
write; a failed intent that is captured at a second try.

*Correct when* an order is charged once, the terminal fact is true and final, completed
receipts and committed checks agree with it, and a capture is never overlooked.

### Compensation of paid orders that cannot be fulfilled (same package)

*State.*  A Critical case, one permanent refund action with its phase, the refund fact with
its PaymentRefunded event, Interac in-person evidence, a receipt of Operations, the
operation record, a fenced lease.

*Operations.*  One job run walks through all of them; Operations and the in-person reader
act on their own; others may refund at the provider meanwhile.

*Hard.*  Runs that overlap when a lease lapses, since only writes to Payment's own records
carry the fence and the refund call does not; a run that dies between any two calls; a
balance that changes after it was read; evidence that expires between two claims.

*Correct when* one refund is asked for, a recorded refund is real, a closed case has both
the refund and Operations' receipt for it, and no late write takes anything back.

### Capture watchdog of terminal authorizations (same package)

*State.*  One operation per authorization and its fenced lease, the permanent Capture and
Cancel actions with their phases, the terminal fact, the task and the exception for
Operations, the committed result.

*Operations.*  One job, run again and again: win the lease, read the clock once, look at the
provider, capture if Ordering accepted in time or cancel once the hard deadline has passed,
look again, record phase, fact and result.

*Hard.*  The deadline passes while a run waits; a call is lost, answered wrongly or takes effect
late; an overtaken run still calls the provider, whose calls carry no fence.

*Correct when* a cancel is claimed only over a capture whose fate is recorded, the fact is what the
provider holds, Operations learns of each capture that came late, and no authorization is
left open.

### Kitchen (`packages/rms/kitchen`)

*State.*  Tickets and work items with versions, operations by idempotency key, readiness and its
audit, the events of each; in the queue projection, generations of rows with a checkpoint,
receipts of consumed events, rebuild operations.

*Operations.*  `OrderConfirmed` plans and commits a ticket.  Cooks accept, start, complete and
mark ready; every command runs in a transaction that takes the fence of its key and the
lock of the ticket, and is attempted once more if its fate is unknown.  The queue consumes the
ticket's events, is rebuilt on request, and is read in pages.

*Hard.*  Two cooks finishing the last two items; a key sent twice; lost acknowledgements of COMMIT;
events in any order; a readiness that has no event; a rebuild beside consumption; pages over a
queue that changes.

*Correct when* a command takes effect once, the order is announced ready once, the history is
one its readers accept, and the queue is that history as of its checkpoint and never goes back.

### Ordering: cart, quote, checkout, order (`packages/rms/ordering`)

*State.*  The cart of a dining session with its version and deadlines, operation records by key,
quotes attached to cart versions, orders with their submission records.

*Operations.*  Guests add, update and remove items, abandon the cart, have it priced and submit
it; a job expires it.  Each service awaits repository, catalog and pricing in turn and
commits against the version it was asked for.

*Hard.*  Guests edit one cart at once; the deadline moves while the job decides; cart and quote are
read side by side; the key is looked up long before the commit.

*Correct when* no edit is lost, an end is due and final, an order is one quoted version of the
cart, and what a request is told is on record.

### Guest sessions (`packages/bop/identity`)

*State.*  `guest_session`, one row per session with version, status, binding and time of last
use; `guest_session_operation`, the immutable results of operations; entry requests and
dining admissions, consumed by their owner.

*Operations.*  Create and bind from an admission, rotate, resolve in the background or as an
interaction (which touches the row), authorize, revoke.  A session's credentials are given out
once, with its issue.

*Hard.*  Exchanges and a revocation of one session race; the reply of an issue is lost with the
admission consumed; two requests of one guest touch at once; a touch is stamped long before it
arrives; journal and sessions are searched by two statements of a READ COMMITTED transaction.

*Correct when* an admission makes one session, of the sessions descending from it one is live, the
journal explains them all, and a session that is revoked serves no later call.

### The rest

Not modelled; the reasons are in section 8.

| Part | State and hard behaviour |
|---|---|
| payment outcome, acceptance, amendment, receipts (ordering) | one record per payment event; the consumer answers retry until a person accepts the order |
| payment status projection (payment) | one row per attempt, rebuilt from facts loaded before its transaction |
| fulfillment | pickup, table and delivery records of ready orders |
| publishing, task, projection (bop) | releases in sequence; assignments; generic generations |
| inventory | ledger and balance; a correction reads, then commits |
| migration runner (`packages/database`) | history under an advisory lock; a COMMIT whose outcome is unknown |
| worker lifecycle (`apps/worker`) | start, stop and states of the process; `stop()` may overtake `start()` |
| browser sessions, API clients, workforce security (identity) | other services of the package; single compare-and-sets of versioned rows |
| tenancy, permission, membership, effective periods, pricing, recipe, reports, ... | versioned records written in one transaction, or pure evaluation |
| API, customer PWA, merchant web, UI, observability | composition and presentation |

Interaction: a producer appends to the outbox within its own transaction; the dispatcher
hands events to a transport, which delivers them to consumers.  Ordering turns a cart into an
order; Payment charges it and its facts and refunds are such events; Ordering's consumers
confirm the order, and the kitchen's open a ticket for it, whose events in turn feed the
queue.  Guests reach cart and checkout under a guest session.  A terminal authorization waits for Ordering's acceptance under the watchdog, and a paid
order that cannot be fulfilled starts the compensation job.

Beyond the hazards in `PROJECT.json` the survey found these in parts not modelled:
the payment status rebuild loads its facts before its transaction; a migration's COMMIT
may have an unknown outcome; `stop()` may overtake `start()` in the worker's lifecycle; two
releases may be prepared from one predecessor; two corrections may load one movement.
In the modelled parts: `resolveRetry` throws when the scheduler's clock is behind the
database's; a reconciliation run aborts on an observation stamped after its own clock; a
compensation replay fails while a recorded refund lies in its future.

## 2. Plan and what became of it

The modules were written in this order, the most important behaviour first.

1. `OutboxDispatch` with its abstract `OrderedRelay`; `ConsumerDelivery` with its abstract
   `HandledOnce`.  Every other component relies on them.
2. `PaymentSettlement`, `PaymentCompensation`, `TerminalCapture`: the money, and
   `TerminalTruth`, what all three promise of the facts they record.
3. `KitchenHistory`, the abstract history, then `KitchenWork` that produces it and
   `KitchenQueue` that reads it.
4. `OrderSubmission`: the guests' side.
5. `GuestSession` with its abstract `SessionLineage`: who the guests are.

Proofs followed each module once its runs passed.  Two
things of the first plan were left: a composition of outbox, transport and consumer, which
would say no more than `ImplementsRelay` and `ImplementsHandling` do for each side of a
transport that is outside the repository; and a model of order acceptance, which is a port.

## 3. Modules and how they correspond to the code

Each SQL transaction or port call is one action; whatever a handler does within it, helpers
and trailing writes included, is part of that action.  Definitions called `Slip...` are
plausible bugs, kept beside the definition they vary; no action uses them.

**`OutboxDispatch`**.  Rows are functions over event numbers, events numbered by
`recorded_at`.  A claim writes a fresh token and counts an attempt, so the attempt number
stands for the token.  `Claim` is `claimSql` (its `NOT EXISTS` is `Head`), `StartPublish`,
`Heard`, `TimedOut` are `#publishOne`, `MarkPublished` and `MarkFailed` the two settlement
statements with their fence `Fenced`, `SchedulePoll` one transaction of the retry scheduler,
and the four operator actions are the branches of `applyDeadLetterCommand` and
`resolveDeadLetter`.  `TransportAccepts` and `TransportFails` are external.

**`OrderedRelay`** says what the outbox promises, without leases, workers or retries: an event
first reaches the transport only after all earlier ones of its aggregate did or were given
up, it is published only once the transport has it, and only an unpublished event is given
up.  `OutboxDispatch` implements it state for state (`Relay == INSTANCE OrderedRelay WITH ...`,
`ImplementsRelay`).

**`ConsumerDelivery`**.  One consumer and one event.  An execution is a record with a phase
(`loading`, `running`, `recheck`, `recording`, `processed`); `Apply` is the handler's
transaction with the inbox, `CommitReplyLost` the unknown outcome and its re-run,
`ScheduleRetry` and `DeadLetter` the second transaction, `ClaimRetry`, `LoadEnvelope` and
`CompleteRetry` the scheduler; `holder` says whose token and version still match the row.

**`HandledOnce`** says what the consumer promises of an event, without executions, leases, clocks
or inbox: the effect once; a failure owed until it is met, which takes the effect, or given up,
which takes a report; a report moved only by operators.  `ConsumerDelivery` implements it
(`Handling == INSTANCE HandledOnce WITH ...`, `ImplementsHandling`): the schedule row is the duty
(`Duty`), the dead-letter item the report, and a claim, a lapse, a crash or a refused record is
nothing the promise sees.  A duty that was met may be owed again: a failure that is recorded late
reschedules a completed row, and the inbox then absorbs the retry.

**`PaymentSettlement`**.  `Admit`, `Claim`, `ProviderCreates`, `RecordObservation` are the
create service; `AcceptWebhook` and `ProcessWebhook` the inbox service with the terminal
service inside its transaction; `StartRun`, `Retrieve`, `FindsDifference`, `Agrees`,
`Heals`, `CommitRun` the reconciliation service.  `Record` is the commit of a terminal fact,
whoever asks for it.  The source of candidates and the provider are external.

**`PaymentCompensation`**.  A run is a record that holds what it has read (`current`,
`truth`, `phase`, `amount`) and the call it waits to make (`at`); each action is one call of
`processPaidWithoutFulfillableOrderCompensation` with the decisions up to the next.
`CanObserve` is the check of the observation against the lease, `Usable` the check of
the Interac evidence, `ClaimAction` and `ClaimTaken` the claim of the permanent action,
`CallProvider`, `LookAgain` and `RecordPhase` the execution of the claimed action,
`Compose` the refund fact with its event in one append, `Reconcile` and `Commit` the
case and the operation record.  The fence is the identity of the last run to win the lease.

**`TerminalCapture`**.  Laid out like the compensation: a run holds what it saw and the call it
waits to make.  `WinLease` reads the clock once and remembers whether the hard deadline was
`crossed`; `Look`, `LookInVain` and `ObservedTooLate` are the first retrieval and its check
against the lease; `ResolveCapture` and `ResolveCancel` are what the run finds of earlier
actions, `MayCancel` and `MayEnd` its decision; `ClaimAction`, `CallProvider`, `LookAgain` and
`RecordPhase` execute the claimed action; `RecordTerminal` appends the fact, `Report` and
`Excuse` hand task and exception to Operations, `Commit` stores the result.  A call once
made stays in `requests` until it takes effect or is refused, whatever became of its run.

**`TerminalTruth`** says what Payment promises of such facts, without webhooks, runs, leases
or retries: of each payment the first evidence to be recorded is the fact, it is of something
that had happened at the provider by then, and nothing that happens later changes it.  The three
modules above implement it (`Promise == INSTANCE TerminalTruth WITH ...`, `ImplementsTruth`;
for `TerminalCapture` this is proved and not run again, since `FactIsProviderTruth` says nearly as much of
one payment); each says in `Backed` what the provider stands behind: in settlement the outcomes it has
announced, in the watchdog the end it came to, in the compensation a retrieval that shows the
whole amount returned.

**`Kitchen`** holds what the kitchen's modules share: items, their quantities, cooks, and
the names for no item and no cook.

**`KitchenHistory`** is the abstract history of tickets, one action per kind of fact: an item is
accepted, started, progressed and completed in turn by the cook who accepted it; the order is
announced ready by the completion of the last item, or item by item by hand.

**`KitchenWork`** produces the history of one ticket.  `ResolveTicket`, `CommitTicket` and
`IntakeFails` are the planning and the commit of `OrderConfirmed`.  A session is a client with
its request: `Ask`, `AskAgain` and `AskOther` send a key anew, again, or for another command;
`Fence` takes the advisory lock of the key and looks the key up, `Load` locks and
reads the ticket, `Commit` decides, appends and commits, and may lose the acknowledgement, after
which the service makes its second attempt; `TransactionFails` is every other failure.
`Admissible` and `WorkAfter` are the domain's transition, `Finishes` its readiness rule.
It implements the history (`History == INSTANCE KitchenHistory WITH ...`, `HistoryHolds`); the
mapping reads phases off the work items and takes the recorded facts for the log.
`Reconciles` is what the queue's projector demands of a ticket before it believes it
(`parseLifecycleProofBundle`, `reconcileLifecycleTicket`): operations numbered without a gap,
each following from the earlier ones of its item, the stored item as they left it, and one
readiness of the item's last version.  The history above says which facts may follow one
another; this also checks versions, increments and the rows the facts are said to explain.

**`KitchenQueue`** reads the history: it instantiates `KitchenHistory` as its source and adds the
projection.  `BeginConsume` and `BeginRebuild` load the active generation before the
transaction, `Consume` and `Rebuild` are the transactions, with `Verdict` (complete, park,
retry) and `Activates` as the code decides them; `RollsBack` is a crash or a failure.
`FirstPage`, `NextPage`, `StartOver` are the paged reader with its cursor.  Its tables are
operators over the log (`RowAt`), as the code rebuilds a ticket from the history it asks for.

**`OrderSubmission`**.  A request is a command with a key, the version its guest saw and the time
it was sent, and a program counter over the awaits of its service: `LoadForEdit`, `ResolveEdit`,
`SelectOnMenu`, `CommitEdit` are the item commands; `ResolveEnd`, `LoadForEnd`, `CommitEnd`
abandoning and expiry; `ResolveAttach`, `LoadForQuote`, `AttachQuote` the quote;
`ResolveSubmission`, `LoadCart`, `LoadQuote`, `CheckCheckout`, `RevalidateItem`, `LoadSource`,
`CommitOrder` order creation with the checkout validation inside it.  `Publish` changes the menu.

**`SessionLineage`** says what guest sessions promise, without credentials, versions, operations or
clocks: a session starts live by itself or in the place of a live one that is gone in the
same step, and what is gone stays so.  A family is a session with all that descend from it
(`Families`), and what the actions come to is that at most one member is live (`OneIsLive`).

**`GuestSession`**.  A call has a command, the time it was stamped with, and a program counter over
its awaits; the session it issues is named after it, and its credentials are with whom
that answer reached.  `LoadForUse`, `ValidateBinding` and `TouchInteractive` are `resolve` and
`authorize` (a background `resolve` does what `authorize` does, with less to validate);
`LoadForExchange`, `SearchJournal`, `SearchSessions`, `Admit` and `Insert` or `Replace` are
`create`, `rotate` and `bindDining`; `Revoke` is `revoke`.  Where a write is refused, `WriteRefused`
is the store's second look at the row.  `AnswerCommitted` loses the reply of a commit, `Fail` is
a failure of anything awaited.  `former` is history: the sessions revoked before a call
was made.  It implements the lineage (`Lineage == INSTANCE SessionLineage WITH ...`,
`ImplementsLineage`).

Each component has an `MC...` module with its instances and a `...Proofs` module; the
kitchen's two modules share `KitchenProofs`.

## 4. Runs

Every run's cfg states `CHECK_DEADLOCK FALSE`: with bounded faults, deliveries, requests and
events each of these systems comes to rest when its work is done.

| Run | Instance | Shows |
|---|---|---|
| `outbox` | 2 events of 1 aggregate, 2 workers, 2 attempts, 1 fault | order of first handoffs (refinement), lease exclusion, final discard, `EventsSettle` |
| `consumer` | 2 executions, 2 attempts, 2 deliveries, horizon 1, clock 2, 1 fault | one careful consumer (refinement of `HandledOnce`), no forgotten failure, horizon, `RetriesSettle` |
| `payment_truth` | 2 payments, 1 caller, 2 runs, 1 crash | a fact is an outcome the provider announced, and final (refinement of `TerminalTruth`); receipts and checks agree with them |
| `payment_charge` | 2 commands for 1 preparation, 2 callers, 1 run, 1 crash | one charge, `CaptureIsAccountedFor` |
| `compensation` | 2 runs, amount 2, 2 pieces of evidence, 1 fault | one refund, the refund fact is true and final (refinement), no record is taken back, `CompensationCompletes` |
| `terminal_capture` | 2 runs, alert and deadline at 1, clock 2, 1 fault | the fact is the provider's truth, beside a cancel only an overtaken run asks for the capture (`HolderCancelsAlone`), late captures reported, `AuthorizationSettles` |
| `kitchen_work` | 2 items of quantities 2 and 1, 2 cooks, 2 sessions, 2 deliveries, 1 fault | a key takes effect once, ready once, true answers, the history is `KitchenHistory`'s and the queue's projector accepts it |
| `kitchen_queue` | 2 tickets of 1 item, 1 cook, 2 workers, 1 rebuild, pages of 1, 6 facts, 4 generations | the queue is the history at its checkpoint, never goes back, what is completed is in it, pages are of one generation, `StopsOnlyBehindSilence` |
| `order_submission` | 4 requests (an edit; a quote or removal; an order; any), 2 guests, 2 keys, 2 items, 2 menus, 3 versions | no edit lost, ends due and final, an order is one quoted version of the cart and of a menu on sale together, true answers |
| `guest_sessions` | 3 calls, 3 operations, 2 pieces of evidence, idle 2, absolute 3, clock 3 | a revoked session serves no later call, the journal explains the sessions, one session per admission, true answers, last use only grows, one live session per lineage |
| `outbox_stranded`, `kitchen_repeat` | smallest that show it | findings, section 5 |

Why the bounds are enough.  *Two* events are the least for which order matters, and two
workers, executions, callers, runs, cooks or guests the least that can overlap; each of the
interleavings the hazards name takes two actors.  Two attempts give a retry and a last
attempt, the only distinction the code makes in the number.  The 24 h horizon is one tick:
a delay either stays within it or reaches past it; likewise the watchdog's deadline lies
between two ticks, and the clock goes on past it.  An amount of 2 has a proper part, so
partial, full and two-step refunds all occur; so has a quantity of 2, for partial progress.
Two pieces of evidence are the least with which a receipt can name the wrong one.  Two items
are the least for which a last one completes the ticket, two tickets the least that a
checkpoint can pass over.  Of the cart, three versions give a version between the one a guest
saw and the one the commit finds; its idle deadline and the quote's life are reached, and
an edit moves the deadline while an expiry is under way; the absolute deadline lies beyond the run's
clock, and `EndsAreDueAndFinal` covers it for all deadlines.  Two menus are one change of what is
on sale, at any point of a submission.  The two deadlines of a guest session are a tick apart,
so that each can pass first.  Of its
calls one has to issue a session and two more can race over it, or use it twice; with three
operations each call can come under a key of its own; two exchanges of one session that are both
admitted take three pieces of evidence, and are covered by the theorems only.  Lost replies and failures of a guest's calls are unbounded.  One fault (a crash, a failed commit or settlement, a
lost acknowledgement, or a lease that lapses under a live worker) can fall
between any two steps; at the provider, lost and late replies are not faults and are
unbounded, and leases of the outbox and of consumer retries lapse at any time.  All safety
properties of passing runs are proved for all constants too (section 7), so only liveness
rests on these bounds.

Symmetry is used only in runs that check no liveness (`payment_truth`, the kitchen's,
`order_submission` and the guests'); what is permuted is interchangeable in `Init`, `Next` and the
properties.  Each module's type invariant is proved, not run.

## 5. What the code does otherwise than its documents say

Shown by a run:

* `outbox_stranded` (WP-0033: exhausted work yields a dead letter).  A worker that dies in
  the eighth attempt leaves a row neither the claim nor the poll selects.
* `kitchen_repeat` (WP-1404: a repeated command is adopted).  The attempt after a lost
  acknowledgement finds the operation it committed itself, compares it with a clock sampled
  before the transaction, and answers DEPENDENCY_UNAVAILABLE
  (`kitchen-work-lifecycle-service.ts:2455`).

Noticed while modelling, without a run (documents under `docs/spec/work-packages`):

* WP-0031:149, at most one row of an aggregate in flight: the adapter is called without
  looking at the lease again; with 25 rows per claim, 10 calls at a time and 20 s per call the
  last rows start after their 30 s lease lapsed.  `ImplementsRelay` shows this cannot reorder
  first handoffs.
* WP-0033: an item stays `retry_scheduled` after an operator's retry fails for good
  (`retry-dead-letter.ts:116`); rows parked for good can fill the oldest-first batch of 25
  (`:250`); TENANT_SCOPE_DENIED is returned, not thrown, and only exceptions are recorded
  (`consumer-delivery.ts:109`); after the discard of a consumer's event neither its delivery nor its
  retry looks at the item.
* WP-1305:46, same-fact replay returns the committed fact: `sameFact` (`payment-terminal-service.ts:40`)
  compares the evidence too, so agreeing evidence from the other source is a conflict; the receipt of such
  a webhook never completes, and a reconciliation run that meets it aborts.
* WP-1307 section 6: matching non-terminal evidence is to be `Matched`;
  `payment-reconciliation-service.ts:369` records `Unresolved`.
* WP-1309:39, a fenced lease prevents concurrent capture and cancel work: `processCapture`
  (`payment-terminal-capture-watchdog-service.ts:954-984`) goes from a recorded capture that is Claimed,
  InvocationUnknown or ResolvedAuthorized to the provider call without claiming again, and the call
  carries no fence.  A run that looked before the deadline and was overtaken can so ask for a capture
  after a later run has claimed and sent the cancel; both requests are then with the provider,
  which takes one of them.  `HolderCancelsAlone` states what does hold.
* WP-1309:95, no capture starts at or after the hard deadline: a slow run whose clock is not read
  again may start one.  After a completed task every later report short of a capture fails, and a
  capture whose invocation is unknown past the deadline stays `ReconciliationRequired`, as clause
  11 says.
* Ordering: the intent of an edit, an end or an attachment contains `requestedAt`, which the API
  stamps per request (`customer-cart.ts:536`, `customer-quote.ts:98`), so a client's retry
  under the same key is a conflict and not the replay of WP-1201 and WP-1205.  `cart.ts:319`
  reads the version as a quantity of at most 999: that cart accepts no edit, abandon or
  expiry any more.  Order creation takes its own `requestedAt` for the time of the
  snapshot, so a validation never expires under a slow run, and its commit asks nothing of the cart:
  an order may be committed after its cart was edited or abandoned or its quote ran out
  (WP-1220).  Two submissions of one cart version under two keys may both become orders, since
  the index over cart versions is not unique.
* Kitchen: a readiness made by hand has no event, so other tickets' later events wait for a rebuild
  (by contract); a created ticket that has progressed before its event arrives is parked, and its
  own later events wait for a rebuild; an item accepted by a cook who leaves can be started
  by nobody else; cooks at different items conflict through the ticket's version.
* WP-1003:133, a repeated operation returns the original bounded result: the repeat looks for its
  operation in the immutable journal and then in the sessions (`guest-session-entry-store.ts:419`), as two
  statements.  If the first call commits between them, it is answered from the session's row as it is
  by then, touched or revoked.
* Guest sessions: a touch stamped before the idle deadline keeps the session alive although it is
  written after it.  A guest whose reply of create, rotate or bind was lost is told AlreadyApplied
  and never gets the credentials, with the admission consumed.  `authorize` may answer after a
  revocation that fell between its read and its answer, which `FormerIsDenied` allows: it speaks
  of calls made after the revocation.  Of two calls that touch at once the loser is told
  UNAVAILABLE though the session is live.  Rotating a session bound to a table yields an unbound
  one.  A session at version 2^31 - 1 can be neither touched, exchanged nor revoked.

## 6. Fairness

* *Outbox.*  Timers fire, workers go on with what they hold and poll again, the scheduler
  polls: the loops of `apps/worker` reschedule themselves after each turn.  The transport,
  producers and operators owe nothing; an adapter call that is never answered times out.
* *Consumer.*  The clock ticks, leases lapse, executions proceed, the scheduler claims as
  long as something is due.  Which execution claims is left open.
* *Settlement.*  WP-1307 section 12 schedules the job at least every 15 minutes; its clause 3
  selects attempts that are unresolved, mismatched or overdue.  Strong fairness of `StartRun` for
  each payment without a terminal fact or with an open exception (`AwaitsCheck`) says that the
  candidate source comes to each of those, since the overlap rule may disable it for a while;
  that of `Retrieve`, that the provider is not unreachable for ever.  Webhooks owe nothing.
  Hence the two halves of `CaptureIsAccountedFor`: a captured payment gets a terminal fact, and one
  whose recorded failure a check once questioned gets the Critical exception.  A payment recorded
  as failed whose later success webhook never arrives awaits no check, and nothing is
  claimed of it.
* *Compensation.*  The scheduler starts runs until the operation is closed (only a closed
  one is replayed), runs go on, a lease left behind lapses.  `Look` and an arriving call are
  strongly fair: the provider is not silent for ever and not every call is lost.  A
  request that was taken is worked off.  Operations, staff and customers owe nothing,
  hence `AwaitsOthers`.
* *Terminal capture.*  The clock ticks, the scheduler starts runs, a run that does not die goes on,
  a lease left behind lapses.  `Look`, `LookAgain`, a call that takes effect, and a report that
  gets through with all its receipts are strongly fair: provider and exception store are not
  out of reach for ever.  Ordering need never accept.

No liveness is claimed of the kitchen, of ordering and of guest sessions: cooks and guests owe
nothing.  What the
queue owes is stated as safety: when no worker can settle a waiting event, a readiness
without an event or an overtaken ticket is the reason (`StopsOnlyBehindSilence`).

## 7. Proofs

All theorems are checked by TLAPS for any values of the constants that satisfy the named
assumptions of the module (`ConstantsAssumption` or, in the kitchen, in ordering and for
guest sessions, several: deadlines in order, items that exist, for the queue finitely many items
and tickets, a null that is no value, the requests' senders).  In each module the invariants the runs check are not inductive: they
speak of the tables, and a step's effect depends on what a worker has read and holds.
The strengthening says just that.

* `OutboxDispatchProofs`: `OutboxInv` adds to the types that a lease is on an unpublished row
  without an error whose predecessors are published or released (`LeaseInv`), that a released
  row stays parked and its item closed (`ReleasedInv`), that an item in an operator's hands is
  on a row the policy will not retry (`DeadInv`), and that what a worker remembers of
  its claim, and every open call, stays true after the lease is lost (`TaskInv`, `WireInv`);
  `HandedInv` is then order of first handoff.  Predecessors, once out of the way, stay so: that
  is why a worker that lost its lease may still call the adapter without breaking the
  order.  A final discard and the refinement of `OrderedRelay` (initial states map to initial
  states, every step to a step or a stutter) follow from the same invariant.
* `ConsumerDeliveryProofs`: `ConsumerInv` adds that an execution which has processed the event
  finds the inbox row (`ProcessedInv`), and that a deadline held by an execution is
  within the horizon of the latest delivery (`DeadlineInv`).  The refinement of `HandledOnce`
  needs of it that who completes a retry finds the row claimed and the inbox row there; what
  the promise itself comes to (`HandlingIsAccountedFor`) is inductive as it stands.
* `PaymentSettlementProofs`: `SettlementInv` adds that what Payment refers to exists at the
  provider (`KnownInv`), that one claimed intent belongs to a preparation and only its own
  call asks (`ClaimInv`), that all outcomes in anyone's hands were emitted
  (`EvidenceInv`), and that pending judgements are true already (`CheckInv`).  For the
  refinement of `TerminalTruth` each step is either one by which the provider announces an outcome,
  one that records a first fact, or neither (`AnnouncementSteps`); evidence in anyone's
  hands was announced, so the second is a step of the promise.
* `PaymentCompensationProofs`: `CompensationInv` adds that a run whose fence is the newest holds
  the case as it stands, and one that has read a confirmed case will find the fact
  (`ReadInv`); that a run takes only a full refund for confirmed (`FoundInv`); that the case
  says no more than fact and receipt back (`RecordInv`); and that the action a run
  acts on is the permanent one (`ActionInv`).  `NothingIsUndone` is the point of the fence:
  a fenced write is made from the case as it stands, an unfenced one is refused.  `TruthRefinement`
  needs of it only that the provider's balance does not move while a run records
  (`TruthSteps`), and never falls from the whole amount.
* `TerminalCaptureProofs`: `IInv` adds, of each run, that what it saw of the provider is so for
  good (`SeenIsSo`), that it confirms only what is (`ConfirmsWhatIs`), that it acts before
  the deadline or remembers that it passed (`ActsInTime`), and, as long as no later run has
  won the lease, that what it concluded from the recorded actions still stands
  (`FenceHolds`).  The calls carry no fence, but claims do, and a cancel is claimed only over a
  capture whose fate is recorded (`CaptureIsResolved`).  `HolderIsAlone` follows: once a cancel is
  claimed, no run that holds the newest fence asks for the capture; an overtaken one still may.  A lemma (`RunKept`) keeps the other runs.
  What a run saw is so for good, hence the first fact is right (`TruthRefinement`).
* `KitchenProofs`, first part, `KitchenWork`: `IInv` says that at most one session holds the
  fence of a key and one the ticket's lock (`OneFence`, `OneLock`), that a fenced key is on no
  record (`FencedIsNew`), that what the lock's holder loaded is the ticket as it stands and
  carries the versions its command names (`LoadedIsCurrent`), that the ticket's version counts
  its operations (`TicketCounts`), and that readiness is announced exactly when all items are
  completed (`ReadyIsAnnounced`).  `KeyTakesEffectOnce`, `OrderReadyOnce`, true answers and the
  refinement of `KitchenHistory` follow.  `HistoryIsAccepted` needs one thing more: the claim on
  an item is the recorded acceptance by that cook (`ClaimIsTold`).  An appended operation
  changes nothing of what the projector expects before an earlier one (`ExpectationsStay`), and
  after it expects what the operation left (`ExpectationsGrow`); so the check, passed before a
  commit, is passed after it (`CommitIsAccepted`).
* `KitchenProofs`, second part, `KitchenQueue`: the rows are aggregates over a log that grows
  under the projection, so `QInv` begins with the history itself: a ticket's facts begin with its
  creation, stages count, quantities of an item never fall (`HistoryInv`).  It adds that one
  transaction works on the active generation, which nobody has replaced meanwhile (`LockHolds`),
  that the active generation is well formed and shows what the history held at its checkpoint
  (`Activated`, `QueueIsHistory`), that what the reader
  has seen of a generation still reads so (`ReaderSees`), and that only the creation of a
  ticket that has moved on is given up (`GivenUp`).  A row is the last fact of each item up
  to the checkpoint; `LatestFact` and `RowsGrow` are the lemmas on that, which rest on the log
  being finite up to a checkpoint (`LastExists`, by an injection into a finite interval, since
  there is no induction here).  `Forward` is proved with the invariant: every step
  leaves checkpoint, rows and readiness where they were or further on, which is
  `NeverBackwards`.  `StopsAreExplained` reads off the verdict which facts can hold a waiting event up.
* `OrderSubmissionProofs`: `IInv` relates the tables to one another (`TablesHold`: versions are
  those of the recorded results, an end is the last of them, a key is taken once, quotes are
  priced from a version that was) and each request to the tables (`RequestsHold`): a
  loaded version that has the row's version is the row, which is what makes the compare-and-set
  enough to lose no edit.  A second layer on top of it, `MenuInv`, is about
  the catalog: no line is of a menu later than the one on sale, a submission's lines are of none later
  than the one on sale as its checkout turned to the catalog, and an item checked since then is of
  none earlier.  Between the two there is one menu for all items
  (`OrdersAreOfOneMenu`).
* `GuestSessionProofs`: `IInv` says of each call, by how far it is, what it has found out
  (`CallHolds`: the session it presents exists, what it loaded was a state of that session no later
  than the present one, its evidence is consumed by its operation), and of each row that it goes
  with the finished call it is named after and with that call's consumed evidence (`RowHolds`).  The
  four writes of the tables are lemmas of their own, as is that rows only grow.  Everything the
  runs check of the store follows, the refinement of `SessionLineage` included.
  That at most one session of a family is live (`OneSessionPerLineage`) is proved of the lineage
  with `LineageInv`: following parents never leads round in a circle (`Founded`: every non-empty
  set of sessions that started has one whose parent is not in it), and families hold one live member at
  most.  A new session is nobody's parent, so a family closed under descent that gains it had
  its parent, which is gone in the same step; and without it the family is one as before
  (`FamilyWithout`).

Each proof has an initial lemma, a lemma per part of the invariant with one case per action,
and a last temporal step.  Frame lemmas (what a process can change at all) keep the cases few.
Leaves are kept small: none needs a fifth of the provers' default time, so that the proofs
check on a slow or a busy machine too.

Only model-checked: the liveness properties (`EventsSettle`, `RetriesSettle`,
`CaptureIsAccountedFor`, `CompensationCompletes`, `AuthorizationSettles`), which are out of
the prover's reach, and the violations.

## 8. Assumptions and what is not modelled

* *Outbox and consumer.*  Producers append an aggregate's events in version order (no code
  checks it, and no production code calls the append yet).  One dispatch scope; row-level security,
  envelope validation (a stored row that no longer validates aborts its scope's claim) and
  the evidence rows of attempts and operator actions are left out.  The failure recorder is
  configured.  The two clocks agree.
* *Settlement.*  Ports, mapper and candidate source behave as WP-1307 and their types say; in
  particular concurrent runs do not claim the same candidate.  One webhook event per payment and
  terminal status; amounts agree; a provider's observation is not newer than the run's
  clock.  A lost create reply leaves an intent no code comes back to:
  `CaptureIsAccountedFor` is stated for intents whose reference was recorded.
  A failure that was recorded and never contradicted is not looked at again (section 6).
  Daily settlement, amount mismatches, raw-evidence retention and signatures are left out.
* *Compensation.*  WP-1310 is contract-first: the repositories are ports, assumed to refuse the
  write of a superseded fence.  The provider deduplicates by idempotency key and refuses to
  refund more than was captured.  One piece of Interac evidence per payment.  Operations
  issue a receipt only when the provider shows the full refund.  Clock skew and a refund that
  fails after it succeeded are left out.  Two states wait for people by design and are named
  in `AwaitsOthers`: a receipt that names other evidence than the recorded fact can never be
  replaced, and an action whose amount was overtaken by a partial refund is never retried.
* *Terminal capture.*  The same ports and fences as the compensation.  Authorizations, digests and
  amounts are refusals that change nothing.
* *Kitchen.*  Repositories are ports whose transactions, fences and locks are those the services
  demand.  One ticket in `KitchenWork`: commands on two tickets share nothing but keys.  The
  queue's retries are not exhausted here; exhaustion is `ConsumerDelivery`'s.  What a queue's
  adapter compares at activation is taken from what the service demands of it.  Filters and
  reads of single rows are left out.
* *Ordering.*  Repositories are ports without adapters: compare-and-set and primary keys are
  those of the port contracts and of migrations 1300_002, 004, 005 and 007.  The limit of 100
  items is the number of item references.  A request that is denied, fails or crashes takes
  no further step.  The menu never returns to an earlier version: releases are numbered upwards
  and a superseded one stays so (`menu-publication.ts:95-120`).  Pricing's checks of `quotedAt` never refuse in a reachable state.
* *Guest sessions.*  The owner of entry requests and dining admissions gives each to one operation, as
  its port says.  Credentials are drawn afresh and differ.  A call expects a
  version its caller can have seen; the code takes any from 1 on
  (`guest-session-service.ts:364`, `:492`, `:571`) and refuses one that is ahead,
  unless the session has reached it by the time of the write.  The closure deadline of a settled
  order is left out, since no code sets it; so are tables, channels and locales of a
  binding and the inspector of rows from before the journal, which only reads.
* Digests, scopes, versions of unchanging content and authorizations are refusals that change
  no state.
* The components listed as `not_modelled` in `PROJECT.json`, with the reason for each: they decide
  within one call or transaction from their own data, are presentation, or sit behind ports
  that have no implementation in the repository.
