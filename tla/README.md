# A formal model of the RydaLux backend

RydaLux is a ride-hailing and parcel service for Nigeria: a NestJS API over
PostgreSQL (Prisma) and Redis, with a rider/driver app and an admin console as
its clients. This directory holds TLA+ specifications of the parts of the API
in which several requests, webhooks, timers and processes meet on the same
rows, TLC configurations that check them on small instances, and TLAPS proofs
for every value of the constants.

All paths are relative to `src/services/api/src` unless they start with `src/`.

## 1. Inventory

| Component | State it keeps | Operations | Meets | What is hard |
|---|---|---|---|---|
| Trip payments (`payments/payments.service.ts`) | `Payment.status`, ledger rows, wallet, `Payout` | initiate, authorise, capture | called by trips and Paystack's webhook handler | capture is called from two sides and by retries, some at once; repeated postings; a stale status |
| Money arithmetic (same file) | none | decimal to minor units and back, basis-point shares | capture, refund | rounding, signs |
| Ledger posting (same file) | `FinancialTransaction.reference`, balances | `recordAccountEvent`, `recordWalletEvent` | every money path | at most one posting per reference, complete sets of postings |
| Paystack charges and provider events (`payments/paystack.service.ts`) | `ProviderEvent`, `Payment.externalId` | webhook, processing, retry, dead-letter | Paystack, scheduler, finance admin, payments | redelivery, reordering, exceptions answered 200, crash during a retry, overlapping executions |
| Paystack refunds and disputes (same file) | `Refund`, `PaymentDispute`, reversals | request, webhooks | admin, Paystack, ledger | check-then-create, a call that never answers, late webhooks |
| Paystack transfers (same file) | `Payout`, transfer references | initiate, retry, webhooks | payouts, Paystack | transfer before claim, repeated webhooks |
| Payouts (`payments/payouts.service.ts`) | `Payout`, payout accounts | request, approve, reject, mark | driver, admin, ledger | balance read outside the transaction, check then write by id |
| Ledger administration (`payments/ledger.service.ts`) | adjustments, reversals | reverse, adjust, validate | payouts | single-entry rows against a double-entry validation |
| Idempotency (`idempotency/idempotency.service.ts`) | `IdempotencyKey` | reserve, replay, take over, complete, fail | money-moving controllers | unconditional take-over, lock expiry, failure after success |
| Outbox (`outbox/outbox.service.ts`) | `DomainOutboxEvent` | enqueue, list, claim, publish, mark | state changes of trips, payouts, shipments; a timer | overlapping runs, leases, crash between delivery and mark |
| Finance scheduler (`scheduler/finance-scheduler.service.ts`) | `FinanceSchedulerRun` | event retries, reconciliation, daily close | provider events, ledger | takes ten events, only FAILED ones |
| Trips and dispatch (`trips/trips.service.ts`) | `Trip.status`, PIN, assignment, driver's status, dispatch lock | transition, accept, dispatch, cancel | payments, drivers, Redis | reads before writes, PIN attempts, two acceptors, lock lifetime |
| Shipments (`shipments/*.ts`) | `Shipment.status`, one-time codes, quotes | quote, accept, pick up, deliver, admin overrides | trips, outbox | two state machines that must agree; a request that dies between them |
| Fare quotes (`fare/fare.service.ts`) | `FareQuote` | quote, consume | trips | double consumption |
| Authentication (`auth/auth.service.ts`) | `OtpRequest`, `AuthSession` | request and verify codes, refresh, log out | the apps | refresh rotation at once, log-out against refresh |
| Mobile app's client (`src/apps/mobile/src/api/client.ts`, `store/`, `context/`) | stored tokens, `isRefreshing`, `pendingQueue` | send, refresh, wait, resend, log in and out | authentication | answers in any order, calls that wait for another's refresh, restarts |
| Users, drivers, vehicles | profile rows, `DriverProfile.status`, active vehicle | update, review, activate | trips | multi-row updates |
| Support and safety (`support/`, `safety/`) | tickets, SOS events | status changes | admin | transitions checked outside the write |
| Flutterwave, SMS, gateway, platform, screens | none that another part depends on | I/O | - | - |

What makes each correct, in one line: **payments** - a captured payment is
posted completely, once, only when it was earned, and pays out once; **provider
events** - every announced charge reaches the ledger; **ledger** - balances are
the sum of the postings and the parts add up to the gross; **outbox** - every
event is delivered at least once before it counts as published, and settles;
**idempotency** - one key runs one request once; **payouts** - the money of a
payout leaves once, and the books follow it; **trips** - one driver per trip, one
trip per driver, no start without the PIN; **shipments** - trip and shipment end
together, and a parcel is handed over on its code or on an admin's word;
**sessions** - a refresh token is good once, and the app never signs itself out.

`PROJECT.json` lists every component with its status and, under `hazards`, the
lines where each of these can go wrong.

## 2. Plan

| Order | Module | Models | Abstract specification | Status |
|---|---|---|---|---|
| 1 | `Money`, `Ledger` | arithmetic, posting | - | done, proved |
| 2 | `Payments` (uses 1) | charge, authorise, capture, provider events | `Settlement` | done, refinement and invariants proved |
| 3 | `Outbox` | outbox processor | `EventDelivery` | done, refinement and invariants proved |
| 4 | `Trips` | booking, transitions and the PIN, acceptance, dispatch and its lock | - | done, invariants proved |
| 5 | `Refunds` (uses `Money`, `Ledger`) | refund requests, refund webhooks, the reversal and its reconciliation | `Settlement` | done, refinement and invariants proved |
| 6 | `Payouts` (uses `Ledger`) | requests, reviews, transfers, transfer webhooks, payout accounts | `Settlement` | done, refinement and invariants proved |
| 7 | `Idempotency` | reservation, replay, take-over, lapse of the lock | `KeyedAnswers` | done, refinement and invariants proved |
| 8 | `Shipments` (with the trip's status as 4 has it) | shipment states, one-time codes, quotes, the admin's overrides | - | done, invariants proved (in `TripsProofs`) |
| 9 | `Sessions` | refresh, rotation, log-in and log-out, with the mobile app's client | - | done, invariants proved |
| 10 | `ProviderEvents` | the scheduler's ten oldest events, several payments | every failed event is retried | not modelled |
| 11 | `SupportTickets`, `Safety` | tickets, SOS events, location updates of a ride | - | not modelled |

Payments, Payouts and Refunds meet on the books: each module takes the part of
the other's rows that its own code reads or writes (a refund meets a payout, a
driver's wallet and a payment as rows that change meanwhile), rather than all
three being composed, whose state space is out of TLC's reach. What they have in
common is stated once, in `Settlement`, which each of them implements.

Every invariant, action property and refinement that a run checks is also proved
for all values of the constants (section 6), except for `AttemptsAreLimited` and
`OneTripPerRider`. What is left of the
plan is the modules 10 and 11.

## 3. Correspondence to the code

A step of a model is what the code does between two points at which another
request may run. A `$transaction` whose writes hang on a conditional
`updateMany` is one step, because PostgreSQL re-evaluates the condition on the
locked row and everything else in the transaction follows from its count; a
read, an `await`, and an unconditional update are separate steps, also inside a
transaction, because the isolation level is read committed.

### `Money`
`CalculateShare`, `DecimalToMinorUnits` and `MinorUnitsToDecimal` are the three
helpers at the top of `payments.service.ts`. A Prisma decimal is a sign, a
natural number and a sequence of digits. BigInt has no width, so there is no
overflow to model. `ReversedCommission` is the expression of
`reverseFullRefundLedger`.

### `Ledger`
A book is the set of references posted and the balance of each account and
wallet. `Post` is `recordAccountEvent` and `recordWalletEvent`: they look the
reference up and return the existing row, or create the transaction, its entry
and the balance increment.

### `Settlement`
What the three flows of money through Paystack promise, and the abstract
specification of each: an item is entered in the books only after it has been
settled outside, then in one step, with all it is worth, once and for good. It
knows nothing of statuses, events, retries and handlers, and has two actions.

| | `Payments` | `Payouts` | `Refunds` |
|---|---|---|---|
| item, worth | a trip, its gross | a payout, its amount | a payment, its amount |
| `settled` | completed, and charged if it is Paystack's (`Due`) | a transfer has succeeded, or is mocked (`Transferred`) | Paystack has given it back (`Returned`) |
| `booked` | posted as captured (`Captured`) | posted as paid (`PaidOut`) | reversed (`TakenBack`) |
| `total` | commission and what is owed to drivers | what payments took from what is owed to drivers (`TakenFromPayable`) | what has left cash clearing |
| property | `CapturePromise` | `PayoutPromise` | `RefundPromise` |

What is owed to drivers also grows with earnings and with failed payouts that
are taken back; `TakenFromPayable` leaves these out. Mocked refunds
are no items: nobody gives them back, and two requests at once do
reverse one payment twice (section 4). Clearing is not the total of `Payments`,
since it is credited three times (section 4).

### `Payments`
`Payment.tripId` is unique, so a payment is its trip. `payment[t]` keeps the
status, the provider and whether `externalId` is set. `tripPc[t]` abstracts the
trip to the points at which it touches its payment: `DriverAccept` and
`AcceptDispatch` commit the assignment, `Authorize` follows the first only;
`CompleteTrip` commits, `CaptureOnComplete` follows it. `RequestCrash` is a
process that dies between a commit and the call after it. A shipment's trip has
no fare quote and so never a payment (see `Shipments` below): rides only.

The provider's side: `ChargeAttempt` is Paystack taking, or failing to take, the
money. `ReceiveWebhook` is the upsert of the event row and the early return of
`handleWebhookEvent`; `Begin`, `ReadPayment`, `WriteConfirmation`, `ReadTrip`,
`CaptureOnCharge` are `processProviderEvent` with `handleChargeSuccess`, and
`WriteFailure` is `handleChargeFailed`; `MarkProcessed`, `HandlerThrows`,
`MarkFailed` its try and catch. `SchedulerRetry`, `AdminRetry`, `AdminDeadLetter`
are the other ways an event is worked on. A handler's `job` holds what it has
read; `WriteConfirmation` computes the new status from it, as the code does.

Left out, with the reason: the read-only queries; `TripsService.capturePayment`
(nothing calls it); the "payment not found" branch (the initiation commits the
payment before Paystack knows the reference); the row read between
`retryProviderEvent`'s check and `processProviderEvent` (`Begin` overwrites the
status whatever it is). `Gross[t]` is the fare quote's total, fixed when the
payment is created.

### `Outbox` and `EventDelivery`
`row[e]` is the status and `attemptCount` of a `DomainOutboxEvent`; `due[e]`
says that its `nextAttemptAt` is null or past, which is all the code asks of
time. A run (`w`) lists at most `Limit` rows as they are at that moment
(`todo[w]`), claims each with one update conditional on status and attempt count
(`Claim`), publishes, marks. `MarkFailed` updates by id, as the code does.
`LeaseLapses` under a run at work is counted by `overtakes`.
`EventDelivery` is what a reader of the event stream is promised; `Outbox`
implements it under the mapping `Stage`.

### `Trips`
`trip[t]` is the status, rider, driver and PIN of a `Trip` row; `pin` says that
there is a PIN, `attempts` and `flagged` are `failedPinAttempts` and
`safetyFlagged`. Whether a PIN is right, wrong or out of date is a choice of
`CheckPin`, and `verified[t]` remembers that the right one was given. `duty[d]`
is a driver's `currentStatus`, and `isOnline`, which is set with it.

A request is at most one of: `createTrip` (`Book`, `ReadQuote`, `CreateTrip`, or
`ExpireQuote`); `transition` (`Transition`, for PIN_VERIFIED `CheckPin` with
`ExpirePin`, `CountWrongPin` or `ClearPin`, then `WriteTransition`);
`driverAcceptTrip` (`DriverAccept`, `AcceptRead`, `AcceptWrite`);
`acceptDispatch` and `rejectDispatch` (`AnswerDispatch`, then `TakeTrip` or
`RefuseTrip`, then `TellDispatch`). Each reads, and writes by id later, so that
anything may have happened between. `Admitted` is checked against the status
that was read first, as in the code. A dispatch (`x`) is `withDispatchLock`
around the loop of `dispatchTrip`: `Ask` assigns the next candidate without
looking at the trip, `Listen` and `DecisionTimesOut` are
`waitForDriverDecision`. The order of candidates is left open. The lock is a key
with a time to live: `LockLapses` under a dispatch at work is counted in
`lapses`; the key of a dispatch that is gone lapses at any time.

The map of sessions is in the memory of one process, and the model has one
process: `ProcessCrash` takes all requests, dispatches and sessions with it.
`RequestThrows` and `DispatchThrows` are a database or Redis call that throws.
What a person may ask for by role (`trips.controller.ts`) is wider than what the
table admits, so that any request may ask for any transition. Shipments'
trips, which other services also write, are in `Shipments`; payments at
acceptance and completion are in `Payments`.

### `Payouts`
`payout[p]` is the status, transfer reference and code of a `Payout` row;
`account[d]` a driver's recipient and its cooldown; `transfer` is what Paystack
has accepted, one live transfer per reference, which is the external assumption
of the module (the reference is `RYD-TRF-<id>`, the same in every attempt).
`requestPayout` compares with the balance owed to all drivers. A review is a
read, a check and a write by id or by status, as the code has it, in two or
three steps; a transfer is the refusals of `initiatePayoutTransfer`, the call to
Paystack (`TransferMoves`), and the conditional claim of the row after it, each a
step, with a lost answer, an exception or a crash between them. Events of a
transfer may come before its code is stored, late, and again.

`approvePayout` posts one entry and then asks `validateLedgerBalance` whether
its debits equal its credits (`ApprovalBalances`): they never do, the
transaction is rolled back, and a payout becomes APPROVED in a retry only (the
unit tests mock the validation). Left out: the payouts' read-only queries, and
the ledger service's reversals, adjustments and `checkIdempotency`, which have
no callers.

### `Refunds`
`refund[i]` is the status and reference of a `Refund` row, and whether it is
reversed or flagged for an admin (a NEEDS_RECONCILIATION operation about the
driver's share). `requestRefund` reads (`Outstanding`), creates the row
PROCESSING and calls Paystack, which accepts, refuses or does not answer;
`handleRefundEvent` writes the announced status by id and reverses after
PROCESSED; the reconciliation, the scheduler's or an admin's, begins with a
refund that it has listed as PROCESSED and not reversed (`BeginReconciliation`).

`reverseFullRefundLedger`, which all three call, is a transaction, read
committed, in four steps. `ReadRefund` reads the row and goes on if it is
PROCESSED and not reversed. `LookUp` is everything the transaction reads after
that: whether its postings exist, the payout and the wallet; what it makes of
them is in `tx[w]`. `Commit` writes all of it: what was found is not posted
again, and the row and the payment are updated by id. `RollBack` ends it instead
when another reversal has committed postings that this one did not find, by the
unique references. `WorkerFails` ends it anywhere, with nothing written. So two
reversals of one refund may run at once; the second finds the postings of the
first if it looks after the first has committed (`recordAccountEvent` returns an
existing row), and then decides about the driver's share once more, against a
wallet that no longer has it: it asks an admin to settle what has been taken.
`overlapped` remembers the refunds on which two reversals were at work;
`BooksFollowReversals` excepts them in this one respect. Several reads are one
step because a reversal that finds the postings decides on rows that are as
committed as the postings are, and one that does not is rolled back if anything
was posted since, whichever read comes first.

The driver's wallet and the payout change meanwhile (`WalletMoves`,
`ReviewPayout`, `SendPayout`), also between `LookUp` and `Commit`. Of a payout's
statuses the reversal tells three apart, so that a rejected payout is as an
approved one, a failed as a requested, a paid as one being sent. Paystack refunds
a transaction once, which is an external assumption. Disputes are left out: one
row, one update at a time, read by nobody.

### `Idempotency` and `KeyedAnswers`
`row[k]` is an `IdempotencyKey`, `lapsed[k]` says that its `lockedUntil` is past
(`expiresAt` is never looked at). A request is `Create`, or the read and, by what
it has read, a replay, a conflict or the take-over, which is an update by id
without a condition; then the handler's run, and `completeKey` or `failKey`. A
key's scope and body are values, compared as the hash is. Requests without a key
go past the service and are not modelled.

`KeyedAnswers` is what a client is promised, who knows nothing of rows, statuses
and locks: a request is worked on (`Work`), told what work under its key has
answered to the same body (`Repeat`), or turned away; and there is work after an
answer only once the promise is waived for that key. `Idempotency` implements it
with `asked` as what a request waits for until its handler has succeeded or
failed (`Asked`), `given` as `answers`, `told` as `replay`, and `waived` as
`excused`: a lock lapsed under an unfinished row, or a run was marked as failed.
After that the code may run a handler again, and twice at once; what it still
promises is that whatever is repeated was answered.

### `Shipments`
Names that `Trips` has too carry a prefix here (`ShipInit`, `shipTrip`), so that
the proofs about both stand in one module. One `Shipment` with its trip, its
quote, its two codes and its proof. A request is a plan, a sequence of the steps
its code takes after its own checks (`BeginPlan`): admit a trip's transition,
write the trip, write the shipment, verify a code, count the proofs. Each step is
done against the rows as they are then, so that requests overlap, throw and die
between any two of them. The sender creates, quotes and cancels; the driver
accepts, arrives, picks up, delivers and hands in a proof; the admin assigns,
disputes, resolves, cancels and patches (`Synced` is what `adminUpdateStatus`
makes of the trip); and the trip's own endpoints move it underneath.

A code is `known` if somebody was told it. Three histories go with the rows:
`spent` are the kinds of which a right code has been used up, `ship.forced` those
for which an admin stood in, by writing the verified status (`adminUpdateStatus`
asks for no code) or by resolving the shipment as delivered; `code[k].tries` are
the wrong attempts that were counted, while `code[k].attempts` is the column,
which is written from a stale read.

The module reproduces what the code does, some of which nobody can have meant:

* `createShipment` throws when it asks for a payment
  (`payments/payments.service.ts` line 88: no fare quote), after the shipment is
  REQUESTED and its codes are stored, so that no sender is told a code, no
  shipment is paid, and `src/docs/SHIPMENTS.md` section 17 describes something
  else.
* `startShipment` is always refused, because the trip's table wants a PIN.
* The two verifications look at no status, so that a parcel may be delivered that
  was never picked up; and a code may expire, or be tried too often by others,
  between the look at it and its use.
* `adminUpdateStatus` writes PICKUP_VERIFIED and DELIVERY_VERIFIED without a
  code, and `completeShipment` looks at the status only
  (`shipments/shipments.service.ts` lines 907 and 661).
* DELIVERED is terminal in `src/docs/SHIPMENTS.md:160` and in
  `shipments/shipment-state-machine.ts:25`, as is the rest of that table, but
  only the admin's patch asks the table: `adminAssignDriver` takes any shipment
  to DRIVER_ASSIGNED (`shipments/shipments.service.ts` lines 793-836, where
  `SHIPMENTS.md:132` speaks of a requested one), a booking on a quote that is
  still open takes any shipment to REQUESTED (lines 146-178), and
  `adminDisputeShipment` takes any to DISPUTED.
* `adminUpdateStatus` to EXPIRED leaves the trip as it is (lines 914-928), where
  `src/docs/SHIPMENTS.md:80` has the statuses "mapped directly"; the trip may be
  driven and completed without its shipment.
* A driver's acceptance does not write the shipment's driver; a shipment may be
  cancelled at DELIVERY_VERIFIED, against the comment at
  `shipments/shipment-state-machine.ts:82`; a sender may cancel a shipment whose
  trip is COMPLETED; an expired code that was not used is never replaced.

Photo uploads, support tickets and queries touch no state of the module.

### `Sessions`
A session and its pair of tokens are a number; `live` are the sessions not
revoked, `lapsed` those whose access token is older than fifteen minutes.
`rotation[c]` is the server's work on a refresh asked by call c: `CheckSession`,
`RevokeRotated` by id, `CreateSession`, answer. The app's side is `client.ts`: a
call reads the store and is sent (`Use`), and on a 401 gives up, waits in the
queue (`Enqueue`) or refreshes (`StartRefresh`, `PostRefresh`), after which the
tokens are saved and, in one turn of the event loop, everybody in the queue is
sent again (`Resume`); a failed refresh empties the queue first (`Abandon`) and
clears the tokens later (`ClearTokens`). A queued call has pc "queued", one that
was in the queue when it was emptied "lost". A resent call reads the store once
more (`Attached`), as the request interceptor does. `StartUp`, `Login` and
`Logout` are what `AuthContext` does around the calls; `AppRestarts` keeps the
store and nothing else. The three writes of `saveTokens`, and of `clearTokens`,
are handed to the store in one go and taken to be done in one go. A session's
thirty days are left out, being a revocation to all who ask; the comparison with
the stored hash cannot fail, since a session has one token.

## 4. Runs

| Run | Bounds | What it shows |
|---|---|---|
| `payments_concurrent` | one ride, two handlers at once, one exception, one crash | postings of a capture are complete and worth one driver share per payment, captures implement `Settlement`, the books split the gross without a remainder and agree with each other, and a processed charge of a completed trip is captured - whatever overlaps |
| `payments_live` | one ride, one handler, failing and successful charges, two exceptions | a payment pays out once, and once more at most for each exception; every successful charge of a completed ride is captured in the end |
| `outbox_overlap` | two events, two runs, a crash, a database error, a lease lapsing under its holder | nothing is PUBLISHED that was not delivered |
| `outbox_leased` | the same without the last, two crashes | one run per row; repetitions are accounted for; the outbox implements `EventDelivery`; every event settles |
| `trips_concurrent` | one ride, rider, driver and quote; two requests and two dispatches; one upset (admin's assignment, lapsing lock, exception, crash); one wrong PIN flags | no ride is started without its PIN verified and a driver; one dispatch works on it as long as its lock does not lapse |
| `trips_serial` | two rides, riders, drivers and quotes, one request at a time, no dispatch; two wrong PINs flag | a driver and a rider have one ride under way each |
| `payouts` | one payout of 5 while 7 are owed to others, two requests at once, two transfer codes, one exception, one crash | money leaves once, the payment of payouts implements `Settlement`, the books follow the payouts, a transfer under way settles |
| `refunds` | one payment of 7, one request and one handler of refund events at a time, two reconciliations at once, two refund rows, one fault | the books take a payment back once, completely, and in the end, whatever reversals overlap, and ask an admin about a share that was taken only if two did; reversals implement `Settlement` |
| `idempotency` | one key, two bodies, three requests, three runs, two faults | keys implement `KeyedAnswers`: what is replayed was answered to the same body, and work is not repeated, unless a run failed or outlived its lock; nor is a stored answer taken back |
| `shipments` | one shipment, two requests, one attempt per code, two upsets, one overlap | a parcel is under way or handed over only on its code or an admin's word; an overlap buys one more try at a code; without overlaps, a shipment is delivered, cancelled and disputed with its trip |
| `sessions` | three calls, tokens that lapse at any time, one upset (logout, restart, lost call, exception) | the app never signs itself out, holds the token of its one session, and settles every call unless a refresh fails |

Why the bounds are enough. Handlers interact through one payment only, so one
trip and two handlers reach every pairwise interleaving; what is summed over
trips is one trip's postings, and those of different trips share no reference. A
gross of 7 makes the split round (5 and 2). One exception and one crash put each
of them at every point of a handler; two exceptions, in the liveness run, make a
retry fail as well. Two outbox runs and
two events are the least with which a run can be overtaken on its first row and
go on to its second; `MaxAttempts = 2` reaches the dead letter; `Limit = 2`
lets a run's list go stale while it works on the first row. For a ride, two
requests and two dispatches meet pairwise: an answer to a dispatch, its timeout
and a cancellation, or a PIN and a new assignment. With one driver a dispatch
never goes on to a second candidate; a second driver beside an upset is beyond
TLC's time here (with `MaxUpsets = 0` it is not, and the properties hold), and
the proofs of section 6 cover any number of them. Two rides, riders and
drivers are the least for the exclusiveness of the serial run. One upset puts
each kind at every point. A payout is attempted again under its one reference,
so two codes reach a failed transfer and its successor, and two requests every
pair of review and retry; the driver's payout is less than what is owed in all
and more than the driver's wallet may hold. Two refunds of one payment are the
least with which it can be reversed twice; a request or a handler and two
reconciliations are three reversals at once, and the fault puts a death at every
point of each. With three requests under a key one runs, one waits and one takes
over; with three runs a repeated run can be repeated. A shipment with one attempt
per code reaches the locked code at once; two upsets let a request die after
another has. Of three calls one refreshes, one waits for it and one is still
under way with the old token; nothing else in a refresh depends on
how many wait. Handlers, drivers, requests, dispatches and runs
are interchangeable, hence the symmetry sets where no liveness is checked.
Deadlock checking is off because the systems may stop: a trip that nobody
requests, events that are all settled, calls that have all been made.

### Violations

One run checks a statement the repository makes and finds the code doing
otherwise; `findings` in `PROJECT.json` quotes the statement.

* `payments_double_payout`: a redelivery of `charge.success` that began before
  the first execution ended writes the status computed from its old read:
  CAPTURED becomes AUTHORIZED, and the payment is captured and paid out again.
  The ledger references stop the earnings from repeating, not the `Payout`.

Seen while modelling, and not given a run: cash clearing is credited with the
gross amount at creation, at authorisation and at capture
(`payments/payments.service.ts` lines 117, 184, 233), three times what was
received, which `Payments` reproduces; `src/docs/PAYMENTS.md:265` calls it the
account of received funds. Overlapping requests on one ride do what `Trips`
shows and no property claims otherwise: a dispatch whose driver does not answer
assigns the next one, or expires the ride, although the rider has cancelled it
(`trips/trips.service.ts` lines 221 and 276); a PIN verified while the ride is
being cancelled revives it (line 165); two wrong PINs at once count as one (line
128); two drivers who accept at once are both ON_TRIP (line 595); two bookings at
once may both succeed on one quote (line 442). A driver who accepts a dispatch
stays AVAILABLE, and one who finishes a ride stays ON_TRIP until going online
again.

Payments: a retry that crashes leaves its event PENDING, and the scheduler looks
for FAILED ones only; a failed attempt and then a successful one under the same
reference leaves a paid payment FAILED. Outbox: a run whose lease lapsed while it
worked overwrites PUBLISHED with FAILED, by id. Payouts: a rejected payout can
still be sent by `initiatePayoutTransfer`, which refuses PAID and FAILED ones
only, where `src/docs/SECURITY_AUDIT_PREP.md:70` has it held; `markMockPayoutPaid`
and the claim after a transfer report success when they updated nothing;
`addPayoutAccount` keeps the old recipient code; an event that comes before the
transfer's code is stored finds nothing and is lost; overlapping retries can take
PAID back to FAILED. Refunds: a late `refund.pending` takes PROCESSED back to
PROCESSING; two requests at once make two rows and, with mocked refunds, two
reversals; a reversal that begins before another has committed may take the
driver's share and ask an admin for it as well, or be rolled back; one that has
read a payout before it was sent takes the share of it, and may write CANCELLED
over PROCESSING; an answer that is lost leaves the row PROCESSING, which blocks every
further request; an event that comes before the reference is stored is lost.
Shipments: section 3. Sessions: the calls in the queue of a refresh that fails
are never settled, and neither are those that join it while the tokens are being
cleared, until some later refresh; a refresh that was under way when the person
logged out stores its tokens afterwards; a call that has been sent again is not
refreshed a second time, so that it fails when another call's refresh has
replaced the session meanwhile; a restart between the server's rotation and the
app's `saveTokens` leaves it with the token of a revoked session.

## 5. Fairness

`Payments!Fairness`. A request that has not crashed runs to its end and so does
a handler: weak fairness of their next steps (Node never starves a promise that
is ready). Paystack redelivers until it gets a 200, and the scheduler returns
every few minutes for FAILED events: strong fairness of `Redeliver` and
`SchedulerRetry`, strong because the pool of handlers in the model is finite and
may be busy from time to time, where the service has no such pool. Nothing makes
a rider pay, a driver complete or an admin act. The scheduler takes ten events a
run, oldest first; the fairness of `SchedulerRetry` is justified as long as
fewer than ten events keep failing for ever, and with more it is not.

`Outbox!Fairness`. The timer starts runs, a run that is not cut goes on, time
passes: weak fairness of each run's step and of the two passages of time.
Nothing makes publishing succeed. `EventsAreSettled` is checked with no lease
lapsing under its holder and a bounded number of crashes.

`Payouts!Fairness`. A request that has not died runs to its end, and Paystack
settles a transfer it has accepted and tells of it: weak fairness of
`RequestProgress` and `ProviderStep`. Nobody needs to retry or review.

`Refunds!FairSpec`. The reconciliation comes every fifteen minutes and does not
stop half way, unless it fails: weak fairness of `Reconciliation(c)` for each
reconciliation `c`. Nothing makes Paystack's events come, or handlers end.

`Sessions!Fairness`. What is ready in the app runs, and the server answers: weak
fairness of each call's step on either side. A refresh is sent without a timeout
(`axios`, not `api`), so that "answers" includes a connection that breaks, which
is a failure and never assumed.

`Trips`, `Shipments` and `Idempotency` are checked for safety only. A dispatch
that waits for its drivers ends by a timer, which is worth a liveness property
once locations and several candidates are in the model; nothing makes a driver
deliver, or a client call again.

## 6. Proofs

Every theorem holds for all values of the constants that meet the assumptions
of the modules: the bounds of the runs are natural numbers, amounts are natural
numbers, absent values are no members of the sets they are absent from, and the
rows of a table (`Trips` of `Payments`, `Drivers` of `Ledger`, `PayoutIds`,
`PaymentIds`) are finitely many, which is what lets balances be compared with
sums over them. Where a theorem supposes more, as the absence of overlaps, it
says so in its hypotheses, and the run that checks the same property has the same
bounds.

`MoneyProofs`: `SplitIsExact` (the two shares are natural numbers and add up to
the gross), `RefundResidue` (a full refund reverses the booked commission up to
one minor unit), `RoundTrip` (minor units survive being written as a decimal).
Its lemmas carry the books of the three modules that post: `PostFacts` and
`PostMoves` say what `Ledger!Post` does to the references and the balances, and
`SumIsInt`, `SumOfNone`, `SumExtends`, `SumChanges`, `SumGrows` what
`SumFunctionOnSet` is on the subsets of a finite set. The fold that defines that
sum is reduced to a function that is additive (`Additive`, `SumIsAdditive`),
whose existence is proved on a smallest subset for which it would fail.

`PaymentsProofs`: `TypeInvariant`, `CapturesArePosted`, `CapturesAreEarned`,
`WalletsAreWorthTheirTrips`, `TheBooksAgree`, `CapturesAreNotLost`, for any trips,
amounts, drivers, handlers, exceptions and crashes, `CapturesKeepPromise`, and
`OnePayout` for one handler at a time, under `PaymentsAssumption` and `DriversAssumption`. The safety
properties are not inductive. That a Paystack payment is captured only after its
charge rests on `confirmed` being set only by a handler of a `charge.success`,
hence on every handler working for an event Paystack has announced
(`WorkIsAnnounced`), and that only completed trips are captured on what a
handler has seen by the time it captures (`HandlersKnow`). `IInv` is their
conjunction; `Invariance` has one lemma per action, and what an action leaves
alone is carried by `QuietStep` and `KnowledgeKept`. The books (`Books`) follow
from what one capture does to the balances (`CaptureMoves`), a first one and a
repeated one. `CapturesAreNotLost` is about an event that has been processed and
a trip that completes, in either order: `ChargesAreSettled` says that a payment a
handler is done with has been captured, has failed at Paystack, or stands
confirmed before a completion that will capture it, and that no step takes a
posting or a confirmation back (`StepOfTrip`). `OnePayout` counts: `PayoutBudget`
bounds the payouts made and those that a capturable payment or a handler yet to
confirm it may still make, by one, and by one more for every exception and
crash. It does not hold for handlers that overlap, which is the finding of
`payments_double_payout`.

The three refinements of `Settlement` (`CapturesKeepPromise`,
`PayoutsKeepPromise` and `RefundsKeepPromise`, each at the end of its module)
share an argument. A step of the model settles at most one item or books at
most one, and never undoes either (`PromiseFacts` of the first two modules,
`PaystackMoves` and `ReversalEnters` of the third); everything else is a
stutter, a repeated posting included. An item that is booked had been settled,
by the invariant. And the total moves by what the item is worth: for captures
and payouts because the balance is a sum over what is booked, before and after
the step (`Reckoned`), for refunds because a reversal posts the payment's amount
(`ReversedCash`) and, Paystack giving a payment back once, no other refund of it
had been reversed. The promise is stronger than the invariants it rests on, which an
item that is taken out of the books again would meet.

`OutboxProofs`: `TypeInvariant` and `PublishedWereDelivered` without any
assumption on leases; `ClaimsAreExclusive`, `RepeatsAreCaused` and
`OutboxKeepsPromise` under `MaxOvertakes = 0`. The induction is on what the lease
means: a run at work holds its row PROCESSING, not due, with the attempt count
of its own claim (`WorkIsLeased`), and a row listed as PROCESSING that has not
changed since has no run at work (`ListsAreOld`) - so the conditional claim can
only take over abandoned rows. `DeliveryBudget` counts the deliveries of an event
with the one that may be under way against the failures and crashes so far. The
refinement maps each step to a step of `EventDelivery` or a stutter.

`TripsProofs`, first part: `TypeInvariant`, `StartsAreEarned` and
`DispatchesAreExclusive`, under `TripsAssumption`; `DriversHaveOneTrip`, for one
request at a time, no dispatcher and as long as no admin has assigned a driver,
for any number of rides, riders, drivers and crashes. `StartIsEarned` is not inductive, because a status is written long after
it was admitted: `StartInv` adds that a request about to write a started status
works for a trip that is verified and driven (`WritesAreEarned`), that a PIN only
comes with a driver (`PinsHaveDrivers`), who is replaced but never removed, and
that only drivers accept (`Accepting`). `StartKept` carries it over every step
that starts nothing. `OneDispatch` follows from `HoldersHold`: while no lock has
lapsed under its holder, a dispatch at work on a trip is the one whose token is
in its key, so deleting the key without looking again is harmless, and so are
crashes. That a driver has one ride rests on `SerialInv`: what the request under way
has read still stands when it writes (`ReadsStand`), and a ride whose status
comes before acceptance has no driver whom a second one would displace.

`TripsProofs`, second part, extends `Shipments` as well:
`ShipmentsTypeInvariant`, `ShipmentsEndTogether` and
`ShipmentsAreHandedOverByCode`, which are `ShipTypeOK`, `EndedTogether` and
`HandedOverByCode` of the run `shipments`, under `ShipmentsAssumption`, for any
number of requests, attempts, upsets and overlaps. A request is a sequence of
steps, so the induction needs to know which sequences there are: `PlansOK` lists
what a plan may be, whole or what is left of it, and `PlanFacts` is all the other
lemmas ask of one. That shipment and trip end together, although they are written
one by one, needs what a request has seen to stand until it writes (`Stands`, in
`ShipSerialInv`): no one but a booking on an open quote works on a delivered
shipment; only what writes both rows, or resolves, works on a cancelled or
disputed one; and DELIVERED is written only behind a completed trip. A trip's own
endpoints cannot move it then because the trip has ended too (`TripGoesOn`).
That a parcel is handed over by its code rests on two things that overlaps cannot
undo: a mark is set only behind the step that uses up the code
(`MarksAreEarned`), and what vouches for a status is never taken back, so that a
request that found a status vouched for, or a proof, may still write what follows
from it, however late (`Backed`, in `BackedInv`); the admin's table is walked in
`AllowedIsVouched`.

`IdempotencyProofs`: `TypeInvariant`, `ReplaysAreGenuine`, `HandlersRunOnce`,
`AnswersStand` and `KeysKeepPromise`, under `IdempotencyAssumption`. `IInv` adds to the properties what
makes them inductive: a row reserved and not excused has one request at work on
it (`Reserved`), what is stored was answered (`StoredWasAnswered`), and what a
request is about to store is its own run's answer (`CompletionsAreAnswered`).
The refinement maps a success to `Work`, a replay to `Repeat`, a conflict, a
failure and a death to `TurnAway`, `MarkFailed` and `LockLapses` to `Waive`, and the
rest to a stutter. `RunsOnce` gives the guard of `Work`, `StoredWasAnswered` that
of `Repeat`; that no two answers have the same number needs that runs are
numbered without gaps (`RunsAreNumbered`).

`PayoutsProofs`: `TypeInvariant`, `MoneyLeavesAtMostOnce`,
`PaidPayoutsWereTransferred`, `TheBooksFollowPayouts` and `PayoutsKeepPromise`, under
`PayoutsAssumption`, `DriversAssumption` and the assumption about Paystack of
section 3, which is part of the model. The effect of a step is split into what it
does to requests, to rows and to transfers (`MovesOfStart`, `MovesOfStep`,
`RowsMove`, `TransferMoves`), and the invariant is carried over those moves
rather than over each action. That a payout posted as paid was transferred needs
that a mocked row stays mocked and that only its request can make it so
(`MocksAreMocked`). That a wallet is what its driver's payouts say needs that the
two references of an earning are posted together, and those of a payment
(`PostedTogether`), since the code looks up each by itself; `Follows` states it
of any book, so that a step that posts twice is taken one posting at a time.

`RefundsProofs`: `TypeInvariant`, `ReversalsFollowPaystack`,
`TheBooksFollowReversals`, `PaystackRefundsReverseOnce`, `RefundsKeepPromise` and,
for requests that do not overlap, `RefundsReverseOnce`, under `RefundsAssumption`
and `DriversAssumption`, for any number of requests, handlers and reconciliations
whose reversals overlap, fail and die. A refund is PROCESSED only after Paystack's
word, which it gives for one refund of a payment at a time (`ProcessedByPaystack`,
`OneAtPaystack`: the external assumption), and a reversal under way stays due
whatever status comes next (`ReversalsAreDue`); hence the first of the two on
reversing once needs no more. Where refunds are mocked nothing stops two
overlapping requests, and the second theorem needs `OneRowPerMock`: what a request
has read of the payment's refunds stands until it creates one. The books are the
sum of what was reversed because only a reversal posts under the name of its
refund, all four names or the first two of them with the row it marks
(`ReversalsPost`). A commit either finds both postings of the payment, which are
then those of a reversed refund (`LookUpsStand`), and changes nothing of them, or
found none and would be rolled back if there were any by now. That a share is
taken and asked for only on refunds with overlapping reversals is
`AloneUnlessOverlapped`: as long as a refund was never worked on by two, the one
at work is alone and the refund is not reversed yet.

`SessionsProofs`: `TypeInvariant`, `NeverSignedOut` and `StoredTokensLive`, for
any number of calls and of refreshes, under `SessionsAssumption`. Neither
property is inductive. `OneRefresh` adds that one call refreshes at a time and
holds `refreshing`, and that the server's work on a refresh exists only while
that call waits for it and, until it has revoked the old session, has the stored
token in hand; `RotationIsTrue` adds which session is live at each point of that
work. While nothing has failed and nobody has logged out, most actions cannot
happen at all (`NotWhenCalm`), and each other one keeps the two (`Calm`).

Only model-checked: liveness (`EventsAreSettled`, `ChargeIsCaptured`,
`TransfersSettle`, `ProcessedIsReversed`, `CallsSettle`), which is out of the
prover's reach: it needs ENABLED of the fair actions. `AttemptsAreLimited` is
checked for two requests, whose one overlap is enough to lose a count (with three
requests and two overlaps it holds too, and no smaller bound does), and
`OneTripPerRider` for bookings one after the other.

## 7. Not modelled

What a next step would take: the scheduler's choice of the ten oldest events
(ten that keep failing keep all others from being retried) and its daily close;
the rows of one-time codes at log-in (`requestOtp` and the count of attempts);
support tickets and SOS events, whose transitions are checked outside their
writes; a ride's location updates; vehicles and drivers' documents under review;
disputes, each one update of one row that nothing else reads.

Left out for good: pricing (floating-point arithmetic over a table of zones);
signature verification and HTTP; Flutterwave, which nothing else calls; the
ledger methods without callers; profile rows edited one at a time; the websocket
gateway and SMS, which keep no state; start-up, configuration and the seeds,
except for the states they leave behind; the screens of the two apps, which
appear as requests that may come at any time and make up, with the seeds, more
than half of the repository.
