------------------------------ MODULE Payments ------------------------------
(***************************************************************************)
(* The life of a trip's payment: created for the trip, authorised when a   *)
(* driver accepts, confirmed by Paystack's webhooks, captured when the     *)
(* trip completes.  Capturing posts the ledger and creates the driver's    *)
(* payout.                                                                 *)
(*                                                                         *)
(* The database is read-committed PostgreSQL.  A $transaction whose writes *)
(* hang on a conditional updateMany is one step; everything that awaits    *)
(* between a read and an unconditional write is several, and any number of *)
(* other requests may run in between.                                      *)
(*                                                                         *)
(* Trip t has at most one payment (Payment.tripId is unique), so payments  *)
(* are identified with their trips.                                        *)
(***************************************************************************)
EXTENDS Ledger, Money, FiniteSetsExt

CONSTANTS
  Trips,          \* the trips, hence the payments
  Gross,          \* Gross[t]: the fare quote's total in minor units
  DriverOf,       \* DriverOf[t]: the trip's driver profile
  NoJob,
  Outcomes,       \* the charge events Paystack may announce
  Handlers,       \* concurrent executions of provider-event handlers
  MaxFaults,      \* bound: exceptions thrown inside handlers
  MaxCrashes      \* bound: process crashes

VARIABLES
  payment,    \* payment[t]: status, provider, confirmed (externalId is set)
  tripPc,     \* tripPc[t]: how far the requests that drive the trip have got
  book,       \* the ledger
  payouts,    \* payouts[t]: how many Payout rows capture created for t
  charges,    \* charges[t]: the events Paystack has emitted for t's reference
  event,      \* event[t][k]: the ProviderEvent row of event k for t
  acked,      \* acked[t][k]: Paystack got its 200 and need not redeliver
  hpc,        \* hpc[h]: where handler h is
  job,        \* job[h]: the event h works on and what h has read
  faults, crashes

payVars == <<payment, book, payouts>>
handlerVars == <<hpc, job>>
vars == <<payment, tripPc, book, payouts, charges, event, acked, hpc, job,
          faults, crashes>>

PaymentStatus ==
  {"NONE", "PENDING", "AUTHORIZED", "CAPTURED", "FAILED"}
Providers == {"mock-paystack", "paystack"}
ChargeEvents == {"charge.success", "charge.failed"}
EventStatus == {"NONE", "PENDING", "PROCESSED", "FAILED", "DEAD_LETTER"}
TripPcs == {"requested", "authorizing", "ongoing", "capturing",
            "completed", "interrupted"}
HandlerPcs == {"idle", "begin", "read", "write", "trip", "capture",
               "done", "failing", "deadletter"}
Jobs == [trip : Trips, kind : ChargeEvents, source : {"webhook", "retry"},
         seen : PaymentStatus]

ASSUME PaymentsAssumption ==
  /\ IsFiniteSet(Trips)
  /\ Gross \in [Trips -> Nat]
  /\ DriverOf \in [Trips -> Drivers]
  /\ NoJob \notin Jobs
  /\ Outcomes \subseteq ChargeEvents
  /\ MaxFaults \in Nat
  /\ MaxCrashes \in Nat

(* The trip has reached COMPLETED.  "interrupted" is a completed trip that *)
(* no request is going to capture any more.                                *)
TripCompleted(t) ==
  tripPc[t] \in {"capturing", "completed", "interrupted"}

Ref(t, name) == <<t, name, 0>>
PayoutRef(t, n) == <<t, "payout-pending", n>>

TypeOK ==
  /\ payment \in [Trips -> [status : PaymentStatus, provider : Providers,
                            confirmed : BOOLEAN]]
  /\ tripPc \in [Trips -> TripPcs]
  /\ book.balance \in [Holders -> Int]
  /\ payouts \in [Trips -> Nat]
  /\ charges \in [Trips -> SUBSET ChargeEvents]
  /\ event \in [Trips -> [ChargeEvents ->
                   [status : EventStatus, processed : BOOLEAN]]]
  /\ acked \in [Trips -> [ChargeEvents -> BOOLEAN]]
  /\ hpc \in [Handlers -> HandlerPcs]
  /\ job \in [Handlers -> Jobs \cup {NoJob}]
  /\ \A h \in Handlers : hpc[h] = "idle" <=> job[h] = NoJob
  /\ faults \in 0..MaxFaults
  /\ crashes \in 0..MaxCrashes

Init ==
  /\ payment = [t \in Trips |-> [status |-> "NONE",
                                 provider |-> "mock-paystack",
                                 confirmed |-> FALSE]]
  /\ tripPc = [t \in Trips |-> "requested"]
  /\ book = EmptyBook
  /\ payouts = [t \in Trips |-> 0]
  /\ charges = [t \in Trips |-> {}]
  /\ event = [t \in Trips |-> [k \in ChargeEvents |->
                                 [status |-> "NONE", processed |-> FALSE]]]
  /\ acked = [t \in Trips |-> [k \in ChargeEvents |-> FALSE]]
  /\ hpc = [h \in Handlers |-> "idle"]
  /\ job = [h \in Handlers |-> NoJob]
  /\ faults = 0
  /\ crashes = 0
-----------------------------------------------------------------------------
(* Requests of the rider and the driver.                                   *)

(* initiateMockPayment and initiatePaystackPayment: a trip that already    *)
(* has a payment answers with it.  The trip's status is not looked at.     *)
InitiatePayment(t, provider) ==
  /\ payment[t].status = "NONE"
  /\ payment' = [payment EXCEPT ![t].status = "PENDING",
                                ![t].provider = provider]
  /\ book' = Post(book, Ref(t, "pending"), "cash_clearing", Gross[t])
  /\ UNCHANGED <<tripPc, payouts, charges, event, acked, hpc, job, faults,
                 crashes>>

(* driverAcceptTrip commits the assignment before it authorises.           *)
DriverAccept(t) ==
  /\ tripPc[t] = "requested"
  /\ tripPc' = [tripPc EXCEPT ![t] = "authorizing"]
  /\ UNCHANGED <<payVars, charges, event, acked, handlerVars, faults, crashes>>

(* acceptDispatch and adminAssignDriver, the other ways to get a driver,   *)
(* never authorise.                                                        *)
AcceptDispatch(t) ==
  /\ tripPc[t] = "requested"
  /\ tripPc' = [tripPc EXCEPT ![t] = "ongoing"]
  /\ UNCHANGED <<payVars, charges, event, acked, handlerVars, faults, crashes>>

(* authorizePaymentForTrip: PENDING becomes AUTHORIZED, whatever the       *)
(* provider says, and cash clearing is credited again.                     *)
Authorize(t) ==
  /\ tripPc[t] = "authorizing"
  /\ tripPc' = [tripPc EXCEPT ![t] = "ongoing"]
  /\ \/ /\ payment[t].status = "PENDING"
        /\ payment' = [payment EXCEPT ![t].status = "AUTHORIZED"]
        /\ book' = Post(book, Ref(t, "authorized"), "cash_clearing", Gross[t])
     \/ /\ payment[t].status # "PENDING"
        /\ UNCHANGED <<payment, book>>
  /\ UNCHANGED <<payouts, charges, event, acked, handlerVars, faults, crashes>>
-----------------------------------------------------------------------------
(* capturePaymentForTrip.                                                  *)

(* Bug: the gate on the externalId is dropped.                             *)
CapturableUngated(t) ==
  payment[t].status \in {"PENDING", "AUTHORIZED"}

(* Bug: the status is not looked at.                                       *)
CapturableAgain(t) ==
  payment[t].provider = "paystack" => payment[t].confirmed

(* A Paystack payment is captured only once its externalId is known.       *)
Capturable(t) ==
  /\ payment[t].status \in {"PENDING", "AUTHORIZED"}
  /\ payment[t].provider = "paystack" => payment[t].confirmed

CaptureGross(b, t) ==
  Post(Post(b, Ref(t, "captured"), "cash_clearing", Gross[t]),
       Ref(t, "commission"), "commission_revenue", CommissionShare(Gross[t]))

(* Bug: driver payable is forgotten.                                       *)
CaptureEarningWalletOnly(b, t) ==
  Post(b, Ref(t, "driver-earning"), DriverOf[t], DriverShare(Gross[t]))

CaptureEarning(b, t) ==
  Post(Post(b, Ref(t, "driver-earning"), DriverOf[t], DriverShare(Gross[t])),
       Ref(t, "driver-payable"), "driver_payable", DriverShare(Gross[t]))

CapturePayout(b, t) ==
  Post(b, PayoutRef(t, payouts[t] + 1), "payout_clearing",
       DriverShare(Gross[t]))

(* One database transaction: the conditional update to CAPTURED decides,   *)
(* then the postings, each skipped when its reference exists, and a new    *)
(* Payout row, which has no reference of its own to be skipped by.         *)
(* (Without a driver the earning and the payout are left out; only an      *)
(* admin who ends a shipment captures so, and the trip of a shipment has   *)
(* no fare quote and hence no payment.)                                    *)
Capture(t) ==
  \/ /\ Capturable(t)
     /\ payment' = [payment EXCEPT ![t].status = "CAPTURED"]
     /\ book' = CapturePayout(CaptureEarning(CaptureGross(book, t), t), t)
     /\ payouts' = [payouts EXCEPT ![t] = @ + 1]
  \/ /\ ~Capturable(t)
     /\ UNCHANGED payVars

(* TripsService.transition to COMPLETED: commits first.                    *)
CompleteTrip(t) ==
  /\ tripPc[t] = "ongoing"
  /\ tripPc' = [tripPc EXCEPT ![t] = "capturing"]
  /\ UNCHANGED <<payVars, charges, event, acked, handlerVars, faults, crashes>>

(* ... and captures after the commit.                                      *)
CaptureOnComplete(t) ==
  /\ tripPc[t] = "capturing"
  /\ Capture(t)
  /\ tripPc' = [tripPc EXCEPT ![t] = "completed"]
  /\ UNCHANGED <<charges, event, acked, handlerVars, faults, crashes>>

(* The process dies between a commit and the call that follows it; nothing *)
(* makes the call again.                                                   *)
RequestCrash(t) ==
  /\ crashes < MaxCrashes
  /\ crashes' = crashes + 1
  /\ \/ /\ tripPc[t] = "authorizing"
        /\ tripPc' = [tripPc EXCEPT ![t] = "ongoing"]
     \/ /\ tripPc[t] = "capturing"
        /\ tripPc' = [tripPc EXCEPT ![t] = "interrupted"]
  /\ UNCHANGED <<payVars, charges, event, acked, handlerVars, faults>>
-----------------------------------------------------------------------------
(* Paystack (external): the rider may fail to pay and pay later with the   *)
(* same reference; every outcome is announced by an event.                 *)

ChargeAttempt(t, k) ==
  /\ payment[t].status # "NONE"
  /\ payment[t].provider = "paystack"
  /\ "charge.success" \notin charges[t]
  /\ k \notin charges[t]
  /\ charges' = [charges EXCEPT ![t] = @ \cup {k}]
  /\ UNCHANGED <<payVars, tripPc, event, acked, handlerVars, faults, crashes>>
-----------------------------------------------------------------------------
(* PaystackService.handleWebhookEvent and processProviderEvent.            *)

Start(h, t, k, source, pc) ==
  /\ hpc[h] = "idle"
  /\ hpc' = [hpc EXCEPT ![h] = pc]
  /\ job' = [job EXCEPT ![h] = [trip |-> t, kind |-> k, source |-> source,
                                seen |-> "NONE"]]

Goto(h, pc) == hpc' = [hpc EXCEPT ![h] = pc]

Finish(h) ==
  /\ Goto(h, "idle")
  /\ job' = [job EXCEPT ![h] = NoJob]

(* A delivery of event k: the row is upserted; a dead-lettered or          *)
(* processed event is acknowledged and otherwise ignored.                  *)
ReceiveWebhook(h, t, k) ==
  /\ k \in charges[t]
  /\ hpc[h] = "idle"
  /\ event' = [event EXCEPT ![t][k].status = IF @ = "NONE" THEN "PENDING"
                                             ELSE @]
  /\ \/ /\ event[t][k].status = "DEAD_LETTER" \/ event[t][k].processed
        /\ acked' = [acked EXCEPT ![t][k] = TRUE]
        /\ UNCHANGED handlerVars
     \/ /\ event[t][k].status # "DEAD_LETTER" /\ ~event[t][k].processed
        /\ Start(h, t, k, "webhook", "begin")
        /\ UNCHANGED acked
  /\ UNCHANGED <<payVars, tripPc, charges, faults, crashes>>

(* retryProviderEvent, from the scheduler or from the finance admin.       *)
CanRetry(t, k) ==
  /\ event[t][k].status \notin {"NONE", "PROCESSED"}
  /\ ~event[t][k].processed

SchedulerRetry(h, t, k) ==
  /\ event[t][k].status = "FAILED"
  /\ CanRetry(t, k)
  /\ Start(h, t, k, "retry", "begin")
  /\ UNCHANGED <<payVars, tripPc, charges, event, acked, faults, crashes>>

AdminRetry(h, t, k) ==
  /\ CanRetry(t, k)
  /\ Start(h, t, k, "retry", "begin")
  /\ UNCHANGED <<payVars, tripPc, charges, event, acked, faults, crashes>>

(* deadLetterProviderEvent reads, checks, and then updates by id.          *)
AdminDeadLetter(h, t, k) ==
  /\ event[t][k].status # "NONE"
  /\ CanRetry(t, k)
  /\ Start(h, t, k, "retry", "deadletter")
  /\ UNCHANGED <<payVars, tripPc, charges, event, acked, faults, crashes>>

WriteDeadLetter(h) ==
  /\ hpc[h] = "deadletter"
  /\ event' = [event EXCEPT ![job[h].trip][job[h].kind].status = "DEAD_LETTER"]
  /\ Finish(h)
  /\ UNCHANGED <<payVars, tripPc, charges, acked, faults, crashes>>

(* processProviderEvent claims nothing: whatever the row's status is, it   *)
(* becomes PENDING.                                                        *)
Begin(h) ==
  /\ hpc[h] = "begin"
  /\ event' = [event EXCEPT ![job[h].trip][job[h].kind].status = "PENDING"]
  /\ Goto(h, "read")
  /\ UNCHANGED <<payVars, tripPc, charges, acked, job, faults, crashes>>

(* handleChargeSuccess (after verifyTransaction) and handleChargeFailed    *)
(* read the payment; a payment that is past AUTHORIZED needs nothing.      *)
ReadPayment(h) ==
  /\ hpc[h] = "read"
  /\ LET status == payment[job[h].trip].status
     IN  /\ job' = [job EXCEPT ![h].seen = status]
         /\ Goto(h, IF status \in {"CAPTURED", "FAILED"} THEN "done"
                    ELSE "write")
  /\ UNCHANGED <<payVars, tripPc, charges, event, acked, faults, crashes>>

(* Bug: only the handler that authorises goes on to look at the trip.      *)
WriteConfirmationOnce(h) ==
  /\ hpc[h] = "write"
  /\ job[h].kind = "charge.success"
  /\ payment' = [payment EXCEPT
        ![job[h].trip].confirmed = TRUE,
        ![job[h].trip].status = IF job[h].seen = "PENDING" THEN "AUTHORIZED"
                                ELSE job[h].seen]
  /\ Goto(h, IF job[h].seen = "PENDING" THEN "trip" ELSE "done")
  /\ UNCHANGED <<tripPc, book, payouts, charges, event, acked, job, faults,
                 crashes>>

(* handleChargeSuccess writes the externalId and a status computed from    *)
(* what it read.                                                           *)
WriteConfirmation(h) ==
  /\ hpc[h] = "write"
  /\ job[h].kind = "charge.success"
  /\ payment' = [payment EXCEPT
        ![job[h].trip].confirmed = TRUE,
        ![job[h].trip].status = IF job[h].seen = "PENDING" THEN "AUTHORIZED"
                                ELSE job[h].seen]
  /\ Goto(h, "trip")
  /\ UNCHANGED <<tripPc, book, payouts, charges, event, acked, job, faults,
                 crashes>>

(* ... then reads the trip, and captures when it is COMPLETED.             *)
ReadTrip(h) ==
  /\ hpc[h] = "trip"
  /\ Goto(h, IF TripCompleted(job[h].trip) THEN "capture" ELSE "done")
  /\ UNCHANGED <<payVars, tripPc, charges, event, acked, job, faults, crashes>>

CaptureOnCharge(h) ==
  /\ hpc[h] = "capture"
  /\ Capture(job[h].trip)
  /\ Goto(h, "done")
  /\ UNCHANGED <<tripPc, charges, event, acked, job, faults, crashes>>

(* Bug: the provider's own word is stored as the status.                   *)
WriteFailureDeclined(h) ==
  /\ hpc[h] = "write"
  /\ job[h].kind = "charge.failed"
  /\ payment' = [payment EXCEPT ![job[h].trip].status = "DECLINED"]
  /\ Goto(h, "done")
  /\ UNCHANGED <<tripPc, book, payouts, charges, event, acked, job, faults,
                 crashes>>

(* handleChargeFailed writes FAILED over whatever the status is by now.    *)
WriteFailure(h) ==
  /\ hpc[h] = "write"
  /\ job[h].kind = "charge.failed"
  /\ payment' = [payment EXCEPT ![job[h].trip].status = "FAILED"]
  /\ Goto(h, "done")
  /\ UNCHANGED <<tripPc, book, payouts, charges, event, acked, job, faults,
                 crashes>>

(* A webhook that ends, well or badly, is answered 200.                    *)
Acknowledge(h) ==
  \/ /\ job[h].source = "webhook"
     /\ acked' = [acked EXCEPT ![job[h].trip][job[h].kind] = TRUE]
  \/ /\ job[h].source = "retry"
     /\ UNCHANGED acked

MarkProcessed(h) ==
  /\ hpc[h] = "done"
  /\ event' = [event EXCEPT ![job[h].trip][job[h].kind] =
                 [status |-> "PROCESSED", processed |-> TRUE]]
  /\ Acknowledge(h)
  /\ Finish(h)
  /\ UNCHANGED <<payVars, tripPc, charges, faults, crashes>>

(* verifyTransaction or a database call throws, or verification does not   *)
(* confirm: processProviderEvent catches.                                  *)
HandlerThrows(h) ==
  /\ faults < MaxFaults
  /\ hpc[h] \in {"read", "write", "trip", "capture", "done"}
  /\ faults' = faults + 1
  /\ Goto(h, "failing")
  /\ UNCHANGED <<payVars, tripPc, charges, event, acked, job, crashes>>

(* Bug: the failure is logged and the event row left as it is.             *)
MarkFailedForgotten(h) ==
  /\ hpc[h] = "failing"
  /\ Acknowledge(h)
  /\ Finish(h)
  /\ UNCHANGED <<payVars, tripPc, charges, event, faults, crashes>>

MarkFailed(h) ==
  /\ hpc[h] = "failing"
  /\ event' = [event EXCEPT ![job[h].trip][job[h].kind].status = "FAILED"]
  /\ Acknowledge(h)
  /\ Finish(h)
  /\ UNCHANGED <<payVars, tripPc, charges, faults, crashes>>

(* The process running h dies, or its last write to the event row throws.  *)
HandlerCrash(h) ==
  /\ crashes < MaxCrashes
  /\ hpc[h] # "idle"
  /\ crashes' = crashes + 1
  /\ Finish(h)
  /\ UNCHANGED <<payVars, tripPc, charges, event, acked, faults>>
-----------------------------------------------------------------------------
TripStep(t) ==
  \/ \E p \in Providers : InitiatePayment(t, p)
  \/ DriverAccept(t)
  \/ AcceptDispatch(t)
  \/ Authorize(t)
  \/ CompleteTrip(t)
  \/ CaptureOnComplete(t)
  \/ RequestCrash(t)
  \/ \E k \in Outcomes : ChargeAttempt(t, k)

StartStep(h, t, k) ==
  \/ ReceiveWebhook(h, t, k)
  \/ SchedulerRetry(h, t, k)
  \/ AdminRetry(h, t, k)
  \/ AdminDeadLetter(h, t, k)

HandlerStep(h) ==
  \/ WriteDeadLetter(h)
  \/ Begin(h)
  \/ ReadPayment(h)
  \/ WriteConfirmation(h)
  \/ ReadTrip(h)
  \/ CaptureOnCharge(h)
  \/ WriteFailure(h)
  \/ MarkProcessed(h)
  \/ HandlerThrows(h)
  \/ MarkFailed(h)
  \/ HandlerCrash(h)

Next ==
  \/ \E t \in Trips : TripStep(t)
  \/ \E h \in Handlers, t \in Trips, k \in ChargeEvents : StartStep(h, t, k)
  \/ \E h \in Handlers : HandlerStep(h)

Spec == Init /\ [][Next]_vars
-----------------------------------------------------------------------------
(* What the scheduling of the service guarantees: a request that has not   *)
(* crashed runs to its end; Paystack redelivers until it gets a 200; the   *)
(* finance scheduler keeps coming back for FAILED events.  Strong fairness *)
(* of the last two: a finite set of handlers may be busy from time to      *)
(* time, which is the model's limit and not the service's.                 *)
RequestProgress(t) ==
  Authorize(t) \/ CaptureOnComplete(t)

HandlerProgress(h) ==
  \/ WriteDeadLetter(h)
  \/ Begin(h)
  \/ ReadPayment(h)
  \/ WriteConfirmation(h)
  \/ ReadTrip(h)
  \/ CaptureOnCharge(h)
  \/ WriteFailure(h)
  \/ MarkProcessed(h)
  \/ MarkFailed(h)

Redeliver(t, k) ==
  ~acked[t][k] /\ \E h \in Handlers : ReceiveWebhook(h, t, k)

Fairness ==
  /\ \A t \in Trips : WF_vars(RequestProgress(t))
  /\ \A h \in Handlers : WF_vars(HandlerProgress(h))
  /\ \A t \in Trips, k \in ChargeEvents :
       /\ SF_vars(Redeliver(t, k))
       /\ SF_vars(\E h \in Handlers : SchedulerRetry(h, t, k))

FairSpec == Spec /\ Fairness
-----------------------------------------------------------------------------
Posted(t, name) == Ref(t, name) \in book.refs

(* Safety, for any number of concurrent handlers, faults and crashes.      *)

(* A CAPTURED payment has its ledger postings: the gross amount and the    *)
(* commission together, and the driver's earning in both the wallet and     *)
(* driver payable; none of them is there without the others.               *)
CaptureIsPosted ==
  \A t \in Trips :
    /\ payment[t].status = "CAPTURED" => Posted(t, "captured")
    /\ Posted(t, "captured") <=> Posted(t, "commission")
    /\ Posted(t, "driver-earning") <=> Posted(t, "driver-payable")
    /\ Posted(t, "driver-earning") <=> Posted(t, "captured")

(* The ledger takes a Paystack payment as captured only when Paystack has  *)
(* announced a successful charge, although accepting a trip authorises the *)
(* payment with no word from Paystack; and only for a trip that has been   *)
(* completed.                                                              *)
CaptureIsEarned ==
  \A t \in Trips : Posted(t, "captured") =>
    /\ payment[t].provider = "paystack" => "charge.success" \in charges[t]
    /\ TripCompleted(t)

(* The strengthening that makes the two inductive: work is only ever done  *)
(* for events Paystack has announced, for payments that exist; a handler   *)
(* about to write has read PENDING or AUTHORIZED, and one about to capture *)
(* has seen the trip completed.                                            *)
WorkIsAnnounced ==
  \A t \in Trips :
    /\ payment[t].status = "NONE" =>
         charges[t] = {} /\ ~Posted(t, "captured")
    /\ payment[t].confirmed => "charge.success" \in charges[t]
    /\ \A k \in ChargeEvents : event[t][k].status # "NONE" => k \in charges[t]

HandlersKnow ==
  \A h \in Handlers : hpc[h] # "idle" =>
    /\ job[h].kind \in charges[job[h].trip]
    /\ hpc[h] = "write" => job[h].seen \in {"PENDING", "AUTHORIZED"}
    /\ hpc[h] \in {"trip", "capture"} => job[h].kind = "charge.success"
    /\ hpc[h] = "capture" => TripCompleted(job[h].trip)

IInv ==
  /\ TypeOK
  /\ WorkIsAnnounced
  /\ HandlersKnow
  /\ CaptureIsPosted
  /\ CaptureIsEarned

Earning == [t \in Trips |-> DriverShare(Gross[t])]
PaidOut == [t \in Trips |-> payouts[t] * Earning[t]]

(* However many times a payment is captured, each driver's wallet is worth *)
(* one driver share of every payment posted for one of his trips.          *)
WalletsAreWorthEarnings ==
  \A d \in Drivers :
    book.balance[d] =
      SumFunctionOnSet(Earning,
        {t \in Trips : DriverOf[t] = d /\ Posted(t, "driver-earning")})

(* Every capture is split without a remainder, what is owed to drivers is  *)
(* the same in the wallets and in driver payable, and payout clearing has  *)
(* a share for each payout.                                                *)
BooksAgree ==
  LET captured == {t \in Trips : Posted(t, "captured")}
      owed == SumFunctionOnSet(book.balance, Drivers)
  IN  /\ book.balance["driver_payable"] = owed
      /\ book.balance["commission_revenue"] + owed
           = SumFunctionOnSet(Gross, captured)
      /\ book.balance["payout_clearing"] = SumFunctionOnSet(PaidOut, Trips)

(* The strengthening that makes the two inductive: a Payout row's number   *)
(* has never been used, so that its posting is never skipped.              *)
PayoutsAreNumbered ==
  \A r \in book.refs, t \in Trips :
    r[1] = t /\ r[2] = "payout-pending" => r[3] \in 1..payouts[t]

(* The webhook confirms and then looks at the trip; the trip completes and *)
(* then looks for the confirmation.  So once the charge is processed and   *)
(* the completion's own requests are over, one of them has captured,       *)
(* whatever handlers overlapped, threw or died meanwhile; unless a failed  *)
(* attempt was announced too, whose handler may have ended the payment.    *)
NoCaptureIsLost ==
  \A t \in Trips :
    tripPc[t] = "completed" /\ event[t]["charge.success"].processed =>
      Posted(t, "captured") \/ "charge.failed" \in charges[t]

(* The strengthening that makes it inductive: a success handler that is    *)
(* done leaves a payment that is posted, or confirmed before the           *)
(* completion looks at it; only an announced failure fails a payment.      *)
Settled(t) ==
  \/ Posted(t, "captured")
  \/ "charge.failed" \in charges[t]
  \/ payment[t].confirmed /\ tripPc[t] # "completed"

ChargesAreSettled ==
  /\ \A t \in Trips :
       /\ payment[t].status = "FAILED" => "charge.failed" \in charges[t]
       /\ event[t]["charge.success"].processed => Settled(t)
  /\ \A h \in Handlers :
       /\ hpc[h] \in {"trip", "capture"} => payment[job[h].trip].confirmed
       /\ hpc[h] = "done" /\ job[h].kind = "charge.success" =>
            Settled(job[h].trip)

(* What the books owe to the charges.                                      *)

(* The trip has been completed, and paid for as far as Paystack has a say. *)
IsDue(t) ==
  /\ TripCompleted(t)
  /\ payment[t].status # "NONE"
  /\ payment[t].provider = "paystack" => "charge.success" \in charges[t]

Due == {t \in Trips : IsDue(t)}
Captured == {t \in Trips : Posted(t, "captured")}

Promise == INSTANCE Settlement
             WITH Items <- Trips, Worth <- Gross,
                  settled <- Due, booked <- Captured,
                  total <- book.balance["commission_revenue"]
                           + book.balance["driver_payable"]

(* The capture of payments is what Settlement promises: however many       *)
(* requests, webhooks and retries capture, throw or die, what a trip       *)
(* brings reaches the platform's revenue and what is owed to drivers only  *)
(* after it was completed and paid for, in one step, all of it and once.   *)
CapturePromise == Promise!Spec
-----------------------------------------------------------------------------
(* Safety that needs the handlers of one payment not to overlap.           *)

(* A payment makes one payout, however often its capture is called: by the *)
(* webhook, by the trip, again by a retry.  Only a handler that threw or    *)
(* died after it had read the payment makes its retry pay out once more.   *)
OnePayoutPerPayment ==
  \A t \in Trips : payouts[t] <= 1 + faults + crashes

(* The strengthening that makes it inductive: a payment that is capturable *)
(* may pay out once, and so may a success handler yet to confirm it.       *)
MayConfirm(t) ==
  /\ payment[t].status = "NONE" \/ payment[t].provider = "paystack"
  /\ ~event[t]["charge.success"].processed
  /\ \A h \in Handlers : hpc[h] \in {"trip", "capture", "done"} =>
       job[h].trip # t \/ job[h].kind # "charge.success"

CaptureChance(t) == IF Capturable(t) THEN 1 ELSE 0
ConfirmChance(t) == IF MayConfirm(t) THEN 1 ELSE 0

PayoutBudget ==
  /\ \A t \in Trips :
       /\ charges[t] # {} => payment[t].provider = "paystack"
       /\ \A k \in ChargeEvents : event[t][k].processed => k \in charges[t]
       /\ payouts[t] + CaptureChance(t) + ConfirmChance(t)
            <= 1 + faults + crashes
  /\ \A h \in Handlers : hpc[h] # "idle" =>
       ~event[job[h].trip][job[h].kind].processed

-----------------------------------------------------------------------------
(* Liveness.                                                               *)

(* PAYMENTS.md, "Payment Capture (Trip Completion)": a successful charge   *)
(* for a completed trip is eventually captured, unless an earlier failure  *)
(* has already ended the payment or an admin has dead-lettered the event.  *)
ChargeIsCaptured ==
  \A t \in Trips :
    ("charge.success" \in charges[t] /\ TripCompleted(t))
      ~> \/ Posted(t, "captured")
         \/ payment[t].status = "FAILED"
         \/ event[t]["charge.success"].status = "DEAD_LETTER"
=============================================================================
