------------------------------- MODULE Refunds ------------------------------
(***************************************************************************)
(* Full refunds of captured payments: requestRefund, Paystack's refund     *)
(* events (handleRefundEvent), the reversal of the ledger                  *)
(* (reverseFullRefundLedger) and the reconciliation that makes up for      *)
(* reversals that were cut short (runManualReconciliation).                *)
(*                                                                         *)
(* The row of a refund is written before Paystack is asked, its reference  *)
(* after Paystack has answered, its status by whatever event comes, and    *)
(* its ledger in a transaction of its own, which is read committed: two    *)
(* reversals of one refund may run at the same time.                       *)
(***************************************************************************)
EXTENDS Ledger, Money, Functions

CONSTANTS
  PaymentIds,
  DriverOf,     \* DriverOf[x]: the driver of the paid trip
  Amount,       \* Amount[x] in minor units
  Requests,     \* requests for a refund under way at once
  Handlers,     \* provider events handled at once
  Reconcilers,  \* reconciliations under way at once
  NoPayment, NoJob,
  MaxRefunds,   \* bound: rows of refunds
  MaxWallet,    \* bound: what a wallet grows to
  MaxFaults     \* bound: executions that throw or die

VARIABLES
  payment,      \* payment[x]: CAPTURED or REFUNDED
  driven,       \* driven[x]: a driver earned a share of x
  mocked,       \* refunds are mocked for want of a secret key
  payout,       \* payout[x]: the payout that the capture of x created
  refund,       \* refund[i]: payment, status, whether the row has Paystack's
                \* reference, whether its ledger is reversed, and whether an
                \* admin has been asked to settle the driver's share
  book,         \* what has been posted since the captures
  provider,     \* provider[i]: what Paystack makes of refund i
  heard,        \* <<i, kind>>: refund events that are PROCESSED
  pc, job,      \* where each worker is, and on what
  tx,           \* tx[w]: what the transaction of w's reversal has read
  overlapped,   \* history: refunds that two reversals were at work on
  faults

rows == <<payment, payout, refund, book>>
given == <<driven, mocked>>
external == <<provider, heard>>
workerVars == <<pc, job>>
txVars == <<tx, overlapped>>
vars == <<rows, given, external, workerVars, txVars, faults>>

RefundIds == 1..MaxRefunds
Workers == Requests \cup Handlers \cup Reconcilers
Kinds == {"pending", "final"}
RefundStatus == {"NONE", "PROCESSING", "PROCESSED", "FAILED"}
ProviderStatus == {"none", "pending", "processed", "failed"}
Reversals == {"look", "commit"}     \* in the transaction of a reversal
Pcs == {"idle", "create", "post", "fail", "store", "update", "reverse", "ack"}
         \cup Reversals
(* To a reversal, a rejected payout is what an approved one is, a failed   *)
(* one what a requested one is, and a paid one what one being sent is.     *)
PayoutStatus == {"NONE", "REQUESTED", "APPROVED", "PROCESSING", "CANCELLED"}
RefundRows == [payment : PaymentIds \cup {NoPayment}, status : RefundStatus,
               known : BOOLEAN, reversed : BOOLEAN, flagged : BOOLEAN]
Jobs == [payment : PaymentIds, refund : 0..MaxRefunds, kind : Kinds]

(* Whether the postings are there already, what is done about the driver's *)
(* share, and whether the payout is one to cancel.                         *)
Txs == [found : BOOLEAN, share : {"none", "take", "ask"}, cancel : BOOLEAN]
NoTx == [found |-> FALSE, share |-> "none", cancel |-> FALSE]

ASSUME RefundsAssumption ==
  /\ IsFiniteSet(PaymentIds)
  /\ DriverOf \in [PaymentIds -> Drivers]
  /\ Amount \in [PaymentIds -> Nat]
  /\ NoPayment \notin PaymentIds /\ NoJob \notin Jobs
  /\ Requests \cap Handlers = {}
  /\ Reconcilers \cap (Requests \cup Handlers) = {}
  /\ MaxRefunds \in Nat /\ MaxWallet \in Nat /\ MaxFaults \in Nat

TypeOK ==
  /\ payment \in [PaymentIds -> {"CAPTURED", "REFUNDED"}]
  /\ driven \in [PaymentIds -> BOOLEAN]
  /\ mocked \in BOOLEAN
  /\ payout \in [PaymentIds -> PayoutStatus]
  /\ refund \in [RefundIds -> RefundRows]
  /\ book.balance \in [Holders -> Int]
  /\ provider \in [RefundIds -> ProviderStatus]
  /\ heard \subseteq RefundIds \X Kinds
  /\ pc \in [Workers -> Pcs]
  /\ job \in [Workers -> Jobs \cup {NoJob}]
  /\ \A w \in Workers : pc[w] = "idle" <=> job[w] = NoJob
  /\ tx \in [Workers -> Txs]
  /\ overlapped \subseteq RefundIds
  /\ faults \in 0..MaxFaults

NoRefund == [payment |-> NoPayment, status |-> "NONE", known |-> FALSE,
             reversed |-> FALSE, flagged |-> FALSE]

Share(x) == DriverShare(Amount[x])
Shares == [x \in PaymentIds |-> Share(x)]
DrivenBy(d) == {x \in PaymentIds : driven[x] /\ DriverOf[x] = d}

(* Captured payments; the drivers' wallets hold their shares, the ledger's *)
(* accounts are counted from here.                                         *)
Init ==
  /\ payment = [x \in PaymentIds |-> "CAPTURED"]
  /\ driven \in [PaymentIds -> BOOLEAN]
  /\ mocked \in BOOLEAN
  /\ payout = [x \in PaymentIds |-> IF driven[x] THEN "REQUESTED" ELSE "NONE"]
  /\ refund = [i \in RefundIds |-> NoRefund]
  /\ book = [EmptyBook EXCEPT !.balance =
               [h \in Holders |-> IF h \in Drivers
                                  THEN SumFunctionOnSet(Shares, DrivenBy(h))
                                  ELSE 0]]
  /\ provider = [i \in RefundIds |-> "none"]
  /\ heard = {}
  /\ pc = [w \in Workers |-> "idle"]
  /\ job = [w \in Workers |-> NoJob]
  /\ tx = [w \in Workers |-> NoTx]
  /\ overlapped = {}
  /\ faults = 0
-----------------------------------------------------------------------------
Goto(w, at) == pc' = [pc EXCEPT ![w] = at]

Finish(w) ==
  /\ Goto(w, "idle")
  /\ job' = [job EXCEPT ![w] = NoJob]

(* What else happens to a driver: a payout is reviewed (rejected, or       *)
(* approved by a retry) and sent; other rides' earnings and payouts move   *)
(* the wallet.                                                             *)
MovePayout(x, from, to) ==
  /\ payout[x] = from
  /\ payout' = [payout EXCEPT ![x] = to]
  /\ UNCHANGED <<payment, refund, book, given, external, workerVars, txVars,
                 faults>>

ReviewPayout(x) == MovePayout(x, "REQUESTED", "APPROVED")
SendPayout(x) == MovePayout(x, "APPROVED", "PROCESSING")

WalletMoves(d) ==
  /\ DrivenBy(d) # {}
  /\ \E b \in {0, MaxWallet} \ {book.balance[d]} :
       book' = [book EXCEPT !.balance[d] = b]
  /\ UNCHANGED <<payment, payout, refund, given, external, workerVars, txVars,
                 faults>>
-----------------------------------------------------------------------------
(* reverseFullRefundLedger, wherever it is called from: the row is read,   *)
(* then the references and the driver's side, then everything is written   *)
(* and committed.                                                          *)
Ref(i, name) == <<"refund", i, name>>

(* Bug: only a payment that is still CAPTURED is reversed.                 *)
ReversibleIfCaptured(i) ==
  /\ refund[i].status = "PROCESSED"
  /\ ~refund[i].reversed
  /\ payment[refund[i].payment] = "CAPTURED"

(* Bug: whether it has been reversed before is not asked.                  *)
ReversibleAgain(i) == refund[i].status = "PROCESSED"

Reversible(i) == refund[i].status = "PROCESSED" /\ ~refund[i].reversed

(* The driver's share is taken back unless the payout has gone out or the  *)
(* wallet does not cover it; then an admin is asked to settle it.          *)
PaidOut(x) == payout[x] = "PROCESSING"
ShareIsCovered(x) ==
  ~PaidOut(x) /\ book.balance[DriverOf[x]] >= Share(x)

SharePostings(b, i, x) ==
  Post(Post(b, Ref(i, "earning:wallet"), DriverOf[x], -Share(x)),
       Ref(i, "earning:driver-payable"), "driver_payable", -Share(x))

GrossPostings(b, i, x) ==
  Post(Post(b, Ref(i, "processed"), "cash_clearing", -Amount[x]),
       Ref(i, "commission-reversed"), "commission_revenue",
       -ReversedCommission(Amount[x]))

Decision(x) ==
  CASE ~driven[x] -> "none"
    [] driven[x] /\ ShareIsCovered(x) -> "take"
    [] driven[x] /\ ~ShareIsCovered(x) -> "ask"

(* Whoever is in the transaction of a reversal of refund i.                *)
Reversing(i) == {w \in Workers : pc[w] \in Reversals /\ job[w].refund = i}

(* Back to the caller: a handler marks its event, the others are done.     *)
Return(w) ==
  \/ w \in Handlers /\ Goto(w, "ack") /\ UNCHANGED job
  \/ w \notin Handlers /\ Finish(w)

(* A refund that is not PROCESSED or is reversed already is left alone.    *)
ReadRefund(w) ==
  /\ pc[w] = "reverse"
  /\ LET i == job[w].refund
     IN  \/ /\ Reversible(i)
            /\ overlapped' = IF Reversing(i) = {} THEN overlapped
                             ELSE overlapped \cup {i}
            /\ Goto(w, "look")
            /\ UNCHANGED job
         \/ ~Reversible(i) /\ Return(w) /\ UNCHANGED overlapped
  /\ UNCHANGED <<rows, given, external, tx, faults>>

(* One step for several reads: if the postings are not there, a reversal   *)
(* that commits in between rolls this one back all the same; if they are,  *)
(* they stay.                                                              *)
LookUp(w) ==
  /\ pc[w] = "look"
  /\ LET i == job[w].refund
         x == job[w].payment
     IN  tx' = [tx EXCEPT ![w] =
           [found  |-> Ref(i, "processed") \in book.refs,
            share  |-> Decision(x),
            cancel |-> payout[x] = "REQUESTED"]]
  /\ Goto(w, "commit")
  /\ UNCHANGED <<rows, given, external, job, overlapped, faults>>

EndTx(w) == tx' = [tx EXCEPT ![w] = NoTx] /\ UNCHANGED overlapped

(* Another reversal has posted what this one did not find.                 *)
GrossConflict(w) ==
  ~tx[w].found /\ Ref(job[w].refund, "processed") \in book.refs

(* What is found is not posted again; what was not found when it was       *)
(* looked for and is there now violates the unique reference.  The share   *)
(* is looked for again just before it is posted, and may be found then.    *)
ShareConflict(w) ==
  tx[w].share = "take" /\ Ref(job[w].refund, "earning:wallet") \in book.refs

RollBack(w) ==
  /\ pc[w] = "commit"
  /\ GrossConflict(w) \/ ShareConflict(w)
  /\ Finish(w) /\ EndTx(w)
  /\ UNCHANGED <<rows, given, external, faults>>

Commit(w) ==
  /\ pc[w] = "commit"
  /\ ~GrossConflict(w)
  /\ LET i == job[w].refund
         x == job[w].payment
         takes == tx[w].share = "take"
     IN  /\ book' = IF takes THEN SharePostings(GrossPostings(book, i, x), i, x)
                    ELSE GrossPostings(book, i, x)
         /\ payout' = IF takes /\ tx[w].cancel
                      THEN [payout EXCEPT ![x] = "CANCELLED"] ELSE payout
         /\ refund' = [refund EXCEPT ![i].reversed = TRUE,
                         ![i].flagged = @ \/ tx[w].share = "ask"]
         /\ payment' = [payment EXCEPT ![x] = "REFUNDED"]
  /\ Return(w) /\ EndTx(w)
  /\ UNCHANGED <<given, external, faults>>

ReversalStep(w) == ReadRefund(w) \/ LookUp(w) \/ RollBack(w) \/ Commit(w)

(* runManualReconciliation, by an admin or every quarter of an hour: the   *)
(* refunds it lists, one after the other.                                  *)
BeginReconciliation(c, i) ==
  /\ pc[c] = "idle"
  /\ Reversible(i)
  /\ Goto(c, "reverse")
  /\ job' = [job EXCEPT ![c] = [payment |-> refund[i].payment, refund |-> i,
                               kind |-> "final"]]
  /\ UNCHANGED <<rows, given, external, txVars, faults>>
-----------------------------------------------------------------------------
(* requestRefund.                                                          *)
RefundsOf(x) == {i \in RefundIds : refund[i].payment = x}

(* Bug: a refund that has been processed is not looked for.                *)
OutstandingNotProcessed(x) ==
  {i \in RefundsOf(x) : refund[i].status = "PROCESSING"}

Outstanding(x) ==
  {i \in RefundsOf(x) : refund[i].status \in {"PROCESSING", "PROCESSED"}}

RequestRefund(r, x) ==
  /\ pc[r] = "idle"
  /\ payment[x] = "CAPTURED"
  /\ Outstanding(x) = {}
  /\ Goto(r, "create")
  /\ job' = [job EXCEPT ![r] = [payment |-> x, refund |-> 0, kind |-> "final"]]
  /\ UNCHANGED <<rows, given, external, txVars, faults>>

(* A mocked refund is PROCESSED from the start.                            *)
CreateRefund(r) ==
  /\ pc[r] = "create"
  /\ \E i \in RefundIds :
       /\ refund[i] = NoRefund
       /\ \A k \in 1..(i - 1) : refund[k] # NoRefund
       /\ refund' = [refund EXCEPT ![i] =
            [NoRefund EXCEPT !.payment = job[r].payment,
               !.status = IF mocked THEN "PROCESSED" ELSE "PROCESSING"]]
       /\ job' = [job EXCEPT ![r].refund = i]
  /\ Goto(r, IF mocked THEN "reverse" ELSE "post")
  /\ UNCHANGED <<payment, payout, book, given, external, txVars, faults>>

(* Paystack (external) refunds a transaction once; after a refund that has *)
(* failed it takes another.  Its answer arrives or is lost on the way.     *)
PaystackAccepts(r) ==
  /\ pc[r] = "post"
  /\ \A i \in RefundsOf(job[r].payment) : provider[i] \in {"none", "failed"}
  /\ provider' = [provider EXCEPT ![job[r].refund] = "pending"]
  /\ \/ Goto(r, "store") /\ UNCHANGED job
     \/ Finish(r)
  /\ UNCHANGED <<rows, given, txVars, heard, faults>>

(* Paystack answers no, or cannot be reached; then the exception leaves    *)
(* the row PROCESSING.                                                     *)
PaystackRefuses(r) ==
  /\ pc[r] = "post"
  /\ \/ Goto(r, "fail") /\ UNCHANGED job
     \/ Finish(r)
  /\ UNCHANGED <<rows, given, external, txVars, faults>>

FailRefund(r) ==
  /\ pc[r] = "fail"
  /\ refund' = [refund EXCEPT ![job[r].refund].status = "FAILED"]
  /\ Finish(r)
  /\ UNCHANGED <<payment, payout, book, given, external, txVars, faults>>

StoreReference(r) ==
  /\ pc[r] = "store"
  /\ refund' = [refund EXCEPT ![job[r].refund].known = TRUE]
  /\ Finish(r)
  /\ UNCHANGED <<payment, payout, book, given, external, txVars, faults>>
-----------------------------------------------------------------------------
(* handleRefundEvent.                                                      *)

(* Paystack (external) settles a refund; it announces a pending refund at  *)
(* any time after it has been made, and its outcome after that.            *)
PaystackSettles(i, outcome) ==
  /\ provider[i] = "pending"
  /\ provider' = [provider EXCEPT ![i] = outcome]
  /\ UNCHANGED <<rows, given, txVars, heard, workerVars, faults>>

Announced(i, kind) ==
  \/ kind = "pending" /\ provider[i] # "none"
  \/ kind = "final" /\ provider[i] \in {"processed", "failed"}

(* An event finds its refund by Paystack's reference, or counts as done.   *)
BeginEvent(h, i, kind) ==
  /\ pc[h] = "idle"
  /\ Announced(i, kind) /\ <<i, kind>> \notin heard
  /\ Goto(h, IF refund[i].known THEN "update" ELSE "ack")
  /\ job' = [job EXCEPT ![h] = [payment |-> refund[i].payment, refund |-> i,
                               kind |-> kind]]
  /\ UNCHANGED <<rows, given, external, txVars, faults>>

(* Bug: Paystack's own word for the outcome.                               *)
AnnouncedStatusVerbatim(i, kind) == provider[i]

(* Bug: whatever has not failed is processed.                              *)
AnnouncedStatusLoose(i, kind) ==
  IF kind = "final" /\ provider[i] = "failed" THEN "FAILED" ELSE "PROCESSED"

AnnouncedStatus(i, kind) ==
  CASE kind = "pending" -> "PROCESSING"
    [] kind = "final" /\ provider[i] = "processed" -> "PROCESSED"
    [] kind = "final" /\ provider[i] # "processed" -> "FAILED"

(* By id, whatever the status is by now.                                   *)
UpdateRefund(h) ==
  /\ pc[h] = "update"
  /\ LET i == job[h].refund
         status == AnnouncedStatus(i, job[h].kind)
     IN  /\ refund' = [refund EXCEPT ![i].status = status]
         /\ payment' = IF status = "PROCESSED"
                       THEN [payment EXCEPT ![job[h].payment] = "REFUNDED"]
                       ELSE payment
         /\ Goto(h, IF status = "PROCESSED" THEN "reverse" ELSE "ack")
  /\ UNCHANGED <<payout, book, given, external, txVars, job, faults>>

MarkProcessed(h) ==
  /\ pc[h] = "ack"
  /\ heard' = heard \cup {<<job[h].refund, job[h].kind>>}
  /\ Finish(h)
  /\ UNCHANGED <<rows, given, txVars, provider, faults>>

(* An exception or a crash ends a worker where it is, and its transaction  *)
(* with it; an event that is not marked comes again.                       *)
WorkerFails(w) ==
  /\ faults < MaxFaults
  /\ pc[w] # "idle"
  /\ faults' = faults + 1
  /\ Finish(w) /\ EndTx(w)
  /\ UNCHANGED <<rows, given, external>>
-----------------------------------------------------------------------------
RequestStep(r) ==
  \/ \E x \in PaymentIds : RequestRefund(r, x)
  \/ CreateRefund(r)
  \/ PaystackAccepts(r)
  \/ PaystackRefuses(r)
  \/ FailRefund(r)
  \/ StoreReference(r)

HandlerStep(h) ==
  \/ \E i \in RefundIds, kind \in Kinds : BeginEvent(h, i, kind)
  \/ UpdateRefund(h)
  \/ MarkProcessed(h)

PayoutStep(x) == ReviewPayout(x) \/ SendPayout(x)

Next ==
  \/ \E r \in Requests : RequestStep(r)
  \/ \E h \in Handlers : HandlerStep(h)
  \/ \E c \in Reconcilers, i \in RefundIds : BeginReconciliation(c, i)
  \/ \E w \in Workers : ReversalStep(w)
  \/ \E w \in Workers : WorkerFails(w)
  \/ \E i \in RefundIds, outcome \in {"processed", "failed"} :
       PaystackSettles(i, outcome)
  \/ \E x \in PaymentIds : PayoutStep(x)
  \/ \E d \in Drivers : WalletMoves(d)

Spec == Init /\ [][Next]_vars

(* The reconciliation comes back every quarter of an hour and does not     *)
(* stop half way, unless it fails.                                         *)
Reconciliation(c) ==
  \/ \E i \in RefundIds : BeginReconciliation(c, i)
  \/ ReversalStep(c)

FairSpec == Spec /\ \A c \in Reconcilers : WF_vars(Reconciliation(c))
-----------------------------------------------------------------------------
Reversed == {i \in RefundIds : refund[i].reversed}

(* A payment is taken back from the books at most once, whatever is asked  *)
(* for, refused, repeated or cut short in between (and however many rows   *)
(* its refunds have).                                                      *)
ReversedOnce ==
  \A i, k \in Reversed : refund[i].payment = refund[k].payment => i = k

(* The books take a payment back only when Paystack has given the money    *)
(* back (or refunds are mocked), in whatever order its events come.        *)
ReversalFollowsPaystack ==
  \A i \in Reversed : mocked \/ provider[i] = "processed"

(* What the reversals have taken back, and for which of them the driver's  *)
(* share was taken too.                                                    *)
GrossBack == [i \in Reversed |-> Amount[refund[i].payment]]
CommissionBack ==
  [i \in Reversed |-> ReversedCommission(Amount[refund[i].payment])]
ShareBack == [i \in Reversed |-> Share(refund[i].payment)]
ShareTaken ==
  {i \in Reversed : Ref(i, "earning:driver-payable") \in book.refs}

(* The books follow the reversals, however many of a refund run at once:   *)
(* all of the payment leaves the clearing account, the platform's          *)
(* percentage its revenue, and the driver's share what is owed to drivers, *)
(* once each.  A driver's share is either taken or an admin is asked to    *)
(* settle it, and never both, which would have the driver pay twice,       *)
(* unless reversals of the refund did run at once: then the second finds   *)
(* the postings of the first and a wallet without the share.               *)
BooksFollowReversals ==
  /\ book.balance["cash_clearing"] = -SumFunctionOnSet(GrossBack, Reversed)
  /\ book.balance["commission_revenue"]
       = -SumFunctionOnSet(CommissionBack, Reversed)
  /\ book.balance["driver_payable"] = -SumFunctionOnSet(ShareBack, ShareTaken)
  /\ \A i \in Reversed :
       /\ driven[refund[i].payment] <=> i \in ShareTaken \/ refund[i].flagged
       /\ i \in ShareTaken /\ refund[i].flagged => i \in overlapped

(* What the books owe to Paystack's refunds, a mocked one having none.     *)
Returned ==
  {x \in PaymentIds :
     ~mocked /\ \E i \in RefundsOf(x) : provider[i] = "processed"}
TakenBack ==
  {x \in PaymentIds : ~mocked /\ \E i \in RefundsOf(x) : refund[i].reversed}

Promise == INSTANCE Settlement
             WITH Items <- PaymentIds, Worth <- Amount,
                  settled <- Returned, booked <- TakenBack,
                  total <- IF mocked THEN 0
                           ELSE -book.balance["cash_clearing"]

(* The reversal of refunds is what Settlement promises: whatever is asked  *)
(* for twice, refused, cut short, announced late or reconciled, a payment  *)
(* leaves the clearing account only after Paystack has given it back, in   *)
(* one step, all of it and once, however many rows its refunds have.       *)
RefundPromise == Promise!Spec

(* What makes these inductive: a row that was never written is empty, a    *)
(* worker works on a written row of its own payment, a refund is PROCESSED *)
(* only after Paystack's word, which it gives for one refund of a payment  *)
(* at a time, and a reversal, and nothing else, posts under the name of    *)
(* its refund.                                                             *)
EmptyRows ==
  \A i \in RefundIds : refund[i].payment = NoPayment =>
    refund[i] = NoRefund /\ provider[i] = "none"

WorkIsOnRows ==
  \A w \in Workers : pc[w] \notin {"idle", "create"} =>
    /\ job[w].refund \in RefundIds
    /\ refund[job[w].refund].payment = job[w].payment

ProcessedByPaystack ==
  \A i \in RefundIds : refund[i].status = "PROCESSED" \/ refund[i].reversed =>
    mocked \/ provider[i] = "processed"

OneAtPaystack ==
  \A i, k \in RefundIds :
    /\ refund[i].payment = refund[k].payment
    /\ provider[i] \in {"pending", "processed"}
    /\ provider[k] \in {"pending", "processed"}
    => i = k

ReversalsPost ==
  \A i \in RefundIds :
    /\ i \in Reversed =>
         /\ Ref(i, "processed") \in book.refs
         /\ Ref(i, "commission-reversed") \in book.refs
    /\ i \notin Reversed =>
         /\ ~refund[i].flagged
         /\ \A name \in {"processed", "commission-reversed", "earning:wallet",
                         "earning:driver-payable"} :
              Ref(i, name) \notin book.refs

(* A reversal under way is of a refund that Paystack has made, has found   *)
(* postings only of one that was reversed, and has decided about the share *)
(* of a driver who has one.  If no other was at work on the refund, none   *)
(* is now, and it is not reversed yet.                                     *)
ReversalsAreDue ==
  \A w \in Workers : pc[w] \in Reversals =>
    mocked \/ provider[job[w].refund] = "processed"

LookUpsStand ==
  \A w \in Workers : pc[w] = "commit" =>
    /\ tx[w].found => job[w].refund \in Reversed
    /\ tx[w].share = "none" <=> ~driven[job[w].payment]

AloneUnlessOverlapped ==
  \A w \in Workers :
    LET i == job[w].refund
    IN  pc[w] \in Reversals /\ i \notin overlapped =>
          i \notin Reversed /\ Reversing(i) = {w}

(* Mocked refunds never leave the house; what a request has read before it *)
(* creates one stands if requests do not overlap.                          *)
MocksStayHome ==
  mocked =>
    /\ \A i \in RefundIds :
         /\ provider[i] = "none"
         /\ refund[i].payment # NoPayment => refund[i].status = "PROCESSED"
    /\ \A w \in Workers :
         \/ pc[w] = "idle"
         \/ w \notin Handlers /\ pc[w] \in {"create", "reverse"} \cup Reversals

OneRowPerMock ==
  mocked =>
    /\ \A i, k \in RefundIds :
         refund[i].payment = refund[k].payment /\ refund[i].payment # NoPayment
           => i = k
    /\ \A r \in Requests : pc[r] = "create" => RefundsOf(job[r].payment) = {}

IInv ==
  /\ TypeOK
  /\ EmptyRows /\ WorkIsOnRows
  /\ ProcessedByPaystack /\ OneAtPaystack
  /\ ReversalsPost /\ BooksFollowReversals
  /\ ReversalsAreDue /\ LookUpsStand /\ AloneUnlessOverlapped
  /\ MocksStayHome

(* A refund that stays PROCESSED is reversed, although the request or the  *)
(* event that should have done it was cut short.  (A late refund.pending   *)
(* takes it back to PROCESSING, where nothing looks for it.)               *)
ProcessedIsReversed ==
  \A i \in RefundIds :
    refund[i].status = "PROCESSED"
      ~> refund[i].reversed \/ refund[i].status # "PROCESSED"
=============================================================================
