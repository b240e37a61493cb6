------------------------------ MODULE Payouts ------------------------------
(***************************************************************************)
(* A driver's payout: created by a capture or requested by the driver,     *)
(* reviewed by finance admins (PayoutsService, "section 17"), sent through *)
(* Paystack, retried when it failed, and settled by Paystack's events.     *)
(*                                                                         *)
(* Every admin operation reads the row, checks its status and writes by id *)
(* later, except the claim of a transfer and the settlement of an event,   *)
(* which hang on a conditional updateMany.                                 *)
(***************************************************************************)
EXTENDS Ledger, Functions

CONSTANTS
  PayoutIds,
  DriverOf,     \* DriverOf[p]: the driver who is paid
  Amount,       \* Amount[p] in minor units
  Requests,     \* requests under way at once
  OwedElsewhere,\* owed to drivers for payouts outside the model
  NoJob,
  MaxCode,      \* bound: transfers Paystack makes for one payout
  MaxFaults,    \* bound: database calls that throw
  MaxCrashes    \* bound: processes that die

VARIABLES
  payout,       \* payout[p]: status, providerTransferCode (0 is null), and
                \* whether transfers are mocked for want of a secret key
  account,      \* account[d]: verified, has a recipient code, in cooldown
  book,
  transfer,     \* transfer[p][c]: the c-th transfer Paystack made for p
  heard,        \* heard[p][c]: that transfer's event is PROCESSED
  pc, job,      \* where each request is, and what it works on
  faults, crashes

bounds == <<faults, crashes>>
requestVars == <<pc, job>>
vars == <<payout, account, book, transfer, heard, pc, job, faults, crashes>>

Status == {"NONE", "REQUESTED", "APPROVED", "PROCESSING", "PAID", "FAILED",
           "REJECTED"}
Codes == 1..MaxCode
TransferStatus == {"none", "pending", "success", "failed"}
Reviews == {"approve-section17", "reject", "processing", "paid", "failed"}
Ops == Reviews \cup {"request", "approve", "retry"}
Pcs == {"idle", "create", "write", "reset", "read", "mock", "post", "claim",
        "report", "undo"}
Jobs == [op : Ops, payout : PayoutIds, code : 0..MaxCode]

ASSUME PayoutsAssumption ==
  /\ IsFiniteSet(PayoutIds)
  /\ DriverOf \in [PayoutIds -> Drivers]
  /\ Amount \in [PayoutIds -> Nat]
  /\ OwedElsewhere \in Nat
  /\ NoJob \notin Jobs
  /\ MaxCode \in Nat \ {0} /\ MaxFaults \in Nat /\ MaxCrashes \in Nat

PayoutRows == [status : Status, code : 0..MaxCode, mocked : BOOLEAN]
Accounts == [verified : BOOLEAN, recipient : BOOLEAN, cooldown : BOOLEAN]

RowsOK ==
  /\ payout \in [PayoutIds -> PayoutRows]
  /\ account \in [Drivers -> Accounts]
  /\ book.balance \in [Holders -> Int]
  /\ transfer \in [PayoutIds -> [Codes -> TransferStatus]]
  /\ heard \in [PayoutIds -> [Codes -> BOOLEAN]]

JobsOK ==
  /\ pc \in [Requests -> Pcs]
  /\ job \in [Requests -> Jobs \cup {NoJob}]
  /\ \A r \in Requests :
       /\ pc[r] = "idle" <=> job[r] = NoJob
       /\ pc[r] = "write" => job[r].op \in Reviews

TypeOK ==
  /\ RowsOK /\ JobsOK
  /\ faults \in 0..MaxFaults /\ crashes \in 0..MaxCrashes

(* seed-operations-staging leaves REQUESTED, PROCESSING and FAILED payouts *)
(* behind (and PAID ones, with which nothing ever happens), the last two   *)
(* with the code of a transfer.                                            *)
SeededTransfer ==
  [status \in {"NONE", "REQUESTED", "PROCESSING", "FAILED"} |->
     CASE status = "PROCESSING" -> "pending"
       [] status = "FAILED" -> "failed"
       [] OTHER -> "none"]

SeededRow(status, mocked) ==
  [status |-> status, mocked |-> mocked,
   code |-> IF SeededTransfer[status] = "none" THEN 0 ELSE 1]

Init ==
  /\ \E mocked \in BOOLEAN, status \in [PayoutIds -> DOMAIN SeededTransfer] :
       payout = [p \in PayoutIds |-> SeededRow(status[p], mocked)]
  /\ account = [d \in Drivers |-> [verified |-> FALSE, recipient |-> FALSE,
                                   cooldown |-> FALSE]]
  /\ book = Post(EmptyBook, <<"elsewhere">>, "driver_payable", OwedElsewhere)
  /\ transfer = [p \in PayoutIds |-> [c \in Codes |->
                   IF c = 1 THEN SeededTransfer[payout[p].status] ELSE "none"]]
  /\ heard = [p \in PayoutIds |-> [c \in Codes |-> FALSE]]
  /\ pc = [r \in Requests |-> "idle"]
  /\ job = [r \in Requests |-> NoJob]
  /\ faults = 0
  /\ crashes = 0
-----------------------------------------------------------------------------
Ref(p, name) == <<p, name, 0>>
Posted(p, name) == Ref(p, name) \in book.refs

Begin(r, op, p, at) ==
  /\ pc[r] = "idle"
  /\ pc' = [pc EXCEPT ![r] = at]
  /\ job' = [job EXCEPT ![r] = [op |-> op, payout |-> p, code |-> 0]]

Goto(r, at) == pc' = [pc EXCEPT ![r] = at]

Finish(r) ==
  /\ Goto(r, "idle")
  /\ job' = [job EXCEPT ![r] = NoJob]

(* An exception ends a request; retryPayoutTransfer catches it first.      *)
Throw(r) ==
  \/ /\ job[r].op = "retry"
     /\ Goto(r, "undo")
     /\ UNCHANGED job
  \/ /\ job[r].op # "retry"
     /\ Finish(r)

(* A transfer that has been initiated; a retry has its outcome to record.  *)
Return(r) ==
  \/ /\ job[r].op = "retry"
     /\ Goto(r, "report")
     /\ UNCHANGED job
  \/ /\ job[r].op # "retry"
     /\ Finish(r)
-----------------------------------------------------------------------------
(* Where payouts come from.                                                *)

(* capturePaymentForTrip: the driver's share goes to the wallet, to driver *)
(* payable and, as pending, to payout clearing.                            *)
EarningPostings(b, p) ==
  Post(Post(Post(b, Ref(p, "earning"), DriverOf[p], Amount[p]),
            Ref(p, "payable"), "driver_payable", Amount[p]),
       Ref(p, "pending"), "payout_clearing", Amount[p])

Earn(p) ==
  /\ payout[p].status = "NONE"
  /\ \A r \in Requests : pc[r] = "create" => job[r].payout # p
  /\ payout' = [payout EXCEPT ![p].status = "REQUESTED"]
  /\ book' = EarningPostings(book, p)
  /\ UNCHANGED <<account, transfer, heard, requestVars, bounds>>

(* addPayoutAccount: verified at once, and no payout for a day.            *)
AddPayoutAccount(d) ==
  /\ account' = [account EXCEPT ![d] =
                   [@ EXCEPT !.verified = TRUE, !.cooldown = TRUE]]
  /\ UNCHANGED <<payout, book, transfer, heard, requestVars, bounds>>

(* saveDriverBankAccount: the only way to get a recipient code; it neither *)
(* verifies nor starts a cooldown.                                         *)
SaveDriverBankAccount(d) ==
  /\ account' = [account EXCEPT ![d].recipient = TRUE]
  /\ UNCHANGED <<payout, book, transfer, heard, requestVars, bounds>>

CooldownEnds(d) ==
  /\ account' = [account EXCEPT ![d].cooldown = FALSE]
  /\ UNCHANGED <<payout, book, transfer, heard, requestVars, bounds>>

(* requestPayout compares with what is owed to all drivers together, and   *)
(* reserves nothing; the row is created later.                             *)
RequestPayout(r, p) ==
  /\ payout[p].status = "NONE"
  /\ account[DriverOf[p]].verified /\ ~account[DriverOf[p]].cooldown
  /\ book.balance["driver_payable"] >= Amount[p]
  /\ \A s \in Requests : pc[s] = "create" => job[s].payout # p
  /\ Begin(r, "request", p, "create")
  /\ UNCHANGED <<payout, account, book, transfer, heard, bounds>>

CreateRequest(r) ==
  /\ pc[r] = "create"
  /\ payout' = [payout EXCEPT ![job[r].payout].status = "REQUESTED"]
  /\ Finish(r)
  /\ UNCHANGED <<account, book, transfer, heard, bounds>>
-----------------------------------------------------------------------------
(* PayoutsService: the reviews of section 17.  What each expects to read,  *)
(* and what it then writes by id.                                          *)
Expected ==
  [op \in Reviews |->
     CASE op \in {"approve-section17", "reject"} -> "REQUESTED"
       [] op = "processing" -> "APPROVED"
       [] op \in {"paid", "failed"} -> "PROCESSING"]

(* Bug: a status that the enum does not have.                              *)
WrittenDeclined ==
  [op \in Reviews |-> IF op = "reject" THEN "DECLINED" ELSE Expected[op]]

Written ==
  [op \in Reviews |->
     CASE op = "approve-section17" -> "APPROVED"
       [] op = "reject" -> "REJECTED"
       [] op = "processing" -> "PROCESSING"
       [] op = "paid" -> "PAID"
       [] op = "failed" -> "FAILED"]

Review(r, op, p) ==
  /\ payout[p].status = Expected[op]
  /\ Begin(r, op, p, "write")
  /\ UNCHANGED <<payout, account, book, transfer, heard, bounds>>

(* validateLedgerBalance of the transaction approvePayout posted last: it  *)
(* has one entry, a credit of the amount, and throws unless they balance.  *)
ApprovalBalances(p) ==
  LET debits == 0
      credits == Amount[p]
  IN  debits = credits

ApprovalPostings(b, p) ==
  Post(Post(b, Ref(p, "approved:driver-payable"), "driver_payable", -Amount[p]),
       Ref(p, "approved:payout-clearing"), "payout_clearing", Amount[p])

FailurePostings(b, p) ==
  Post(Post(b, Ref(p, "failed:driver-payable"), "driver_payable", Amount[p]),
       Ref(p, "failed:payout-clearing"), "payout_clearing", -Amount[p])

ReviewPostings(b, op, p) ==
  CASE op = "approve-section17" -> ApprovalPostings(b, p)
    [] op = "failed" -> FailurePostings(b, p)
    [] OTHER -> b

(* The whole transaction is rolled back when the approval does not balance. *)
WriteReview(r) ==
  /\ pc[r] = "write"
  /\ LET p == job[r].payout
         op == job[r].op
     IN  IF op = "approve-section17" /\ ~ApprovalBalances(p)
         THEN UNCHANGED <<payout, book>>
         ELSE /\ payout' = [payout EXCEPT ![p].status = Written[op]]
              /\ book' = ReviewPostings(book, op, p)
  /\ Finish(r)
  /\ UNCHANGED <<account, transfer, heard, bounds>>
-----------------------------------------------------------------------------
(* PaystackService: initiatePayoutTransfer and retryPayoutTransfer.        *)

(* AdminService.approvePayout refuses only PAID and FAILED payouts.        *)
ApprovePayout(r, p) ==
  /\ payout[p].status \notin {"NONE", "PAID", "FAILED"}
  /\ Begin(r, "approve", p, "read")
  /\ UNCHANGED <<payout, account, book, transfer, heard, bounds>>

(* retryPayoutTransfer: a failed payout that has not been posted as paid.  *)
RetryPayoutTransfer(r, p) ==
  /\ payout[p].status = "FAILED"
  /\ ~Posted(p, "paid:wallet")
  /\ Begin(r, "retry", p, "reset")
  /\ UNCHANGED <<payout, account, book, transfer, heard, bounds>>

ResetForRetry(r) ==
  /\ pc[r] = "reset"
  /\ payout' = [payout EXCEPT ![job[r].payout] =
                  [@ EXCEPT !.status = "APPROVED", !.code = 0]]
  /\ Goto(r, "read")
  /\ UNCHANGED <<account, book, transfer, heard, job, bounds>>

(* Bug: a driver without a recipient code is paid as if it were a mock.    *)
TransferIsMockedLoosely(p) ==
  payout[p].mocked \/ ~account[DriverOf[p]].recipient

(* No secret key, or a provider other than Paystack.                       *)
TransferIsMocked(p) == payout[p].mocked

(* initiatePayoutTransfer reads the payout and decides.  It does not ask   *)
(* for APPROVED.                                                           *)
InitiateTransfer(r) ==
  /\ pc[r] = "read"
  /\ LET p == job[r].payout
         status == payout[p].status
         mocked == TransferIsMocked(p)
         recipient == account[DriverOf[p]].recipient
         sent == status = "PROCESSING" /\ payout[p].code # 0
     IN  \/ /\ status = "PAID" \/ (~mocked /\ recipient /\ sent)
            /\ Return(r)
         \/ /\ status = "FAILED" \/ (status # "PAID" /\ ~mocked /\ ~recipient)
            /\ Throw(r)
         \/ /\ status \notin {"PAID", "FAILED"} /\ mocked
            /\ Goto(r, "mock") /\ UNCHANGED job
         \/ /\ status \notin {"PAID", "FAILED"} /\ ~mocked
            /\ recipient /\ ~sent
            /\ Goto(r, "post") /\ UNCHANGED job
  /\ UNCHANGED <<payout, account, book, transfer, heard, bounds>>

(* Bug: every attempt has a reference of its own.                          *)
FreshReference(p) == TRUE

(* Paystack (external) makes one transfer per reference, and the reference *)
(* of a payout is always RYD-TRF-<id>; after a failure another may be      *)
(* made.                                                                   *)
ReferenceIsFree(p) ==
  \A c \in Codes : transfer[p][c] \in {"none", "failed"}

NextCode(p) == CHOOSE c \in Codes : transfer[p][c] = "none"

(* The POST succeeds, and its answer arrives or is lost on the way.        *)
PaystackAccepts(r) ==
  /\ pc[r] = "post"
  /\ LET p == job[r].payout
     IN  /\ ReferenceIsFree(p)
         /\ \E c \in Codes : transfer[p][c] = "none"
         /\ transfer' = [transfer EXCEPT ![p][NextCode(p)] = "pending"]
         /\ \/ /\ job' = [job EXCEPT ![r].code = NextCode(p)]
               /\ Goto(r, "claim")
            \/ Throw(r)
  /\ UNCHANGED <<payout, account, book, heard, bounds>>

(* The POST is refused or never reaches Paystack.                          *)
PaystackRefuses(r) ==
  /\ pc[r] = "post"
  /\ Throw(r)
  /\ UNCHANGED <<payout, account, book, transfer, heard, bounds>>

(* Only an APPROVED payout is claimed; the caller is told PROCESSING       *)
(* whether it was or not.                                                  *)
ClaimTransfer(r) ==
  /\ pc[r] = "claim"
  /\ LET p == job[r].payout
     IN  payout' = IF payout[p].status = "APPROVED"
                   THEN [payout EXCEPT ![p] =
                           [@ EXCEPT !.status = "PROCESSING", !.code = job[r].code]]
                   ELSE payout
  /\ Return(r)
  /\ UNCHANGED <<account, book, transfer, heard, bounds>>

(* Bug: the wallet is forgotten.                                           *)
PaidPostingsPayableOnly(b, p) ==
  Post(Post(b, Ref(p, "paid:driver-payable"), "driver_payable", -Amount[p]),
       Ref(p, "paid:clearing"), "payout_clearing", Amount[p])

(* recordPayoutPaidLedger.                                                 *)
PaidPostings(b, p) ==
  Post(Post(Post(b, Ref(p, "paid:wallet"), DriverOf[p], -Amount[p]),
            Ref(p, "paid:driver-payable"), "driver_payable", -Amount[p]),
       Ref(p, "paid:clearing"), "payout_clearing", Amount[p])

(* markMockPayoutPaid: a conditional update, and the caller is told PAID   *)
(* whatever it found.                                                      *)
MarkMockPayoutPaid(r) ==
  /\ pc[r] = "mock"
  /\ LET p == job[r].payout
     IN  \/ /\ payout[p].status \in {"APPROVED", "PROCESSING"}
            /\ payout' = [payout EXCEPT ![p].status = "PAID"]
            /\ book' = PaidPostings(book, p)
            /\ Return(r)
         \/ /\ payout[p].status = "FAILED"
            /\ Throw(r)
            /\ UNCHANGED <<payout, book>>
         \/ /\ payout[p].status \notin {"APPROVED", "PROCESSING", "FAILED"}
            /\ Return(r)
            /\ UNCHANGED <<payout, book>>
  /\ UNCHANGED <<account, transfer, heard, bounds>>

(* What a retry does last: the operation's record and the audit log.       *)
ReportRetry(r) ==
  /\ pc[r] = "report"
  /\ Finish(r)
  /\ UNCHANGED <<payout, account, book, transfer, heard, bounds>>

(* The catch of retryPayoutTransfer: FAILED, by id.                        *)
UndoRetry(r) ==
  /\ pc[r] = "undo"
  /\ payout' = [payout EXCEPT ![job[r].payout].status = "FAILED"]
  /\ Finish(r)
  /\ UNCHANGED <<account, book, transfer, heard, bounds>>

(* A database call throws, or the transaction that claims is rolled back.  *)
DatabaseThrows(r) ==
  /\ faults < MaxFaults
  /\ pc[r] \in {"read", "post", "claim", "mock", "report"}
  /\ faults' = faults + 1
  /\ Throw(r)
  /\ UNCHANGED <<payout, account, book, transfer, heard, crashes>>

RequestDies(r) ==
  /\ crashes < MaxCrashes
  /\ pc[r] # "idle"
  /\ crashes' = crashes + 1
  /\ Finish(r)
  /\ UNCHANGED <<payout, account, book, transfer, heard, faults>>
-----------------------------------------------------------------------------
(* Paystack (external) settles a transfer, for good.                       *)
PaystackSettles(p, c, outcome) ==
  /\ transfer[p][c] = "pending"
  /\ transfer' = [transfer EXCEPT ![p][c] = outcome]
  /\ UNCHANGED <<payout, account, book, heard, requestVars, bounds>>

(* The payout is found by the transfer's code, and updated if PROCESSING.  *)
Awaits(p, c) == payout[p].code = c /\ payout[p].status = "PROCESSING"

(* Bug: transfer.failed is logged and nothing else.                        *)
SettledRowIfPaid(p, c) ==
  IF Awaits(p, c) /\ transfer[p][c] = "success"
  THEN [payout EXCEPT ![p].status = "PAID"] ELSE payout

(* handleTransferSuccess and handleTransferFailed.  An event that matches  *)
(* nothing counts as processed all the same; one whose execution is cut    *)
(* short comes again.                                                      *)
SettledRow(p, c) ==
  IF ~Awaits(p, c) THEN payout
  ELSE [payout EXCEPT ![p].status =
          IF transfer[p][c] = "success" THEN "PAID" ELSE "FAILED"]

HandleTransferEvent(p, c) ==
  /\ transfer[p][c] \in {"success", "failed"}
  /\ ~heard[p][c]
  /\ payout' = SettledRow(p, c)
  /\ book' = IF Awaits(p, c) /\ transfer[p][c] = "success"
             THEN PaidPostings(book, p) ELSE book
  /\ \/ heard' = [heard EXCEPT ![p][c] = TRUE]
     \/ UNCHANGED heard
  /\ UNCHANGED <<account, transfer, requestVars, bounds>>
-----------------------------------------------------------------------------
OriginStep ==
  \/ \E p \in PayoutIds : Earn(p)
  \/ \E d \in Drivers : \/ AddPayoutAccount(d)
                        \/ SaveDriverBankAccount(d)
                        \/ CooldownEnds(d)

StartStep(r, p) ==
  \/ RequestPayout(r, p)
  \/ \E op \in Reviews : Review(r, op, p)
  \/ ApprovePayout(r, p)
  \/ RetryPayoutTransfer(r, p)

RequestStep(r) ==
  \/ CreateRequest(r)
  \/ WriteReview(r)
  \/ ResetForRetry(r)
  \/ InitiateTransfer(r)
  \/ PaystackAccepts(r)
  \/ PaystackRefuses(r)
  \/ ClaimTransfer(r)
  \/ MarkMockPayoutPaid(r)
  \/ ReportRetry(r)
  \/ UndoRetry(r)
  \/ DatabaseThrows(r)
  \/ RequestDies(r)

ProviderStep(p, c) ==
  \/ \E outcome \in {"success", "failed"} : PaystackSettles(p, c, outcome)
  \/ HandleTransferEvent(p, c)

Next ==
  \/ OriginStep
  \/ \E r \in Requests, p \in PayoutIds : StartStep(r, p)
  \/ \E r \in Requests : RequestStep(r)
  \/ \E p \in PayoutIds, c \in Codes : ProviderStep(p, c)

Spec == Init /\ [][Next]_vars
-----------------------------------------------------------------------------
(* Requests run on unless they die, Paystack settles what it has accepted  *)
(* and redelivers an event until it has been processed.                    *)
RequestProgress(r) ==
  \/ CreateRequest(r)
  \/ WriteReview(r)
  \/ ResetForRetry(r)
  \/ InitiateTransfer(r)
  \/ PaystackAccepts(r)
  \/ PaystackRefuses(r)
  \/ ClaimTransfer(r)
  \/ MarkMockPayoutPaid(r)
  \/ ReportRetry(r)
  \/ UndoRetry(r)

Fairness ==
  /\ \A r \in Requests : WF_vars(RequestProgress(r))
  /\ \A p \in PayoutIds, c \in Codes : WF_vars(ProviderStep(p, c))

FairSpec == Spec /\ Fairness
-----------------------------------------------------------------------------
(* Money leaves at most once for a payout: of all the transfers made for   *)
(* it, through retries, lost answers, crashes and overlapping requests, at *)
(* most one is under way or has succeeded.                                 *)
MoneyLeavesOnce ==
  \A p \in PayoutIds, b, c \in Codes :
    b # c => transfer[p][b] \in {"none", "failed"}
             \/ transfer[p][c] \in {"none", "failed"}

(* The ledger takes a payout as paid only when Paystack has transferred    *)
(* the money (or its transfer is mocked), however late an event comes and  *)
(* whatever was retried meanwhile.                                         *)
PaidWasTransferred ==
  \A p \in PayoutIds :
    Posted(p, "paid:wallet") =>
      payout[p].mocked \/ \E c \in Codes : transfer[p][c] = "success"

(* The books follow the payouts: what is owed to drivers is what they      *)
(* earned, less what was paid, plus what an admin has taken back; and a    *)
(* driver's wallet is what that driver earned less what was paid.          *)
BooksFollowPayouts ==
  LET total(S) == SumFunctionOnSet(Amount, S)
      posted(name) == {p \in PayoutIds : Posted(p, name)}
      of(d, S) == {p \in S : DriverOf[p] = d}
  IN  /\ book.balance["driver_payable"]
           = OwedElsewhere + total(posted("earning"))
             - total(posted("paid:wallet"))
             + total(posted("failed:driver-payable"))
      /\ \A d \in Drivers :
           book.balance[d] = total(of(d, posted("earning")))
                             - total(of(d, posted("paid:wallet")))

(* What the books owe to the transfers.                                    *)

Transferred ==
  {p \in PayoutIds :
     payout[p].mocked \/ \E c \in Codes : transfer[p][c] = "success"}
PaidOut == {p \in PayoutIds : Posted(p, "paid:wallet")}

(* What the payouts have taken from what is owed to drivers.               *)
TakenFromPayable ==
  LET total(name) ==
        SumFunctionOnSet(Amount, {p \in PayoutIds : Posted(p, name)})
  IN  OwedElsewhere + total("earning") + total("failed:driver-payable")
      - book.balance["driver_payable"]

Promise == INSTANCE Settlement
             WITH Items <- PayoutIds, Worth <- Amount,
                  settled <- Transferred, booked <- PaidOut,
                  total <- TakenFromPayable

(* The payment of payouts is what Settlement promises: through retries,    *)
(* late and repeated events, overlapping requests and crashes, an amount   *)
(* leaves what is owed to drivers only after the driver has the money (or  *)
(* the transfer is mocked), in one step, all of it and once.               *)
PayoutPromise == Promise!Spec

(* A payout that is PROCESSING with the code of a transfer whose event has *)
(* not been processed is settled by that event, whatever retries, reviews  *)
(* and crashes go on around it.  (An event that is processed before the    *)
(* code is stored finds nothing to settle and does not come again.)        *)
TransfersSettle ==
  \A p \in PayoutIds, c \in Codes :
    payout[p].status = "PROCESSING" /\ payout[p].code = c /\ ~heard[p][c]
      ~> payout[p].status # "PROCESSING"
=============================================================================
