---------------------------- MODULE PayoutsProofs ---------------------------
(***************************************************************************)
(* Proofs about Payouts, for any payouts, drivers, amounts and concurrent  *)
(* requests, and any number of transfers, exceptions and deaths.           *)
(***************************************************************************)
EXTENDS Payouts, MoneyProofs

(* How a request begins, goes on and ends.                                 *)
OthersStay(r) ==
  \A q \in Requests \ {r} : pc'[q] = pc[q] /\ job'[q] = job[q]

LEMMA BeginType ==
  ASSUME JobsOK, NEW r \in Requests, NEW op \in Ops, NEW p \in PayoutIds,
         NEW at \in Pcs \ {"idle"}, Begin(r, op, p, at),
         at = "write" => op \in Reviews
  PROVE  JobsOK' /\ OthersStay(r) /\ pc'[r] = at
<1> DEFINE j == [op |-> op, payout |-> p, code |-> 0]
<1>1. j \in Jobs
  BY PayoutsAssumption DEF Jobs
<1>2. j # NoJob /\ j.op = op
  BY <1>1, PayoutsAssumption
<1>3. pc[r] = "idle" /\ pc' = [pc EXCEPT ![r] = at] /\ job' = [job EXCEPT ![r] = j]
  BY DEF Begin
<1> HIDE DEF j
<1> QED
  BY <1>1, <1>2, <1>3 DEF JobsOK, OthersStay

LEMMA GotoType ==
  ASSUME JobsOK, NEW r \in Requests, pc[r] # "idle",
         NEW at \in Pcs \ {"idle", "write"}, Goto(r, at), UNCHANGED job
  PROVE  JobsOK' /\ OthersStay(r) /\ pc'[r] = at
BY DEF Goto, JobsOK, OthersStay

LEMMA FinishType ==
  ASSUME JobsOK, NEW r \in Requests, Finish(r)
  PROVE  JobsOK' /\ OthersStay(r) /\ pc'[r] = "idle"
BY DEF Finish, Goto, JobsOK, Pcs, OthersStay

LEMMA ThrowType ==
  ASSUME JobsOK, NEW r \in Requests, pc[r] # "idle", Throw(r) \/ Return(r)
  PROVE  JobsOK' /\ OthersStay(r) /\ pc'[r] \in {"idle", "undo", "report"}
<1>1. \/ Finish(r)
      \/ (Goto(r, "undo") \/ Goto(r, "report")) /\ UNCHANGED job
  BY DEF Throw, Return
<1> QED
  BY <1>1, FinishType, GotoType DEF Pcs

LEMMA AtWork ==
  ASSUME JobsOK, NEW r \in Requests, pc[r] # "idle"
  PROVE  /\ job[r] \in Jobs
         /\ job[r].payout \in PayoutIds
         /\ job[r].op \in Ops
         /\ job[r].code \in 0..MaxCode
<1>1. job[r] \in Jobs
  BY DEF JobsOK
<1> QED
  BY <1>1 DEF Jobs
-----------------------------------------------------------------------------
(* What the postings do.                                                   *)
LEMMA AmountsAndHolders ==
  ASSUME NEW p \in PayoutIds
  PROVE  /\ Amount[p] \in Int /\ -Amount[p] \in Int
         /\ DriverOf[p] \in Holders
         /\ "driver_payable" \in Holders /\ "payout_clearing" \in Holders
BY PayoutsAssumption DEF Holders, LedgerAccounts

LEMMA EarningFacts ==
  ASSUME NEW b, b.balance \in [Holders -> Int], NEW p \in PayoutIds
  PROVE  /\ EarningPostings(b, p).balance \in [Holders -> Int]
         /\ EarningPostings(b, p).refs
              = b.refs \cup {Ref(p, "earning"), Ref(p, "payable"),
                             Ref(p, "pending")}
<1> DEFINE c == Post(b, Ref(p, "earning"), DriverOf[p], Amount[p])
           d == Post(c, Ref(p, "payable"), "driver_payable", Amount[p])
<1>1. /\ c.refs = b.refs \cup {Ref(p, "earning")}
      /\ c.balance \in [Holders -> Int]
  BY AmountsAndHolders, PostFacts
<1> HIDE DEF c
<1>2. /\ d.refs = c.refs \cup {Ref(p, "payable")}
      /\ d.balance \in [Holders -> Int]
  BY <1>1, AmountsAndHolders, PostFacts
<1> HIDE DEF d
<1>3. LET e == Post(d, Ref(p, "pending"), "payout_clearing", Amount[p])
      IN  /\ e.refs = d.refs \cup {Ref(p, "pending")}
          /\ e.balance \in [Holders -> Int]
  BY <1>2, AmountsAndHolders, PostFacts
<1> QED
  BY <1>1, <1>2, <1>3 DEF EarningPostings, c, d

LEMMA PaidFacts ==
  ASSUME NEW b, b.balance \in [Holders -> Int], NEW p \in PayoutIds
  PROVE  /\ PaidPostings(b, p).balance \in [Holders -> Int]
         /\ PaidPostings(b, p).refs
              = b.refs \cup {Ref(p, "paid:wallet"), Ref(p, "paid:driver-payable"),
                             Ref(p, "paid:clearing")}
<1> DEFINE c == Post(b, Ref(p, "paid:wallet"), DriverOf[p], -Amount[p])
           d == Post(c, Ref(p, "paid:driver-payable"), "driver_payable",
                     -Amount[p])
<1>1. /\ c.refs = b.refs \cup {Ref(p, "paid:wallet")}
      /\ c.balance \in [Holders -> Int]
  BY AmountsAndHolders, PostFacts
<1> HIDE DEF c
<1>2. /\ d.refs = c.refs \cup {Ref(p, "paid:driver-payable")}
      /\ d.balance \in [Holders -> Int]
  BY <1>1, AmountsAndHolders, PostFacts
<1> HIDE DEF d
<1>3. LET e == Post(d, Ref(p, "paid:clearing"), "payout_clearing", Amount[p])
      IN  /\ e.refs = d.refs \cup {Ref(p, "paid:clearing")}
          /\ e.balance \in [Holders -> Int]
  BY <1>2, AmountsAndHolders, PostFacts
<1> QED
  BY <1>1, <1>2, <1>3 DEF PaidPostings, c, d

LEMMA ReviewFacts ==
  ASSUME NEW b, b.balance \in [Holders -> Int], NEW p \in PayoutIds, NEW op
  PROVE  /\ ReviewPostings(b, op, p).balance \in [Holders -> Int]
         /\ ReviewPostings(b, op, p).refs \subseteq
              b.refs \cup {Ref(p, "approved:driver-payable"),
                           Ref(p, "approved:payout-clearing"),
                           Ref(p, "failed:driver-payable"),
                           Ref(p, "failed:payout-clearing")}
<1>1. /\ ApprovalPostings(b, p).balance \in [Holders -> Int]
      /\ ApprovalPostings(b, p).refs
           = b.refs \cup {Ref(p, "approved:driver-payable"),
                          Ref(p, "approved:payout-clearing")}
  <2> DEFINE c == Post(b, Ref(p, "approved:driver-payable"), "driver_payable", -Amount[p])
  <2>1. /\ c.refs = b.refs \cup {Ref(p, "approved:driver-payable")}
        /\ c.balance \in [Holders -> Int]
    BY AmountsAndHolders, PostFacts
  <2> HIDE DEF c
  <2>2. LET e == Post(c, Ref(p, "approved:payout-clearing"), "payout_clearing",
                      Amount[p])
        IN  /\ e.refs = c.refs \cup {Ref(p, "approved:payout-clearing")}
            /\ e.balance \in [Holders -> Int]
    BY <2>1, AmountsAndHolders, PostFacts
  <2> QED
    BY <2>1, <2>2 DEF ApprovalPostings, c
<1>2. /\ FailurePostings(b, p).balance \in [Holders -> Int]
      /\ FailurePostings(b, p).refs
           = b.refs \cup {Ref(p, "failed:driver-payable"),
                          Ref(p, "failed:payout-clearing")}
  <2> DEFINE c == Post(b, Ref(p, "failed:driver-payable"), "driver_payable", Amount[p])
  <2>1. /\ c.refs = b.refs \cup {Ref(p, "failed:driver-payable")}
        /\ c.balance \in [Holders -> Int]
    BY AmountsAndHolders, PostFacts
  <2> HIDE DEF c
  <2>2. LET e == Post(c, Ref(p, "failed:payout-clearing"), "payout_clearing",
                      -Amount[p])
        IN  /\ e.refs = c.refs \cup {Ref(p, "failed:payout-clearing")}
            /\ e.balance \in [Holders -> Int]
    BY <2>1, AmountsAndHolders, PostFacts
  <2> QED
    BY <2>1, <2>2 DEF FailurePostings, c
<1> QED
  BY <1>1, <1>2 DEF ReviewPostings
-----------------------------------------------------------------------------
(* A payout's row that is written keeps saying whether it is mocked.       *)
MockedStays == \A p \in PayoutIds : payout'[p].mocked = payout[p].mocked

LEMMA RowWritten ==
  ASSUME RowsOK, NEW p \in PayoutIds, NEW new \in PayoutRows,
         new.mocked = payout[p].mocked, payout' = [payout EXCEPT ![p] = new]
  PROVE  payout' \in [PayoutIds -> PayoutRows] /\ MockedStays
BY DEF RowsOK, MockedStays

LEMMA StatusWritten ==
  ASSUME RowsOK, NEW p \in PayoutIds, NEW s \in Status,
         payout' = [payout EXCEPT ![p].status = s]
  PROVE  payout' \in [PayoutIds -> PayoutRows] /\ MockedStays
<1> DEFINE new == [payout[p] EXCEPT !.status = s]
<1>1. payout[p] \in PayoutRows
  BY DEF RowsOK
<1>2. new \in PayoutRows /\ new.mocked = payout[p].mocked
  BY <1>1 DEF PayoutRows
<1>3. payout' = [payout EXCEPT ![p] = new]
  OBVIOUS
<1> HIDE DEF new
<1> QED
  BY <1>2, <1>3, RowWritten

LEMMA CodeWritten ==
  ASSUME RowsOK, NEW p \in PayoutIds, NEW s \in Status, NEW c \in 0..MaxCode,
         payout' = [payout EXCEPT ![p] = [payout[p] EXCEPT !.status = s, !.code = c]]
  PROVE  payout' \in [PayoutIds -> PayoutRows] /\ MockedStays
<1> DEFINE new == [payout[p] EXCEPT !.status = s, !.code = c]
<1>1. payout[p] \in PayoutRows
  BY DEF RowsOK
<1>2. new \in PayoutRows /\ new.mocked = payout[p].mocked
  BY <1>1 DEF PayoutRows
<1>3. payout' = [payout EXCEPT ![p] = new]
  OBVIOUS
<1> HIDE DEF new
<1> QED
  BY <1>2, <1>3, RowWritten

LEMMA TypeInit ==
  ASSUME Init PROVE TypeOK
<1>1. payout \in [PayoutIds -> PayoutRows]
  <2>1. PICK mocked \in BOOLEAN, status \in [PayoutIds -> DOMAIN SeededTransfer] :
          payout = [p \in PayoutIds |-> SeededRow(status[p], mocked)]
    BY DEF Init
  <2>2. ASSUME NEW p \in PayoutIds PROVE SeededRow(status[p], mocked) \in PayoutRows
    <3>1. status[p] \in Status
      BY DEF SeededTransfer, Status
    <3> QED
      BY <2>1, <3>1, PayoutsAssumption DEF SeededRow, PayoutRows
  <2> QED
    BY <2>1, <2>2
<1>2. transfer \in [PayoutIds -> [Codes -> TransferStatus]]
  <2>1. ASSUME NEW p \in PayoutIds
        PROVE  SeededTransfer[payout[p].status] \in TransferStatus
    <3>1. payout[p].status \in DOMAIN SeededTransfer
      BY DEF Init, SeededRow
    <3> QED
      BY <3>1 DEF SeededTransfer, TransferStatus
  <2> QED
    BY <2>1 DEF Init, TransferStatus
<1>3. book.balance \in [Holders -> Int]
  <2>1. EmptyBook.balance \in [Holders -> Int]
    BY DEF EmptyBook
  <2>2. "driver_payable" \in Holders /\ OwedElsewhere \in Int
    BY PayoutsAssumption DEF Holders, LedgerAccounts
  <2> QED
    BY <2>1, <2>2, PostFacts DEF Init
<1>4. JobsOK
  BY PayoutsAssumption DEF Init, JobsOK, Pcs
<1>5. account \in [Drivers -> Accounts] /\ heard \in [PayoutIds -> [Codes -> BOOLEAN]]
  BY DEF Init, Accounts
<1> QED
  BY <1>1, <1>2, <1>3, <1>4, <1>5, PayoutsAssumption DEF Init, TypeOK, RowsOK
-----------------------------------------------------------------------------
(* What a step does to the requests.                                       *)

LEMMA MovesOfStart ==
  ASSUME JobsOK, NEW r \in Requests, NEW p \in PayoutIds, StartStep(r, p)
  PROVE  JobsOK' /\ OthersStay(r) /\ pc'[r] # "mock"
<1>1. \E op \in Ops, at \in {"create", "write", "read", "reset"} :
        Begin(r, op, p, at) /\ (at = "write" => op \in Reviews)
  BY DEF StartStep, RequestPayout, Review, ApprovePayout, RetryPayoutTransfer,
         Ops
<1> QED
  BY <1>1, BeginType DEF Pcs

LEMMA FreeCode ==
  ASSUME NEW p \in PayoutIds, \E c \in Codes : transfer[p][c] = "none"
  PROVE  NextCode(p) \in Codes /\ transfer[p][NextCode(p)] = "none"
BY DEF NextCode

LEMMA MovesOfStep ==
  ASSUME JobsOK, NEW r \in Requests, RequestStep(r)
  PROVE  /\ JobsOK' /\ OthersStay(r)
         /\ pc'[r] = "mock" => /\ payout[job[r].payout].mocked
                               /\ UNCHANGED <<job, payout>>
<1>1. CASE \/ CreateRequest(r) \/ WriteReview(r) \/ ReportRetry(r)
           \/ UndoRetry(r) \/ RequestDies(r)
  BY <1>1, FinishType
  DEF CreateRequest, WriteReview, ReportRetry, UndoRetry, RequestDies
<1>2. CASE ResetForRetry(r)
  BY <1>2, GotoType DEF ResetForRetry, Pcs
<1>3. CASE InitiateTransfer(r)
  <2>1. pc[r] # "idle"
    BY <1>3 DEF InitiateTransfer
  <2>2. CASE Return(r) \/ Throw(r)
    BY <2>1, <2>2, ThrowType
  <2>3. CASE Goto(r, "post") /\ UNCHANGED job
    BY <2>1, <2>3, GotoType DEF Pcs
  <2>4. CASE /\ TransferIsMocked(job[r].payout) /\ Goto(r, "mock")
             /\ UNCHANGED <<job, payout>>
    BY <2>1, <2>4, GotoType DEF Pcs, TransferIsMocked
  <2> QED
    BY <1>3, <2>2, <2>3, <2>4 DEF InitiateTransfer
<1>4. CASE PaystackAccepts(r)
  <2> DEFINE p == job[r].payout
             new == [job[r] EXCEPT !.code = NextCode(p)]
  <2>1. pc[r] # "idle" /\ p \in PayoutIds /\ job[r] \in Jobs
    BY <1>4, AtWork DEF PaystackAccepts
  <2>2. CASE Throw(r)
    BY <2>1, <2>2, ThrowType
  <2>3. CASE job' = [job EXCEPT ![r] = new] /\ Goto(r, "claim")
    <3>1. NextCode(p) \in 0..MaxCode
      BY <1>4, <2>1, FreeCode DEF PaystackAccepts, Codes
    <3>2. new \in Jobs /\ new # NoJob
      BY <2>1, <3>1, PayoutsAssumption DEF Jobs
    <3> HIDE DEF new
    <3> QED
      BY <2>1, <2>3, <3>2 DEF Goto, JobsOK, OthersStay, Pcs
  <2> QED
    BY <1>4, <2>2, <2>3 DEF PaystackAccepts
<1>5. CASE \/ PaystackRefuses(r) \/ ClaimTransfer(r) \/ MarkMockPayoutPaid(r)
           \/ DatabaseThrows(r)
  <2>1. pc[r] # "idle" /\ (Throw(r) \/ Return(r))
    BY <1>5 DEF PaystackRefuses, ClaimTransfer, MarkMockPayoutPaid,
                DatabaseThrows
  <2> QED
    BY <2>1, ThrowType
<1> QED
  BY <1>1, <1>2, <1>3, <1>4, <1>5 DEF RequestStep
-----------------------------------------------------------------------------
(* What a step does to the rows: they keep their types, and a payout is    *)
(* posted as paid only for a transfer that has succeeded or is mocked.     *)

PaidForATransfer ==
  \A p \in PayoutIds :
    Posted(p, "paid:wallet")' =>
      \/ Posted(p, "paid:wallet")
      \/ payout[p].mocked
      \/ \E c \in Codes : transfer[p][c] = "success"

(* No admin's review, and no earning, posts a payout as paid.              *)
LEMMA NotPaid ==
  ASSUME NEW refs, NEW more, NEW p \in PayoutIds,
         more \subseteq refs \cup
           {Ref(p, name) : name \in {"earning", "payable", "pending",
                                     "approved:driver-payable",
                                     "approved:payout-clearing",
                                     "failed:driver-payable",
                                     "failed:payout-clearing"}},
         NEW q \in PayoutIds, Ref(q, "paid:wallet") \in more
  PROVE  Ref(q, "paid:wallet") \in refs
BY DEF Ref

(* A posting of p as paid does not post any other payout.                  *)
LEMMA PaidAlone ==
  ASSUME NEW refs, NEW p \in PayoutIds, NEW q \in PayoutIds,
         Ref(q, "paid:wallet") \in
           refs \cup {Ref(p, "paid:wallet"), Ref(p, "paid:driver-payable"),
                      Ref(p, "paid:clearing")}
  PROVE  Ref(q, "paid:wallet") \in refs \/ q = p
BY DEF Ref

LEMMA RowsOfOrigin ==
  ASSUME RowsOK, OriginStep
  PROVE  RowsOK' /\ MockedStays /\ PaidForATransfer /\ UNCHANGED transfer
<1>1. ASSUME NEW p \in PayoutIds, Earn(p)
      PROVE  RowsOK' /\ MockedStays /\ PaidForATransfer /\ UNCHANGED transfer
  <2>1. /\ payout' = [payout EXCEPT ![p].status = "REQUESTED"]
        /\ book' = EarningPostings(book, p)
        /\ UNCHANGED <<account, transfer, heard>>
    BY <1>1 DEF Earn
  <2>2. payout' \in [PayoutIds -> PayoutRows] /\ MockedStays
    BY <2>1, StatusWritten DEF Status
  <2>3. /\ book'.balance \in [Holders -> Int]
        /\ book'.refs = book.refs \cup {Ref(p, "earning"), Ref(p, "payable"),
                                        Ref(p, "pending")}
    BY <2>1, EarningFacts DEF RowsOK
  <2>4. PaidForATransfer
    BY <2>3, NotPaid DEF PaidForATransfer, Posted
  <2> QED
    BY <2>1, <2>2, <2>3, <2>4 DEF RowsOK
<1>2. ASSUME NEW d \in Drivers,
             \/ AddPayoutAccount(d)
             \/ SaveDriverBankAccount(d)
             \/ CooldownEnds(d)
      PROVE  RowsOK' /\ MockedStays /\ PaidForATransfer /\ UNCHANGED transfer
  <2>1. UNCHANGED <<payout, book, transfer, heard>>
    BY <1>2 DEF AddPayoutAccount, SaveDriverBankAccount, CooldownEnds
  <2>2. account' \in [Drivers -> Accounts]
    <3>1. account \in [Drivers -> Accounts]
      BY DEF RowsOK
    <3>2. CASE AddPayoutAccount(d)
      <4> DEFINE new == [account[d] EXCEPT !.verified = TRUE, !.cooldown = TRUE]
      <4>1. new \in Accounts
        BY <3>1 DEF Accounts
      <4>2. account' = [account EXCEPT ![d] = new]
        BY <3>2 DEF AddPayoutAccount
      <4> HIDE DEF new
      <4> QED
        BY <3>1, <4>1, <4>2
    <3>3. CASE SaveDriverBankAccount(d)
      BY <3>1, <3>3 DEF SaveDriverBankAccount, Accounts
    <3>4. CASE CooldownEnds(d)
      BY <3>1, <3>4 DEF CooldownEnds, Accounts
    <3> QED
      BY <1>2, <3>2, <3>3, <3>4
  <2> QED
    BY <2>1, <2>2 DEF RowsOK, MockedStays, PaidForATransfer, Posted
<1> QED
  BY <1>1, <1>2 DEF OriginStep

LEMMA RowsOfPayoutWrite ==
  ASSUME RowsOK, payout' \in [PayoutIds -> PayoutRows], MockedStays,
         UNCHANGED <<account, book, transfer, heard>>
  PROVE  RowsOK' /\ PaidForATransfer
BY DEF RowsOK, PaidForATransfer, Posted

LEMMA RowsOfReview ==
  ASSUME RowsOK, JobsOK, NEW r \in Requests, WriteReview(r)
  PROVE  RowsOK' /\ MockedStays /\ PaidForATransfer /\ UNCHANGED transfer
<1> DEFINE p == job[r].payout
           op == job[r].op
<1>1. p \in PayoutIds /\ pc[r] = "write" /\ op \in Reviews
  BY AtWork DEF WriteReview, JobsOK
<1>2. UNCHANGED <<account, transfer, heard>>
  BY DEF WriteReview
<1>3. CASE UNCHANGED <<payout, book>>
  BY <1>2, <1>3 DEF RowsOK, MockedStays, PaidForATransfer, Posted
<1>4. CASE /\ payout' = [payout EXCEPT ![p].status = Written[op]]
           /\ book' = ReviewPostings(book, op, p)
  <2>1. Written[op] \in Status
    <3> HIDE DEF op
    <3> QED
      BY <1>1 DEF Written, Reviews, Status
  <2>2. payout' \in [PayoutIds -> PayoutRows] /\ MockedStays
    <3> HIDE DEF p
    <3> QED
      BY <1>1, <1>4, <2>1, StatusWritten
  <2>3. /\ book'.balance \in [Holders -> Int]
        /\ book'.refs \subseteq
             book.refs \cup {Ref(p, "approved:driver-payable"),
                             Ref(p, "approved:payout-clearing"),
                             Ref(p, "failed:driver-payable"),
                             Ref(p, "failed:payout-clearing")}
    <3> HIDE DEF p
    <3> QED
      BY <1>1, <1>4, ReviewFacts DEF RowsOK
  <2>4. PaidForATransfer
    <3> HIDE DEF p
    <3> QED
      BY <1>1, <2>3, NotPaid DEF PaidForATransfer, Posted
  <2> QED
    BY <1>2, <2>2, <2>3, <2>4 DEF RowsOK
<1> QED
  BY <1>3, <1>4 DEF WriteReview
-----------------------------------------------------------------------------
(* What Paystack has transferred stays transferred.                        *)
SuccessesStay ==
  \A p \in PayoutIds, c \in Codes :
    transfer[p][c] = "success" => transfer'[p][c] = "success"

RowsMove == RowsOK' /\ MockedStays /\ PaidForATransfer

LEMMA RowsUntouched ==
  ASSUME RowsOK, UNCHANGED <<payout, account, book, transfer, heard>>
  PROVE  RowsMove /\ UNCHANGED transfer
BY DEF RowsOK, RowsMove, MockedStays, PaidForATransfer, Posted

LEMMA RowsOfStatusWrite ==
  ASSUME RowsOK, JobsOK, NEW r \in Requests, CreateRequest(r) \/ UndoRetry(r)
  PROVE  RowsMove /\ UNCHANGED transfer
<1> DEFINE p == job[r].payout
<1>1. p \in PayoutIds
  BY AtWork DEF CreateRequest, UndoRetry
<1>2. /\ \E s \in Status : payout' = [payout EXCEPT ![p].status = s]
      /\ UNCHANGED <<account, book, transfer, heard>>
  BY DEF CreateRequest, UndoRetry, Status
<1> HIDE DEF p
<1> QED
  BY <1>1, <1>2, StatusWritten, RowsOfPayoutWrite DEF RowsMove

LEMMA RowsOfCodeWrite ==
  ASSUME RowsOK, JobsOK, NEW r \in Requests, ResetForRetry(r) \/ ClaimTransfer(r)
  PROVE  RowsMove /\ UNCHANGED transfer
<1> DEFINE p == job[r].payout
           c == job[r].code
<1>1. p \in PayoutIds /\ c \in 0..MaxCode
  BY AtWork DEF ResetForRetry, ClaimTransfer
<1>2. UNCHANGED <<account, book, transfer, heard>>
  BY DEF ResetForRetry, ClaimTransfer
<1>3. CASE payout' = [payout EXCEPT ![p] =
                        [payout[p] EXCEPT !.status = "APPROVED", !.code = 0]]
  <2>1. 0 \in 0..MaxCode /\ "APPROVED" \in Status
    BY PayoutsAssumption DEF Status
  <2> HIDE DEF p
  <2> QED
    BY <1>1, <1>2, <1>3, <2>1, CodeWritten, RowsOfPayoutWrite DEF RowsMove
<1>4. CASE payout' = [payout EXCEPT ![p] =
                        [payout[p] EXCEPT !.status = "PROCESSING", !.code = c]]
  <2>1. "PROCESSING" \in Status
    BY DEF Status
  <2> HIDE DEF p, c
  <2> QED
    BY <1>1, <1>2, <1>4, <2>1, CodeWritten, RowsOfPayoutWrite DEF RowsMove
<1>5. CASE UNCHANGED payout
  BY <1>2, <1>5, RowsUntouched
<1> QED
  BY <1>3, <1>4, <1>5 DEF ResetForRetry, ClaimTransfer

(* p is posted as paid, for a transfer or a mock.                          *)
LEMMA RowsOfPaid ==
  ASSUME RowsOK, NEW p \in PayoutIds,
         payout[p].mocked \/ \E c \in Codes : transfer[p][c] = "success",
         payout' = [payout EXCEPT ![p].status = "PAID"],
         book' = PaidPostings(book, p)
  PROVE  /\ payout' \in [PayoutIds -> PayoutRows] /\ MockedStays
         /\ book'.balance \in [Holders -> Int] /\ PaidForATransfer
<1>1. payout' \in [PayoutIds -> PayoutRows] /\ MockedStays
  BY StatusWritten DEF Status
<1>2. /\ book'.balance \in [Holders -> Int]
      /\ book'.refs = book.refs \cup {Ref(p, "paid:wallet"),
                         Ref(p, "paid:driver-payable"), Ref(p, "paid:clearing")}
  BY PaidFacts DEF RowsOK
<1>3. PaidForATransfer
  BY <1>2, PaidAlone DEF PaidForATransfer, Posted
<1> QED
  BY <1>1, <1>2, <1>3

LEMMA RowsOfMock ==
  ASSUME RowsOK, JobsOK, NEW r \in Requests, MarkMockPayoutPaid(r),
         payout[job[r].payout].mocked
  PROVE  RowsMove /\ UNCHANGED transfer
<1> DEFINE p == job[r].payout
<1>1. p \in PayoutIds
  BY AtWork DEF MarkMockPayoutPaid
<1>2. UNCHANGED <<account, transfer, heard>>
  BY DEF MarkMockPayoutPaid
<1>3. CASE UNCHANGED <<payout, book>>
  BY <1>2, <1>3, RowsUntouched
<1>4. CASE /\ payout' = [payout EXCEPT ![p].status = "PAID"]
           /\ book' = PaidPostings(book, p)
  <2>1. payout[p].mocked
    OBVIOUS
  <2> HIDE DEF p
  <2> QED
    BY <1>1, <1>2, <1>4, <2>1, RowsOfPaid DEF RowsOK, RowsMove
<1> QED
  BY <1>3, <1>4 DEF MarkMockPayoutPaid
-----------------------------------------------------------------------------
(* What a step does to the transfers.                                      *)
TransferMoves == SuccessesStay /\ (MoneyLeavesOnce => MoneyLeavesOnce')

LEMMA TransfersUntouched ==
  ASSUME UNCHANGED transfer PROVE TransferMoves
BY DEF TransferMoves, SuccessesStay, MoneyLeavesOnce

LEMMA RowsOfTransfer ==
  ASSUME RowsOK, NEW p \in PayoutIds, NEW c \in Codes, NEW s \in TransferStatus,
         transfer' = [transfer EXCEPT ![p][c] = s],
         UNCHANGED <<payout, account, book, heard>>
  PROVE  RowsMove
<1>1. transfer' \in [PayoutIds -> [Codes -> TransferStatus]]
  BY DEF RowsOK
<1> QED
  BY <1>1 DEF RowsOK, RowsMove, MockedStays, PaidForATransfer, Posted

(* Paystack makes a transfer only when all the others of its reference     *)
(* have failed.                                                            *)
LEMMA TransferMade ==
  ASSUME RowsOK, NEW p \in PayoutIds, NEW n \in Codes, transfer[p][n] = "none",
         ReferenceIsFree(p), transfer' = [transfer EXCEPT ![p][n] = "pending"]
  PROVE  TransferMoves
<1>1. \A q \in PayoutIds, c \in Codes :
        transfer'[q][c] = IF q = p /\ c = n THEN "pending" ELSE transfer[q][c]
  BY DEF RowsOK
<1>2. SuccessesStay
  BY <1>1 DEF SuccessesStay
<1>3. ASSUME MoneyLeavesOnce, NEW q \in PayoutIds, NEW b \in Codes,
             NEW c \in Codes, b # c
      PROVE  transfer'[q][b] \in {"none", "failed"}
             \/ transfer'[q][c] \in {"none", "failed"}
  <2>1. CASE q # p
    BY <1>1, <1>3, <2>1 DEF MoneyLeavesOnce
  <2>2. CASE q = p /\ b # n
    BY <1>1, <2>2 DEF ReferenceIsFree
  <2>3. CASE q = p /\ c # n
    BY <1>1, <2>3 DEF ReferenceIsFree
  <2> QED
    BY <1>3, <2>1, <2>2, <2>3
<1> QED
  BY <1>2, <1>3 DEF TransferMoves, MoneyLeavesOnce

LEMMA StepOfAccept ==
  ASSUME RowsOK, JobsOK, NEW r \in Requests, PaystackAccepts(r)
  PROVE  RowsMove /\ TransferMoves
<1> DEFINE p == job[r].payout
           n == NextCode(p)
<1>1. p \in PayoutIds
  BY AtWork DEF PaystackAccepts
<1>2. /\ ReferenceIsFree(p)
      /\ \E c \in Codes : transfer[p][c] = "none"
      /\ transfer' = [transfer EXCEPT ![p][n] = "pending"]
      /\ UNCHANGED <<payout, account, book, heard>>
  BY DEF PaystackAccepts
<1>3. n \in Codes /\ transfer[p][n] = "none"
  BY <1>1, <1>2, FreeCode
<1>4. "pending" \in TransferStatus
  BY DEF TransferStatus
<1> HIDE DEF p, n
<1>5. RowsMove
  BY <1>1, <1>2, <1>3, <1>4, RowsOfTransfer
<1>6. TransferMoves
  BY <1>1, <1>2, <1>3, TransferMade
<1> QED
  BY <1>5, <1>6

LEMMA StepOfSettle ==
  ASSUME RowsOK, NEW p \in PayoutIds, NEW c \in Codes,
         NEW outcome \in {"success", "failed"}, PaystackSettles(p, c, outcome)
  PROVE  RowsMove /\ TransferMoves /\ UNCHANGED requestVars
<1>1. /\ transfer[p][c] = "pending"
      /\ transfer' = [transfer EXCEPT ![p][c] = outcome]
      /\ UNCHANGED <<payout, account, book, heard, requestVars>>
  BY DEF PaystackSettles
<1>2. RowsMove
  BY <1>1, RowsOfTransfer DEF TransferStatus
<1>3. \A q \in PayoutIds, b \in Codes :
        transfer'[q][b] = IF q = p /\ b = c THEN outcome ELSE transfer[q][b]
  BY <1>1 DEF RowsOK
<1>4. TransferMoves
  BY <1>1, <1>3 DEF TransferMoves, SuccessesStay, MoneyLeavesOnce
<1> QED
  BY <1>1, <1>2, <1>4

LEMMA StepOfEvent ==
  ASSUME RowsOK, NEW p \in PayoutIds, NEW c \in Codes, HandleTransferEvent(p, c)
  PROVE  RowsMove /\ TransferMoves /\ UNCHANGED requestVars
<1>1. UNCHANGED <<account, transfer, requestVars>>
  BY DEF HandleTransferEvent
<1>2. heard' \in [PayoutIds -> [Codes -> BOOLEAN]]
  <2>1. heard \in [PayoutIds -> [Codes -> BOOLEAN]]
    BY DEF RowsOK
  <2> DEFINE row == [heard[p] EXCEPT ![c] = TRUE]
  <2>2. heard' = [heard EXCEPT ![p] = row] \/ heard' = heard
    BY DEF HandleTransferEvent
  <2>3. row \in [Codes -> BOOLEAN]
    <3>1. heard[p] \in [Codes -> BOOLEAN]
      BY <2>1
    <3> QED
      BY <3>1, Zenon
  <2> HIDE DEF row
  <2> QED
    BY <2>1, <2>2, <2>3
<1>3. /\ payout' \in [PayoutIds -> PayoutRows] /\ MockedStays
      /\ book'.balance \in [Holders -> Int] /\ PaidForATransfer
  <2>1. CASE Awaits(p, c) /\ transfer[p][c] = "success"
    BY <2>1, RowsOfPaid DEF HandleTransferEvent, SettledRow
  <2>2. CASE Awaits(p, c) /\ transfer[p][c] # "success"
    <3>1. payout' = [payout EXCEPT ![p].status = "FAILED"] /\ UNCHANGED book
      BY <2>2 DEF HandleTransferEvent, SettledRow
    <3>2. payout' \in [PayoutIds -> PayoutRows] /\ MockedStays
      BY <3>1, StatusWritten DEF Status
    <3> QED
      BY <3>1, <3>2 DEF RowsOK, PaidForATransfer, Posted
  <2>3. CASE ~Awaits(p, c)
    <3>1. UNCHANGED <<payout, book>>
      BY <2>3 DEF HandleTransferEvent, SettledRow
    <3> QED
      BY <3>1 DEF RowsOK, MockedStays, PaidForATransfer, Posted
  <2> QED
    BY <2>1, <2>2, <2>3
<1> QED
  BY <1>1, <1>2, <1>3, TransfersUntouched DEF RowsOK, RowsMove
-----------------------------------------------------------------------------
(* The inductive invariant.  A request that is about to mark a mock payout *)
(* paid works on a payout that is mocked: it found so when it read the     *)
(* row, and a row never changes in that.                                   *)
MocksAreMocked ==
  \A r \in Requests : pc[r] = "mock" => payout[job[r].payout].mocked

IInv == TypeOK /\ MoneyLeavesOnce /\ PaidWasTransferred /\ MocksAreMocked

LEMMA CountsStep ==
  ASSUME TypeOK, [Next]_vars
  PROVE  faults' \in 0..MaxFaults /\ crashes' \in 0..MaxCrashes
<1>1. faults \in 0..MaxFaults /\ crashes \in 0..MaxCrashes
  BY DEF TypeOK
<1>2. \/ UNCHANGED <<faults, crashes>>
      \/ faults < MaxFaults /\ faults' = faults + 1 /\ crashes' = crashes
      \/ crashes < MaxCrashes /\ crashes' = crashes + 1 /\ faults' = faults
  <2>1. CASE OriginStep
    BY <2>1 DEF OriginStep, Earn, AddPayoutAccount, SaveDriverBankAccount,
                CooldownEnds, bounds
  <2>2. ASSUME NEW r \in Requests, NEW p \in PayoutIds, StartStep(r, p)
        PROVE  UNCHANGED <<faults, crashes>>
    BY <2>2 DEF StartStep, RequestPayout, Review, ApprovePayout,
                RetryPayoutTransfer, bounds
  <2>3. ASSUME NEW r \in Requests, RequestStep(r)
        PROVE  \/ UNCHANGED <<faults, crashes>>
               \/ faults < MaxFaults /\ faults' = faults + 1 /\ crashes' = crashes
               \/ crashes < MaxCrashes /\ crashes' = crashes + 1 /\ faults' = faults
    <3>1. CASE DatabaseThrows(r)
      BY <3>1 DEF DatabaseThrows
    <3>2. CASE RequestDies(r)
      BY <3>2 DEF RequestDies
    <3>3. CASE \/ CreateRequest(r) \/ WriteReview(r) \/ ResetForRetry(r)
               \/ InitiateTransfer(r) \/ PaystackAccepts(r)
               \/ PaystackRefuses(r) \/ ClaimTransfer(r)
               \/ MarkMockPayoutPaid(r) \/ ReportRetry(r) \/ UndoRetry(r)
      BY <3>3 DEF CreateRequest, WriteReview, ResetForRetry, InitiateTransfer,
                  PaystackAccepts, PaystackRefuses, ClaimTransfer,
                  MarkMockPayoutPaid, ReportRetry, UndoRetry, bounds
    <3> QED
      BY <2>3, <3>1, <3>2, <3>3 DEF RequestStep
  <2>4. ASSUME NEW p \in PayoutIds, NEW c \in Codes, ProviderStep(p, c)
        PROVE  UNCHANGED <<faults, crashes>>
    BY <2>4 DEF ProviderStep, PaystackSettles, HandleTransferEvent, bounds
  <2> QED
    BY <2>1, <2>2, <2>3, <2>4 DEF Next, vars
<1> QED
  BY <1>1, <1>2, PayoutsAssumption

(* Every step moves rows, transfers and requests as the lemmas say.        *)
LEMMA StepFacts ==
  ASSUME IInv, [Next]_vars
  PROVE  RowsMove /\ TransferMoves /\ JobsOK' /\ MocksAreMocked'
<1>1. RowsOK /\ JobsOK /\ MocksAreMocked
  BY DEF IInv, TypeOK
<1> DEFINE NewMocks(r) ==
      pc'[r] = "mock" => payout[job[r].payout].mocked /\ UNCHANGED <<job, payout>>
<1>2. ASSUME MockedStays, UNCHANGED requestVars
      PROVE  JobsOK' /\ MocksAreMocked'
  <2>1. JobsOK'
    BY <1>1, <1>2 DEF JobsOK, requestVars
  <2>2. ASSUME NEW r \in Requests, pc[r] = "mock"
        PROVE  payout'[job[r].payout].mocked
    BY <1>1, <1>2, <2>2, AtWork DEF MockedStays, MocksAreMocked
  <2> QED
    BY <1>2, <2>1, <2>2 DEF MocksAreMocked, requestVars
<1>3. ASSUME NEW r \in Requests, MockedStays, OthersStay(r), NewMocks(r)
      PROVE  MocksAreMocked'
  <2>1. ASSUME NEW q \in Requests, pc'[q] = "mock"
        PROVE  payout'[job'[q].payout].mocked
    <3>1. CASE q = r
      BY <1>3, <2>1, <3>1
    <3>2. CASE q # r
      <4>1. pc[q] = "mock" /\ job'[q] = job[q]
        BY <1>3, <2>1, <3>2 DEF OthersStay
      <4>2. payout[job[q].payout].mocked /\ job[q].payout \in PayoutIds
        BY <1>1, <4>1, AtWork DEF MocksAreMocked
      <4> QED
        BY <1>3, <4>1, <4>2 DEF MockedStays
    <3> QED
      BY <3>1, <3>2
  <2> QED
    BY <2>1 DEF MocksAreMocked
<1>4. CASE OriginStep
  <2>1. UNCHANGED requestVars
    BY <1>4 DEF OriginStep, Earn, AddPayoutAccount, SaveDriverBankAccount,
                CooldownEnds
  <2> QED
    BY <1>1, <1>2, <1>4, <2>1, RowsOfOrigin, TransfersUntouched DEF RowsMove
<1>5. ASSUME NEW r \in Requests, NEW p \in PayoutIds, StartStep(r, p)
      PROVE  RowsMove /\ TransferMoves /\ JobsOK' /\ MocksAreMocked'
  <2>1. UNCHANGED <<payout, account, book, transfer, heard>>
    BY <1>5 DEF StartStep, RequestPayout, Review, ApprovePayout,
                RetryPayoutTransfer
  <2>2. JobsOK' /\ OthersStay(r) /\ pc'[r] # "mock"
    BY <1>1, <1>5, MovesOfStart
  <2>3. RowsMove /\ TransferMoves
    BY <1>1, <2>1, RowsUntouched, TransfersUntouched
  <2> QED
    BY <1>3, <2>2, <2>3 DEF RowsMove
<1>6. ASSUME NEW r \in Requests, RequestStep(r)
      PROVE  RowsMove /\ TransferMoves /\ JobsOK' /\ MocksAreMocked'
  <2>1. JobsOK' /\ OthersStay(r) /\ NewMocks(r)
    BY <1>1, <1>6, MovesOfStep
  <2>2. RowsMove /\ TransferMoves
    <3>1. CASE CreateRequest(r) \/ UndoRetry(r)
      BY <1>1, <3>1, RowsOfStatusWrite, TransfersUntouched
    <3>2. CASE ResetForRetry(r) \/ ClaimTransfer(r)
      BY <1>1, <3>2, RowsOfCodeWrite, TransfersUntouched
    <3>3. CASE WriteReview(r)
      BY <1>1, <3>3, RowsOfReview, TransfersUntouched DEF RowsMove
    <3>4. CASE MarkMockPayoutPaid(r)
      <4>1. payout[job[r].payout].mocked
        BY <1>1, <3>4 DEF MocksAreMocked, MarkMockPayoutPaid
      <4> QED
        BY <1>1, <3>4, <4>1, RowsOfMock, TransfersUntouched
    <3>5. CASE PaystackAccepts(r)
      BY <1>1, <3>5, StepOfAccept
    <3>6. CASE \/ InitiateTransfer(r) \/ PaystackRefuses(r) \/ ReportRetry(r)
               \/ DatabaseThrows(r) \/ RequestDies(r)
      <4>1. UNCHANGED <<payout, account, book, transfer, heard>>
        BY <3>6 DEF InitiateTransfer, PaystackRefuses, ReportRetry,
                    DatabaseThrows, RequestDies
      <4> QED
        BY <1>1, <4>1, RowsUntouched, TransfersUntouched
    <3> QED
      BY <1>6, <3>1, <3>2, <3>3, <3>4, <3>5, <3>6 DEF RequestStep
  <2> QED
    BY <1>3, <2>1, <2>2 DEF RowsMove
<1>7. ASSUME NEW p \in PayoutIds, NEW c \in Codes, ProviderStep(p, c)
      PROVE  RowsMove /\ TransferMoves /\ JobsOK' /\ MocksAreMocked'
  <2>1. RowsMove /\ TransferMoves /\ UNCHANGED requestVars
    BY <1>1, <1>7, StepOfSettle, StepOfEvent DEF ProviderStep
  <2> QED
    BY <1>2, <2>1 DEF RowsMove
<1>8. CASE UNCHANGED vars
  <2>1. UNCHANGED <<payout, account, book, transfer, heard>> /\ UNCHANGED requestVars
    BY <1>8 DEF vars, requestVars
  <2> QED
    BY <1>1, <1>2, <2>1, RowsUntouched, TransfersUntouched DEF RowsMove
<1> QED
  BY <1>4, <1>5, <1>6, <1>7, <1>8 DEF Next
-----------------------------------------------------------------------------
LEMMA InitIInv == Init => IInv
<1> SUFFICES ASSUME Init PROVE IInv
  OBVIOUS
<1>1. TypeOK
  BY TypeInit
<1>2. MoneyLeavesOnce
  BY DEF Init, MoneyLeavesOnce
<1>3. book.refs = {<<"elsewhere">>}
  <2>1. EmptyBook.balance \in [Holders -> Int] /\ EmptyBook.refs = {}
    BY DEF EmptyBook
  <2>2. "driver_payable" \in Holders /\ OwedElsewhere \in Int
    BY PayoutsAssumption DEF Holders, LedgerAccounts
  <2>3. Post(EmptyBook, <<"elsewhere">>, "driver_payable", OwedElsewhere).refs
          = {} \cup {<<"elsewhere">>}
    <3> DEFINE b == EmptyBook
               h == "driver_payable"
               a == OwedElsewhere
    <3>1. b.balance \in [Holders -> Int] /\ h \in Holders /\ a \in Int /\ b.refs = {}
      BY <2>1, <2>2
    <3> HIDE DEF b, h, a
    <3>2. Post(b, <<"elsewhere">>, h, a).refs = b.refs \cup {<<"elsewhere">>}
      BY <3>1, PostFacts
    <3> QED
      BY <3>1, <3>2 DEF b, h, a
  <2> QED
    BY <2>3 DEF Init
<1>4. PaidWasTransferred
  BY <1>3 DEF PaidWasTransferred, Posted, Ref
<1>5. MocksAreMocked
  BY DEF Init, MocksAreMocked
<1> QED
  BY <1>1, <1>2, <1>4, <1>5 DEF IInv

LEMMA NextIInv == IInv /\ [Next]_vars => IInv'
<1> SUFFICES ASSUME IInv, [Next]_vars PROVE IInv'
  OBVIOUS
<1>1. RowsMove /\ TransferMoves /\ JobsOK' /\ MocksAreMocked'
  BY StepFacts
<1>2. TypeOK'
  <2>1. faults' \in 0..MaxFaults /\ crashes' \in 0..MaxCrashes
    BY CountsStep DEF IInv
  <2> QED
    BY <1>1, <2>1 DEF TypeOK, RowsMove
<1>3. MoneyLeavesOnce'
  BY <1>1 DEF IInv, TransferMoves
<1>4. PaidWasTransferred'
  <2>1. ASSUME NEW p \in PayoutIds, Posted(p, "paid:wallet")'
        PROVE  payout'[p].mocked \/ \E c \in Codes : transfer'[p][c] = "success"
    <3>1. payout[p].mocked \/ \E c \in Codes : transfer[p][c] = "success"
      BY <1>1, <2>1 DEF RowsMove, PaidForATransfer, IInv, PaidWasTransferred
    <3> QED
      BY <1>1, <3>1 DEF RowsMove, MockedStays, TransferMoves, SuccessesStay
  <2> QED
    BY <2>1 DEF PaidWasTransferred
<1> QED
  BY <1>1, <1>2, <1>3, <1>4 DEF IInv

LEMMA Invariance == Spec => []IInv
BY InitIInv, NextIInv, PTL DEF Spec

(* The rows of payouts and accounts, Paystack's transfers and the books    *)
(* keep their types whatever the admins, the drivers and Paystack do.      *)
THEOREM TypeInvariant == Spec => []TypeOK
<1>1. IInv => TypeOK
  BY DEF IInv
<1> QED
  BY <1>1, Invariance, PTL

(* However often initiatePayoutTransfer and retryPayoutTransfer are called *)
(* for a payout, at once or one after the other, and whatever is lost or   *)
(* dies on the way, at most one transfer is pending or has succeeded.      *)
THEOREM MoneyLeavesAtMostOnce == Spec => []MoneyLeavesOnce
<1>1. IInv => MoneyLeavesOnce
  BY DEF IInv
<1> QED
  BY <1>1, Invariance, PTL

(* recordPayoutPaidLedger never takes a payout out of a driver's wallet    *)
(* for which no transfer has succeeded, unless transfers are mocked.       *)
THEOREM PaidPayoutsWereTransferred == Spec => []PaidWasTransferred
<1>1. IInv => PaidWasTransferred
  BY DEF IInv
<1> QED
  BY <1>1, Invariance, PTL
-----------------------------------------------------------------------------
(* The books.  A payout's earning is posted to the wallet and to driver    *)
(* payable together, and so is its payment.                                *)
PostedTogether ==
  \A p \in PayoutIds :
    /\ Posted(p, "earning") <=> Posted(p, "payable")
    /\ Posted(p, "paid:wallet") <=> Posted(p, "paid:driver-payable")

(* The payouts whose posting of a name is in a book, those of a driver,    *)
(* and what they amount to.                                                *)
PostedIn(b, name) == {p \in PayoutIds : Ref(p, name) \in b.refs}
OfDriver(d, S) == {p \in S : DriverOf[p] = d}
Total(S) == SumFunctionOnSet(Amount, S)

(* BooksFollowPayouts and PostedTogether of any book.                      *)
Owed(b) ==
  OwedElsewhere + Total(PostedIn(b, "earning"))
    - Total(PostedIn(b, "paid:wallet"))
    + Total(PostedIn(b, "failed:driver-payable"))

InWallet(b, d) ==
  Total(OfDriver(d, PostedIn(b, "earning")))
    - Total(OfDriver(d, PostedIn(b, "paid:wallet")))

Follows(b) ==
  /\ b.balance \in [Holders -> Int]
  /\ b.balance["driver_payable"] = Owed(b)
  /\ \A d \in Drivers : b.balance[d] = InWallet(b, d)
  /\ \A p \in PayoutIds :
       /\ Ref(p, "earning") \in b.refs <=> Ref(p, "payable") \in b.refs
       /\ Ref(p, "paid:wallet") \in b.refs
            <=> Ref(p, "paid:driver-payable") \in b.refs

LEMMA FollowsIsInvariant ==
  RowsOK => (Follows(book) <=> BooksFollowPayouts /\ PostedTogether)
BY DEF RowsOK, Follows, BooksFollowPayouts, PostedTogether, Owed, InWallet,
       PostedIn, OfDriver, Total, Posted

LEMMA TotalIsInt ==
  ASSUME NEW S \in SUBSET PayoutIds
  PROVE  Total(S) \in Int
<1>1. IsFiniteSet(S) /\ \A p \in S : Amount[p] \in Int
  BY PayoutsAssumption, FS_Subset
<1> QED
  BY <1>1, SumIsInt DEF Total

LEMMA TotalGrows ==
  ASSUME NEW S \in SUBSET PayoutIds, NEW p \in PayoutIds \ S
  PROVE  Total(S \cup {p}) = Total(S) + Amount[p]
<1>1. IsFiniteSet(S) /\ \A q \in S \cup {p} : Amount[q] \in Int
  BY PayoutsAssumption, FS_Subset
<1>2. Total(S \cup {p}) = Amount[p] + Total(S)
  BY <1>1, SumGrows DEF Total
<1>3. Total(S) \in Int /\ Amount[p] \in Int
  BY <1>1, TotalIsInt
<1> QED
  BY <1>2, <1>3

LEMMA TotalOfNone == Total({}) = 0
BY SumOfNone DEF Total

(* What a posting under one of the counted names adds to the totals.       *)
LEMMA PostedMore ==
  ASSUME NEW b, NEW c, NEW p \in PayoutIds, NEW name,
         \A q \in PayoutIds :
           Ref(q, name) \in c.refs <=> Ref(q, name) \in b.refs \/ q = p
  PROVE  /\ Total(PostedIn(c, name))
              = Total(PostedIn(b, name))
                + (IF Ref(p, name) \in b.refs THEN 0 ELSE Amount[p])
         /\ Total(OfDriver(DriverOf[p], PostedIn(c, name)))
              = Total(OfDriver(DriverOf[p], PostedIn(b, name)))
                + (IF Ref(p, name) \in b.refs THEN 0 ELSE Amount[p])
         /\ \A d \in Drivers \ {DriverOf[p]} :
              OfDriver(d, PostedIn(c, name)) = OfDriver(d, PostedIn(b, name))
<1> DEFINE S == PostedIn(b, name)
           D == OfDriver(DriverOf[p], S)
<1>1. S \in SUBSET PayoutIds /\ D \in SUBSET PayoutIds
  BY DEF PostedIn, OfDriver
<1>2. PostedIn(c, name) = S \cup {p}
  BY DEF PostedIn
<1>3. OfDriver(DriverOf[p], S \cup {p}) = D \cup {p}
  BY DEF OfDriver
<1>4. \A d \in Drivers \ {DriverOf[p]} : OfDriver(d, S \cup {p}) = OfDriver(d, S)
  BY DEF OfDriver
<1>5. (p \in S <=> Ref(p, name) \in b.refs) /\ (p \in D <=> p \in S)
  BY DEF PostedIn, OfDriver
<1> HIDE DEF S, D
<1>6. Total(S) \in Int /\ Total(D) \in Int
  BY <1>1, TotalIsInt
<1>7. Total(S \cup {p}) = Total(S) + (IF p \in S THEN 0 ELSE Amount[p])
  <2>1. CASE p \in S
    <3>1. Total(S \cup {p}) = Total(S)
      <4>1. S \cup {p} = S
        BY <2>1
      <4> QED
        BY <4>1
    <3>2. Total(S) = Total(S) + 0
      BY <1>6
    <3> QED
      BY <2>1, <3>1, <3>2
  <2>2. CASE p \notin S
    BY <1>1, <2>2, TotalGrows
  <2> QED
    BY <2>1, <2>2
<1>8. Total(D \cup {p}) = Total(D) + (IF p \in S THEN 0 ELSE Amount[p])
  <2>1. CASE p \in S
    <3>1. Total(D \cup {p}) = Total(D)
      <4>1. D \cup {p} = D
        BY <1>5, <2>1
      <4> QED
        BY <4>1
    <3>2. Total(D) = Total(D) + 0
      BY <1>6
    <3> QED
      BY <2>1, <3>1, <3>2
  <2>2. CASE p \notin S
    BY <1>1, <1>5, <2>2, TotalGrows
  <2> QED
    BY <2>1, <2>2
<1> QED
  BY <1>2, <1>3, <1>4, <1>5, <1>7, <1>8 DEF S, D

LEMMA PostedSame ==
  ASSUME NEW b, NEW c, NEW name,
         \A q \in PayoutIds :
           Ref(q, name) \in c.refs <=> Ref(q, name) \in b.refs
  PROVE  PostedIn(c, name) = PostedIn(b, name)
BY DEF PostedIn

(* References differ when their payouts or their names do, and none is the *)
(* one of what is owed elsewhere.                                          *)
LEMMA RefsDiffer ==
  ASSUME NEW p, NEW q, NEW n, NEW m, Ref(p, n) = Ref(q, m)
  PROVE  p = q /\ n = m
BY DEF Ref

LEMMA HoldersDiffer ==
  ASSUME NEW p \in PayoutIds
  PROVE  /\ DriverOf[p] \in Drivers
         /\ \A d \in Drivers : /\ d \in Holders
                              /\ d # "driver_payable"
                              /\ d # "payout_clearing"
BY PayoutsAssumption, DriversAssumption DEF Holders, LedgerAccounts

(* capturePaymentForTrip.                                                  *)
LEMMA FollowsEarning ==
  ASSUME NEW b, Follows(b), NEW p \in PayoutIds
  PROVE  Follows(EarningPostings(b, p))
<1> DEFINE a == Amount[p]
           new == Ref(p, "earning") \notin b.refs
           more == IF Ref(p, "earning") \in b.refs THEN 0 ELSE a
<1>1. PICK b1 : b1 = Post(b, Ref(p, "earning"), DriverOf[p], a)
  OBVIOUS
<1>2. PICK b2 : b2 = Post(b1, Ref(p, "payable"), "driver_payable", a)
  OBVIOUS
<1>3. PICK b3 : b3 = Post(b2, Ref(p, "pending"), "payout_clearing", a)
  OBVIOUS
<1>4. EarningPostings(b, p) = b3
  BY <1>1, <1>2, <1>3 DEF EarningPostings
<1>5. /\ a \in Int /\ a = Amount[p]
      /\ DriverOf[p] \in Holders /\ DriverOf[p] \in Drivers
      /\ "driver_payable" \in Holders /\ "payout_clearing" \in Holders
      /\ \A d \in Drivers : d \in Holders /\ d # "driver_payable"
                           /\ d # "payout_clearing"
  BY AmountsAndHolders, HoldersDiffer
<1> HIDE DEF a
<1>6. PostMoved(b, Ref(p, "earning"), DriverOf[p], a, b1)
  <2>1. b.balance \in [Holders -> Int]
    BY DEF Follows
  <2> QED
    BY <1>1, <1>5, <2>1, PostMoves
<1>7. PostMoved(b1, Ref(p, "payable"), "driver_payable", a, b2)
  <2>1. b1.balance \in [Holders -> Int]
    BY <1>6 DEF PostMoved
  <2> QED
    BY <1>2, <1>5, <2>1, PostMoves
<1>8. PostMoved(b2, Ref(p, "pending"), "payout_clearing", a, b3)
  <2>1. b2.balance \in [Holders -> Int]
    BY <1>7 DEF PostMoved
  <2> QED
    BY <1>3, <1>5, <2>1, PostMoves
<1>9. b3.refs = b.refs \cup
        {Ref(p, "earning"), Ref(p, "payable"), Ref(p, "pending")}
  BY <1>6, <1>7, <1>8 DEF PostMoved
<1>10. Ref(p, "payable") \in b1.refs <=> Ref(p, "earning") \in b.refs
  BY <1>6, RefsDiffer DEF PostMoved, Follows
<1>11. /\ b3.balance["driver_payable"] = b.balance["driver_payable"] + more
       /\ b3.balance[DriverOf[p]] = b.balance[DriverOf[p]] + more
       /\ \A d \in Drivers \ {DriverOf[p]} : b3.balance[d] = b.balance[d]
       /\ b3.balance \in [Holders -> Int]
  <2>1. /\ b1.balance["driver_payable"] = b.balance["driver_payable"]
        /\ b1.balance[DriverOf[p]] = b.balance[DriverOf[p]] + more
        /\ \A d \in Drivers \ {DriverOf[p]} : b1.balance[d] = b.balance[d]
    BY <1>5, <1>6 DEF PostMoved
  <2>2. /\ b2.balance["driver_payable"] = b1.balance["driver_payable"] + more
        /\ \A d \in Drivers : b2.balance[d] = b1.balance[d]
    BY <1>5, <1>7, <1>10 DEF PostMoved
  <2>3. /\ b3.balance["driver_payable"] = b2.balance["driver_payable"]
        /\ \A d \in Drivers : b3.balance[d] = b2.balance[d]
        /\ b3.balance \in [Holders -> Int]
    BY <1>5, <1>8 DEF PostMoved
  <2> HIDE DEF more
  <2> QED
    BY <1>5, <2>1, <2>2, <2>3
<1>12. /\ \A q \in PayoutIds :
            Ref(q, "earning") \in b3.refs <=> Ref(q, "earning") \in b.refs \/ q = p
       /\ \A q \in PayoutIds :
            Ref(q, "payable") \in b3.refs <=> Ref(q, "payable") \in b.refs \/ q = p
       /\ \A name \in {"paid:wallet", "paid:driver-payable",
                       "failed:driver-payable"}, q \in PayoutIds :
            Ref(q, name) \in b3.refs <=> Ref(q, name) \in b.refs
  BY <1>9, RefsDiffer
<1>13. b3.balance["driver_payable"] = Owed(b3)
  <2>1. Total(PostedIn(b3, "earning")) = Total(PostedIn(b, "earning")) + more
    <3>1. Total(PostedIn(b3, "earning"))
            = Total(PostedIn(b, "earning"))
              + (IF Ref(p, "earning") \in b.refs THEN 0 ELSE Amount[p])
      BY <1>12, PostedMore
    <3> QED
      BY <1>5, <3>1
  <2>2. /\ PostedIn(b3, "paid:wallet") = PostedIn(b, "paid:wallet")
        /\ PostedIn(b3, "failed:driver-payable")
             = PostedIn(b, "failed:driver-payable")
    BY <1>12, PostedSame
  <2>3. \A name : Total(PostedIn(b, name)) \in Int
    BY TotalIsInt DEF PostedIn
  <2>4. more \in Int
    BY <1>5
  <2>5. b.balance["driver_payable"] = Owed(b)
    BY DEF Follows
  <2>6. OwedElsewhere \in Int
    BY PayoutsAssumption
  <2> HIDE DEF more
  <2> QED
    BY <1>11, <2>1, <2>2, <2>3, <2>4, <2>5, <2>6 DEF Owed
<1>14. ASSUME NEW d \in Drivers
       PROVE  b3.balance[d] = InWallet(b3, d)
  <2>1. b.balance[d] = InWallet(b, d)
    BY DEF Follows
  <2>2. PostedIn(b3, "paid:wallet") = PostedIn(b, "paid:wallet")
    BY <1>12, PostedSame
  <2>3. CASE d = DriverOf[p]
    <3>1. Total(OfDriver(d, PostedIn(b3, "earning")))
            = Total(OfDriver(d, PostedIn(b, "earning"))) + more
      BY <1>5, <1>12, <2>3, PostedMore
    <3>2. /\ Total(OfDriver(d, PostedIn(b, "earning"))) \in Int
          /\ Total(OfDriver(d, PostedIn(b, "paid:wallet"))) \in Int
      BY TotalIsInt DEF PostedIn, OfDriver
    <3>3. more \in Int
      BY <1>5
    <3> HIDE DEF more
    <3> QED
      BY <1>11, <2>1, <2>2, <2>3, <3>1, <3>2, <3>3 DEF InWallet
  <2>4. CASE d # DriverOf[p]
    <3>1. OfDriver(d, PostedIn(b3, "earning"))
            = OfDriver(d, PostedIn(b, "earning"))
      BY <1>12, <2>4, PostedMore
    <3> QED
      BY <1>11, <2>1, <2>2, <2>4, <3>1 DEF InWallet
  <2> QED
    BY <2>3, <2>4
<1> QED
  BY <1>4, <1>11, <1>12, <1>13, <1>14 DEF Follows

(* recordPayoutPaidLedger.                                                 *)
LEMMA FollowsPaid ==
  ASSUME NEW b, Follows(b), NEW p \in PayoutIds
  PROVE  Follows(PaidPostings(b, p))
<1> DEFINE a == -Amount[p]
           more == IF Ref(p, "paid:wallet") \in b.refs THEN 0 ELSE Amount[p]
<1>1. PICK b1 : b1 = Post(b, Ref(p, "paid:wallet"), DriverOf[p], a)
  OBVIOUS
<1>2. PICK b2 : b2 = Post(b1, Ref(p, "paid:driver-payable"), "driver_payable", a)
  OBVIOUS
<1>3. PICK b3 : b3 = Post(b2, Ref(p, "paid:clearing"), "payout_clearing", Amount[p])
  OBVIOUS
<1>4. PaidPostings(b, p) = b3
  BY <1>1, <1>2, <1>3 DEF PaidPostings
<1>5. /\ a \in Int /\ a = -Amount[p] /\ Amount[p] \in Int
      /\ DriverOf[p] \in Holders /\ DriverOf[p] \in Drivers
      /\ "driver_payable" \in Holders /\ "payout_clearing" \in Holders
      /\ \A d \in Drivers : d \in Holders /\ d # "driver_payable"
                           /\ d # "payout_clearing"
  BY AmountsAndHolders, HoldersDiffer
<1> HIDE DEF a
<1>6. PostMoved(b, Ref(p, "paid:wallet"), DriverOf[p], a, b1)
  <2>1. b.balance \in [Holders -> Int]
    BY DEF Follows
  <2> QED
    BY <1>1, <1>5, <2>1, PostMoves
<1>7. PostMoved(b1, Ref(p, "paid:driver-payable"), "driver_payable", a, b2)
  <2>1. b1.balance \in [Holders -> Int]
    BY <1>6 DEF PostMoved
  <2> QED
    BY <1>2, <1>5, <2>1, PostMoves
<1>8. PostMoved(b2, Ref(p, "paid:clearing"), "payout_clearing", Amount[p], b3)
  <2>1. b2.balance \in [Holders -> Int]
    BY <1>7 DEF PostMoved
  <2> QED
    BY <1>3, <1>5, <2>1, PostMoves
<1>9. b3.refs = b.refs \cup {Ref(p, "paid:wallet"),
                             Ref(p, "paid:driver-payable"),
                             Ref(p, "paid:clearing")}
  BY <1>6, <1>7, <1>8 DEF PostMoved
<1>10. Ref(p, "paid:driver-payable") \in b1.refs
         <=> Ref(p, "paid:wallet") \in b.refs
  BY <1>6, RefsDiffer DEF PostMoved, Follows
<1>11. /\ b3.balance["driver_payable"] = b.balance["driver_payable"] - more
       /\ b3.balance[DriverOf[p]] = b.balance[DriverOf[p]] - more
       /\ \A d \in Drivers \ {DriverOf[p]} : b3.balance[d] = b.balance[d]
       /\ b3.balance \in [Holders -> Int]
  <2>0. \A h \in Holders : b.balance[h] \in Int
    BY DEF Follows
  <2>1. /\ b1.balance["driver_payable"] = b.balance["driver_payable"]
        /\ b1.balance[DriverOf[p]] = b.balance[DriverOf[p]] - more
        /\ \A d \in Drivers \ {DriverOf[p]} : b1.balance[d] = b.balance[d]
    BY <1>5, <1>6, <2>0 DEF PostMoved
  <2>2. /\ b2.balance["driver_payable"] = b1.balance["driver_payable"] - more
        /\ \A d \in Drivers : b2.balance[d] = b1.balance[d]
    BY <1>5, <1>7, <1>10, <2>0, <2>1 DEF PostMoved
  <2>3. /\ b3.balance["driver_payable"] = b2.balance["driver_payable"]
        /\ \A d \in Drivers : b3.balance[d] = b2.balance[d]
        /\ b3.balance \in [Holders -> Int]
    BY <1>5, <1>8 DEF PostMoved
  <2> HIDE DEF more
  <2> QED
    BY <1>5, <2>1, <2>2, <2>3
<1>12. /\ \A q \in PayoutIds :
            Ref(q, "paid:wallet") \in b3.refs
              <=> Ref(q, "paid:wallet") \in b.refs \/ q = p
       /\ \A q \in PayoutIds :
            Ref(q, "paid:driver-payable") \in b3.refs
              <=> Ref(q, "paid:driver-payable") \in b.refs \/ q = p
       /\ \A name \in {"earning", "payable", "failed:driver-payable"},
             q \in PayoutIds :
            Ref(q, name) \in b3.refs <=> Ref(q, name) \in b.refs
  BY <1>9, RefsDiffer
<1>13. b3.balance["driver_payable"] = Owed(b3)
  <2>1. Total(PostedIn(b3, "paid:wallet"))
          = Total(PostedIn(b, "paid:wallet")) + more
    BY <1>12, PostedMore
  <2>2. /\ PostedIn(b3, "earning") = PostedIn(b, "earning")
        /\ PostedIn(b3, "failed:driver-payable")
             = PostedIn(b, "failed:driver-payable")
    BY <1>12, PostedSame
  <2>3. \A name : Total(PostedIn(b, name)) \in Int
    BY TotalIsInt DEF PostedIn
  <2>4. more \in Int
    BY <1>5
  <2>5. b.balance["driver_payable"] = Owed(b)
    BY DEF Follows
  <2>6. OwedElsewhere \in Int
    BY PayoutsAssumption
  <2> HIDE DEF more
  <2> QED
    BY <1>11, <2>1, <2>2, <2>3, <2>4, <2>5, <2>6 DEF Owed
<1>14. ASSUME NEW d \in Drivers
       PROVE  b3.balance[d] = InWallet(b3, d)
  <2>1. b.balance[d] = InWallet(b, d)
    BY DEF Follows
  <2>2. PostedIn(b3, "earning") = PostedIn(b, "earning")
    BY <1>12, PostedSame
  <2>3. CASE d = DriverOf[p]
    <3>1. Total(OfDriver(d, PostedIn(b3, "paid:wallet")))
            = Total(OfDriver(d, PostedIn(b, "paid:wallet"))) + more
      BY <1>12, <2>3, PostedMore
    <3>2. /\ Total(OfDriver(d, PostedIn(b, "earning"))) \in Int
          /\ Total(OfDriver(d, PostedIn(b, "paid:wallet"))) \in Int
      BY TotalIsInt DEF PostedIn, OfDriver
    <3>3. more \in Int
      BY <1>5
    <3> HIDE DEF more
    <3> QED
      BY <1>11, <2>1, <2>2, <2>3, <3>1, <3>2, <3>3 DEF InWallet
  <2>4. CASE d # DriverOf[p]
    <3>1. OfDriver(d, PostedIn(b3, "paid:wallet"))
            = OfDriver(d, PostedIn(b, "paid:wallet"))
      BY <1>12, <2>4, PostedMore
    <3> QED
      BY <1>11, <2>1, <2>2, <2>4, <3>1 DEF InWallet
  <2> QED
    BY <2>3, <2>4
<1> QED
  BY <1>4, <1>11, <1>12, <1>13, <1>14 DEF Follows

(* markPayoutFailed of section 17.                                         *)
LEMMA FollowsFailed ==
  ASSUME NEW b, Follows(b), NEW p \in PayoutIds
  PROVE  Follows(FailurePostings(b, p))
<1> DEFINE n == "failed:driver-payable"
           more == IF Ref(p, n) \in b.refs THEN 0 ELSE Amount[p]
<1>1. PICK b1 : b1 = Post(b, Ref(p, n), "driver_payable", Amount[p])
  OBVIOUS
<1>2. PICK b2 : b2 = Post(b1, Ref(p, "failed:payout-clearing"),
                          "payout_clearing", -Amount[p])
  OBVIOUS
<1>3. FailurePostings(b, p) = b2
  BY <1>1, <1>2 DEF FailurePostings
<1>4. /\ Amount[p] \in Int /\ -Amount[p] \in Int
      /\ "driver_payable" \in Holders /\ "payout_clearing" \in Holders
      /\ \A d \in Drivers : d \in Holders /\ d # "driver_payable"
                           /\ d # "payout_clearing"
  BY AmountsAndHolders, HoldersDiffer
<1>5. PostMoved(b, Ref(p, n), "driver_payable", Amount[p], b1)
  <2>1. b.balance \in [Holders -> Int]
    BY DEF Follows
  <2> QED
    BY <1>1, <1>4, <2>1, PostMoves
<1>6. PostMoved(b1, Ref(p, "failed:payout-clearing"), "payout_clearing",
                -Amount[p], b2)
  <2>1. b1.balance \in [Holders -> Int]
    BY <1>5 DEF PostMoved
  <2> QED
    BY <1>2, <1>4, <2>1, PostMoves
<1>7. b2.refs = b.refs \cup {Ref(p, n), Ref(p, "failed:payout-clearing")}
  BY <1>5, <1>6 DEF PostMoved
<1>8. /\ b2.balance["driver_payable"] = b.balance["driver_payable"] + more
      /\ \A d \in Drivers : b2.balance[d] = b.balance[d]
      /\ b2.balance \in [Holders -> Int]
  BY <1>4, <1>5, <1>6 DEF PostMoved
<1>9. /\ \A q \in PayoutIds : Ref(q, n) \in b2.refs <=> Ref(q, n) \in b.refs \/ q = p
      /\ \A name \in {"earning", "payable", "paid:wallet",
                      "paid:driver-payable"}, q \in PayoutIds :
           Ref(q, name) \in b2.refs <=> Ref(q, name) \in b.refs
  BY <1>7, RefsDiffer
<1>10. /\ PostedIn(b2, "earning") = PostedIn(b, "earning")
       /\ PostedIn(b2, "paid:wallet") = PostedIn(b, "paid:wallet")
  BY <1>9, PostedSame
<1>11. b2.balance["driver_payable"] = Owed(b2)
  <2>1. Total(PostedIn(b2, n)) = Total(PostedIn(b, n)) + more
    BY <1>9, PostedMore
  <2>2. \A name : Total(PostedIn(b, name)) \in Int
    BY TotalIsInt DEF PostedIn
  <2>3. more \in Int
    BY <1>4
  <2>4. b.balance["driver_payable"] = Owed(b)
    BY DEF Follows
  <2>5. OwedElsewhere \in Int
    BY PayoutsAssumption
  <2> HIDE DEF more
  <2> QED
    BY <1>8, <1>10, <2>1, <2>2, <2>3, <2>4, <2>5 DEF Owed
<1>12. \A d \in Drivers : b2.balance[d] = InWallet(b2, d)
  BY <1>8, <1>10 DEF InWallet, Follows
<1> QED
  BY <1>3, <1>8, <1>9, <1>11, <1>12 DEF Follows

(* approvePayout: it only commits when its entry balances, and then the    *)
(* amount is nothing.                                                      *)
LEMMA FollowsApproved ==
  ASSUME NEW b, Follows(b), NEW p \in PayoutIds, ApprovalBalances(p)
  PROVE  Follows(ApprovalPostings(b, p))
<1> DEFINE a == -Amount[p]
<1>1. PICK b1 : b1 = Post(b, Ref(p, "approved:driver-payable"), "driver_payable", a)
  OBVIOUS
<1>2. PICK b2 : b2 = Post(b1, Ref(p, "approved:payout-clearing"),
                          "payout_clearing", Amount[p])
  OBVIOUS
<1>3. ApprovalPostings(b, p) = b2
  BY <1>1, <1>2 DEF ApprovalPostings
<1>4. /\ Amount[p] \in Int /\ a = 0 /\ a \in Int
      /\ "driver_payable" \in Holders /\ "payout_clearing" \in Holders
      /\ \A d \in Drivers : d \in Holders /\ d # "driver_payable"
                           /\ d # "payout_clearing"
  BY AmountsAndHolders, HoldersDiffer DEF ApprovalBalances
<1> HIDE DEF a
<1>5. PostMoved(b, Ref(p, "approved:driver-payable"), "driver_payable", a, b1)
  <2>1. b.balance \in [Holders -> Int]
    BY DEF Follows
  <2> QED
    BY <1>1, <1>4, <2>1, PostMoves
<1>6. PostMoved(b1, Ref(p, "approved:payout-clearing"), "payout_clearing",
                Amount[p], b2)
  <2>1. b1.balance \in [Holders -> Int]
    BY <1>5 DEF PostMoved
  <2> QED
    BY <1>2, <1>4, <2>1, PostMoves
<1>7. b2.refs = b.refs \cup {Ref(p, "approved:driver-payable"),
                             Ref(p, "approved:payout-clearing")}
  BY <1>5, <1>6 DEF PostMoved
<1>8. \A h \in Holders : b.balance[h] \in Int
  BY DEF Follows
<1>9. /\ b2.balance["driver_payable"] = b.balance["driver_payable"]
      /\ \A d \in Drivers : b2.balance[d] = b.balance[d]
      /\ b2.balance \in [Holders -> Int]
  BY <1>4, <1>5, <1>6, <1>8 DEF PostMoved
<1>10. \A name \in {"earning", "payable", "paid:wallet", "paid:driver-payable",
                    "failed:driver-payable"}, q \in PayoutIds :
         Ref(q, name) \in b2.refs <=> Ref(q, name) \in b.refs
  BY <1>7, RefsDiffer
<1>11. /\ PostedIn(b2, "earning") = PostedIn(b, "earning")
       /\ PostedIn(b2, "paid:wallet") = PostedIn(b, "paid:wallet")
       /\ PostedIn(b2, "failed:driver-payable")
            = PostedIn(b, "failed:driver-payable")
  BY <1>10, PostedSame
<1> QED
  BY <1>3, <1>9, <1>10, <1>11 DEF Follows, Owed, InWallet

(* Only a capture, a review, a mock payment and a transfer's event post.   *)
LEMMA FollowsStep ==
  ASSUME TypeOK, Follows(book), [Next]_vars
  PROVE  Follows(book')
<1>1. CASE book' = book
  BY <1>1
<1>2. CASE \E p \in PayoutIds : Earn(p)
  BY <1>2, FollowsEarning DEF Earn
<1>3. ASSUME NEW r \in Requests, WriteReview(r)
      PROVE  Follows(book')
  <2> DEFINE p == job[r].payout
             op == job[r].op
  <2>1. p \in PayoutIds
    BY <1>3, AtWork DEF WriteReview, TypeOK
  <2>2. \/ book' = book
        \/ /\ op = "approve-section17" => ApprovalBalances(p)
           /\ book' = ReviewPostings(book, op, p)
    BY <1>3 DEF WriteReview
  <2> HIDE DEF p, op
  <2>3. CASE book' = ReviewPostings(book, op, p) /\ op = "approve-section17"
             /\ ApprovalBalances(p)
    BY <2>1, <2>3, FollowsApproved DEF ReviewPostings
  <2>4. CASE book' = ReviewPostings(book, op, p) /\ op = "failed"
    BY <2>1, <2>4, FollowsFailed DEF ReviewPostings
  <2>5. CASE book' = ReviewPostings(book, op, p)
             /\ op \notin {"approve-section17", "failed"}
    BY <2>5 DEF ReviewPostings
  <2> QED
    BY <1>1, <2>2, <2>3, <2>4, <2>5
<1>4. ASSUME NEW r \in Requests, MarkMockPayoutPaid(r)
      PROVE  Follows(book')
  <2>1. job[r].payout \in PayoutIds
    BY <1>4, AtWork DEF MarkMockPayoutPaid, TypeOK
  <2>2. book' \in {book, PaidPostings(book, job[r].payout)}
    BY <1>4 DEF MarkMockPayoutPaid
  <2> QED
    BY <2>1, <2>2, FollowsPaid
<1>5. ASSUME NEW p \in PayoutIds, NEW c \in Codes, HandleTransferEvent(p, c)
      PROVE  Follows(book')
  <2>1. book' \in {book, PaidPostings(book, p)}
    BY <1>5 DEF HandleTransferEvent
  <2> QED
    BY <2>1, FollowsPaid
<1>6. CASE OriginStep
  BY <1>1, <1>2, <1>6 DEF OriginStep, AddPayoutAccount, SaveDriverBankAccount,
                          CooldownEnds
<1>7. ASSUME NEW r \in Requests, NEW p \in PayoutIds, StartStep(r, p)
      PROVE  book' = book
  BY <1>7 DEF StartStep, RequestPayout, Review, ApprovePayout,
              RetryPayoutTransfer
<1>8. ASSUME NEW r \in Requests, RequestStep(r)
      PROVE  Follows(book')
  BY <1>1, <1>3, <1>4, <1>8
     DEF RequestStep, CreateRequest, ResetForRetry, InitiateTransfer,
         PaystackAccepts, PaystackRefuses, ClaimTransfer, ReportRetry,
         UndoRetry, DatabaseThrows, RequestDies
<1>9. ASSUME NEW p \in PayoutIds, NEW c \in Codes, ProviderStep(p, c)
      PROVE  Follows(book')
  BY <1>1, <1>5, <1>9 DEF ProviderStep, PaystackSettles
<1> QED
  BY <1>1, <1>6, <1>7, <1>8, <1>9 DEF Next, vars

LEMMA FollowsInit == Init => Follows(book)
<1> SUFFICES ASSUME Init PROVE Follows(book)
  OBVIOUS
<1> DEFINE h == "driver_payable"
           e == EmptyBook
<1>1. /\ e.balance \in [Holders -> Int] /\ e.refs = {}
      /\ \A k \in Holders : e.balance[k] = 0
  BY DEF EmptyBook
<1>2. h \in Holders /\ OwedElsewhere \in Int
  BY PayoutsAssumption DEF Holders, LedgerAccounts
<1>3. \A d \in Drivers : d \in Holders /\ d # h
  BY DriversAssumption DEF Holders, LedgerAccounts
<1>4. book = Post(e, <<"elsewhere">>, h, OwedElsewhere)
  BY DEF Init
<1> HIDE DEF h, e
<1>5. PostMoved(e, <<"elsewhere">>, h, OwedElsewhere, book)
  BY <1>1, <1>2, <1>4, PostMoves
<1>6. /\ book.refs = {<<"elsewhere">>}
      /\ book.balance \in [Holders -> Int]
      /\ book.balance[h] = OwedElsewhere
      /\ \A d \in Drivers : book.balance[d] = 0
  BY <1>1, <1>2, <1>3, <1>5 DEF PostMoved
<1>7. \A p \in PayoutIds : \A name : Ref(p, name) \notin book.refs
  BY <1>6 DEF Ref
<1>8. /\ \A name : PostedIn(book, name) = {}
      /\ \A name, d : OfDriver(d, PostedIn(book, name)) = {}
  BY <1>7 DEF PostedIn, OfDriver
<1>9. book.balance[h] = Owed(book)
  <2>1. Owed(book) = OwedElsewhere + Total({}) - Total({}) + Total({})
    BY <1>8 DEF Owed
  <2> QED
    BY <1>2, <1>6, <2>1, TotalOfNone
<1>10. \A d \in Drivers : book.balance[d] = InWallet(book, d)
  <2>1. \A d \in Drivers : InWallet(book, d) = Total({}) - Total({})
    BY <1>8 DEF InWallet
  <2> QED
    BY <1>6, <2>1, TotalOfNone
<1> QED
  BY <1>6, <1>7, <1>9, <1>10 DEF Follows, h

(* What is owed to all drivers is what they earned less what was paid plus *)
(* what a failed payout gave back, and a wallet is what its driver earned  *)
(* less what was paid: through overlapping reviews, retries, redelivered   *)
(* events, exceptions and deaths.                                          *)
THEOREM TheBooksFollowPayouts == Spec => []BooksFollowPayouts
<1>1. Init => Follows(book)
  BY FollowsInit
<1>2. TypeOK /\ Follows(book) /\ [Next]_vars => Follows(book)'
  BY FollowsStep
<1>3. TypeOK /\ Follows(book) => BooksFollowPayouts
  BY FollowsIsInvariant DEF TypeOK
<1> QED
  BY <1>1, <1>2, <1>3, TypeInvariant, PTL DEF Spec
-----------------------------------------------------------------------------
(* Payouts implements Settlement.                                          *)

(* What a step does to the payouts that are transferred and to those that  *)
(* are posted as paid: it may add one payout to one of the two sets.       *)
OneMore(S, T) == \E p \in PayoutIds : T = S \cup {p}

PromiseFacts == /\ Transferred' = Transferred \/ OneMore(Transferred, Transferred')
                /\ PaidOut' = PaidOut \/ OneMore(PaidOut, PaidOut')
                /\ Transferred' = Transferred \/ PaidOut' = PaidOut

LEMMA SameTransfers ==
  ASSUME MockedStays, UNCHANGED transfer
  PROVE  Transferred' = Transferred
BY DEF MockedStays, Transferred

LEMMA TransfersOfOne ==
  ASSUME MockedStays, SuccessesStay, NEW p \in PayoutIds,
         \A q \in PayoutIds \ {p} : transfer'[q] = transfer[q]
  PROVE  Transferred' = Transferred \/ OneMore(Transferred, Transferred')
<1>1. \A q \in PayoutIds \ {p} : q \in Transferred' <=> q \in Transferred
  BY DEF MockedStays, Transferred
<1>2. p \in Transferred => p \in Transferred'
  BY DEF MockedStays, SuccessesStay, Transferred
<1>3. Transferred' = Transferred \/ Transferred' = Transferred \cup {p}
  BY <1>1, <1>2 DEF Transferred
<1> QED
  BY <1>3 DEF OneMore

LEMMA PaidOfOne ==
  ASSUME RowsOK, NEW p \in PayoutIds, book' = PaidPostings(book, p)
  PROVE  OneMore(PaidOut, PaidOut')
<1>1. book'.refs = book.refs \cup {Ref(p, "paid:wallet"),
                     Ref(p, "paid:driver-payable"), Ref(p, "paid:clearing")}
  BY PaidFacts DEF RowsOK
<1>2. \A q \in PayoutIds :
        Posted(q, "paid:wallet")' <=> Posted(q, "paid:wallet") \/ q = p
  BY <1>1, PaidAlone DEF Posted
<1>3. PaidOut' = PaidOut \cup {p}
  BY <1>2 DEF PaidOut
<1> QED
  BY <1>3 DEF OneMore

(* An earning and a review post nothing as paid, and take nothing back.    *)
LEMMA ReviewKeeps ==
  ASSUME NEW b, b.balance \in [Holders -> Int], NEW p \in PayoutIds, NEW op
  PROVE  b.refs \subseteq ReviewPostings(b, op, p).refs
<1>1. ASSUME NEW n, NEW m, NEW x \in Int, NEW y \in Int
      PROVE  b.refs \subseteq Post(Post(b, n, "driver_payable", x),
                                   m, "payout_clearing", y).refs
  <2>1. "driver_payable" \in Holders /\ "payout_clearing" \in Holders
    BY AmountsAndHolders
  <2> DEFINE c == Post(b, n, "driver_payable", x)
  <2>2. c.refs = b.refs \cup {n} /\ c.balance \in [Holders -> Int]
    BY <2>1, PostFacts
  <2> HIDE DEF c
  <2>3. Post(c, m, "payout_clearing", y).refs = c.refs \cup {m}
    BY <2>1, <2>2, PostFacts
  <2> QED
    BY <2>2, <2>3 DEF c
<1>2. Amount[p] \in Int /\ -Amount[p] \in Int
  BY AmountsAndHolders
<1> QED
  BY <1>1, <1>2 DEF ReviewPostings, ApprovalPostings, FailurePostings

LEMMA NoneMorePaid ==
  ASSUME RowsOK, NEW p \in PayoutIds, NEW op,
         \/ book' = book
         \/ book' = EarningPostings(book, p)
         \/ book' = ReviewPostings(book, op, p)
  PROVE  PaidOut' = PaidOut
<1>1. book.balance \in [Holders -> Int]
  BY DEF RowsOK
<1> DEFINE names == {"earning", "payable", "pending", "approved:driver-payable",
                     "approved:payout-clearing", "failed:driver-payable",
                     "failed:payout-clearing"}
<1>2. /\ book.refs \subseteq book'.refs
      /\ book'.refs \subseteq book.refs \cup {Ref(p, name) : name \in names}
  <2>1. CASE book' = book
    BY <2>1
  <2>2. CASE book' = EarningPostings(book, p)
    <3>1. book'.refs = book.refs \cup {Ref(p, "earning"), Ref(p, "payable"),
                                       Ref(p, "pending")}
      BY <1>1, <2>2, EarningFacts
    <3> QED
      BY <3>1
  <2>3. CASE book' = ReviewPostings(book, op, p)
    <3>1. book'.refs \subseteq
            book.refs \cup {Ref(p, "approved:driver-payable"),
                            Ref(p, "approved:payout-clearing"),
                            Ref(p, "failed:driver-payable"),
                            Ref(p, "failed:payout-clearing")}
      BY <1>1, <2>3, ReviewFacts
    <3>2. book.refs \subseteq book'.refs
      BY <1>1, <2>3, ReviewKeeps
    <3> QED
      BY <3>1, <3>2
  <2> QED
    BY <2>1, <2>2, <2>3
<1>3. \A q \in PayoutIds :
        Ref(q, "paid:wallet") \in book'.refs => Ref(q, "paid:wallet") \in book.refs
  BY <1>2, NotPaid
<1> QED
  BY <1>2, <1>3 DEF PaidOut, Posted

LEMMA PromiseByStep ==
  ASSUME IInv, [Next]_vars
  PROVE  PromiseFacts
<1>1. RowsOK /\ JobsOK /\ MockedStays /\ SuccessesStay
  BY StepFacts DEF IInv, TypeOK, RowsMove, TransferMoves
<1>2. ASSUME UNCHANGED transfer, PaidOut' = PaidOut \/ OneMore(PaidOut, PaidOut')
      PROVE  PromiseFacts
  BY <1>1, <1>2, SameTransfers DEF PromiseFacts
<1>3. ASSUME UNCHANGED <<transfer, book>>
      PROVE  PromiseFacts
  BY <1>2, <1>3 DEF PaidOut, Posted
<1>4. ASSUME NEW p \in PayoutIds, UNCHANGED book,
             \A q \in PayoutIds \ {p} : transfer'[q] = transfer[q]
      PROVE  PromiseFacts
  <2>1. PaidOut' = PaidOut
    BY <1>4 DEF PaidOut, Posted
  <2> QED
    BY <1>1, <1>4, <2>1, TransfersOfOne DEF PromiseFacts
<1>5. CASE OriginStep
  <2>1. ASSUME NEW p \in PayoutIds, Earn(p)
        PROVE  PromiseFacts
    BY <1>1, <1>2, <2>1, NoneMorePaid DEF Earn
  <2> QED
    BY <1>3, <1>5, <2>1
       DEF OriginStep, AddPayoutAccount, SaveDriverBankAccount, CooldownEnds
<1>6. ASSUME NEW r \in Requests, NEW p \in PayoutIds, StartStep(r, p)
      PROVE  PromiseFacts
  BY <1>3, <1>6 DEF StartStep, RequestPayout, Review, ApprovePayout,
                    RetryPayoutTransfer
<1>7. ASSUME NEW r \in Requests, RequestStep(r)
      PROVE  PromiseFacts
  <2>1. pc[r] # "idle" => job[r].payout \in PayoutIds
    BY <1>1, AtWork
  <2>2. CASE WriteReview(r)
    <3>1. PICK p : p = job[r].payout
      OBVIOUS
    <3>2. PICK op : op = job[r].op
      OBVIOUS
    <3>3. /\ p \in PayoutIds /\ UNCHANGED transfer
          /\ book' = book \/ book' = ReviewPostings(book, op, p)
      BY <2>1, <2>2, <3>1, <3>2 DEF WriteReview
    <3> QED
      BY <1>1, <1>2, <3>3, NoneMorePaid
  <2>3. CASE MarkMockPayoutPaid(r)
    <3>1. PICK p : p = job[r].payout
      OBVIOUS
    <3>2. /\ p \in PayoutIds /\ UNCHANGED transfer
          /\ book' = book \/ book' = PaidPostings(book, p)
      BY <2>1, <2>3, <3>1 DEF MarkMockPayoutPaid
    <3> QED
      BY <1>1, <1>2, <1>3, <3>2, PaidOfOne
  <2>4. CASE PaystackAccepts(r)
    <3>1. PICK p : p = job[r].payout
      OBVIOUS
    <3>2. /\ p \in PayoutIds /\ UNCHANGED book
          /\ transfer' = [transfer EXCEPT ![p][NextCode(p)] = "pending"]
      BY <2>1, <2>4, <3>1 DEF PaystackAccepts
    <3>3. \A q \in PayoutIds \ {p} : transfer'[q] = transfer[q]
      BY <1>1, <3>2 DEF RowsOK
    <3> QED
      BY <1>4, <3>2, <3>3
  <2>5. CASE UNCHANGED <<transfer, book>>
    BY <1>3, <2>5
  <2> QED
    BY <1>7, <2>2, <2>3, <2>4, <2>5
       DEF RequestStep, CreateRequest, ResetForRetry, InitiateTransfer,
           PaystackRefuses, ClaimTransfer, ReportRetry, UndoRetry,
           DatabaseThrows, RequestDies
<1>8. ASSUME NEW p \in PayoutIds, NEW c \in Codes, ProviderStep(p, c)
      PROVE  PromiseFacts
  <2>1. ASSUME NEW outcome \in {"success", "failed"},
               PaystackSettles(p, c, outcome)
        PROVE  PromiseFacts
    <3>1. /\ transfer' = [transfer EXCEPT ![p][c] = outcome]
          /\ UNCHANGED book
      BY <2>1 DEF PaystackSettles
    <3>2. \A q \in PayoutIds \ {p} : transfer'[q] = transfer[q]
      BY <1>1, <3>1 DEF RowsOK
    <3> QED
      BY <1>4, <3>1, <3>2
  <2>2. CASE HandleTransferEvent(p, c)
    <3>1. /\ UNCHANGED transfer
          /\ book' = book \/ book' = PaidPostings(book, p)
      BY <2>2 DEF HandleTransferEvent
    <3> QED
      BY <1>1, <1>2, <1>3, <3>1, PaidOfOne
  <2> QED
    BY <1>8, <2>1, <2>2 DEF ProviderStep
<1>9. CASE UNCHANGED vars
  BY <1>3, <1>9 DEF vars
<1> QED
  BY <1>5, <1>6, <1>7, <1>8, <1>9 DEF Next

(* What has been paid was transferred, and is what payments have taken     *)
(* from what is owed to drivers.                                           *)
Reckoned ==
  /\ PaidOut \subseteq Transferred
  /\ TakenFromPayable = Total(PaidOut)

LEMMA TakenIsPaid ==
  ASSUME Follows(book)
  PROVE  TakenFromPayable = Total(PaidOut)
<1>1. /\ TakenFromPayable
           = OwedElsewhere + Total(PostedIn(book, "earning"))
             + Total(PostedIn(book, "failed:driver-payable"))
             - book.balance["driver_payable"]
      /\ PaidOut = PostedIn(book, "paid:wallet")
  BY DEF TakenFromPayable, PaidOut, Total, PostedIn, Posted
<1>2. book.balance["driver_payable"] = Owed(book)
  BY DEF Follows
<1>3. \A name : Total(PostedIn(book, name)) \in Int
  BY TotalIsInt DEF PostedIn
<1> QED
  BY <1>1, <1>2, <1>3, PayoutsAssumption DEF Owed

LEMMA PromiseState ==
  ASSUME IInv, Follows(book)
  PROVE  Reckoned
<1>1. PaidOut \subseteq Transferred
  BY DEF IInv, PaidWasTransferred, PaidOut, Transferred
<1> QED
  BY <1>1, TakenIsPaid DEF Reckoned

LEMMA PromiseStep ==
  ASSUME IInv, Reckoned, Reckoned', [Next]_vars
  PROVE  [Promise!Next]_<<Transferred, PaidOut, TakenFromPayable>>
<1>1. PromiseFacts
  BY PromiseByStep
<1>2. /\ PaidOut \subseteq Transferred /\ PaidOut' \subseteq Transferred'
      /\ TakenFromPayable = Total(PaidOut)
      /\ TakenFromPayable' = Total(PaidOut')
  BY DEF Reckoned, Total
<1>3. CASE Transferred' = Transferred /\ PaidOut' = PaidOut
  BY <1>2, <1>3
<1>4. ASSUME NEW p \in PayoutIds, p \notin Transferred,
             Transferred' = Transferred \cup {p}, PaidOut' = PaidOut
      PROVE  Promise!Next
  BY <1>2, <1>4 DEF Promise!Next, Promise!Settle
<1>5. ASSUME NEW p \in PayoutIds, p \notin PaidOut, Transferred' = Transferred,
             PaidOut' = PaidOut \cup {p}
      PROVE  Promise!Next
  <2>1. TakenFromPayable' = TakenFromPayable + Amount[p]
    <3>1. PaidOut \in SUBSET PayoutIds
      BY DEF PaidOut
    <3>2. Total(PaidOut \cup {p}) = Total(PaidOut) + Amount[p]
      BY <1>5, <3>1, TotalGrows
    <3> QED
      BY <1>2, <1>5, <3>2
  <2> QED
    BY <1>2, <1>5, <2>1 DEF Promise!Next, Promise!Enter
<1>6. CASE Transferred' = Transferred /\ OneMore(PaidOut, PaidOut')
  BY <1>3, <1>5, <1>6 DEF OneMore
<1>7. CASE PaidOut' = PaidOut /\ OneMore(Transferred, Transferred')
  BY <1>3, <1>4, <1>7 DEF OneMore
<1> QED
  BY <1>1, <1>3, <1>6, <1>7 DEF PromiseFacts

LEMMA PromiseInit ==
  ASSUME Init PROVE Promise!Init
<1>1. Transferred \subseteq PayoutIds
  BY DEF Transferred
<1>2. PaidOut = {}
  <2>1. EmptyBook.balance \in [Holders -> Int] /\ EmptyBook.refs = {}
    BY DEF EmptyBook
  <2> DEFINE b == EmptyBook
             h == "driver_payable"
             a == OwedElsewhere
  <2>2. b.balance \in [Holders -> Int] /\ h \in Holders /\ a \in Int /\ b.refs = {}
    BY <2>1, PayoutsAssumption DEF Holders, LedgerAccounts
  <2>3. book = Post(b, <<"elsewhere">>, h, a)
    BY DEF Init
  <2> HIDE DEF b, h, a
  <2>4. book.refs = b.refs \cup {<<"elsewhere">>}
    BY <2>2, <2>3, PostFacts
  <2> QED
    BY <2>2, <2>4 DEF PaidOut, Posted, Ref
<1>3. TakenFromPayable = 0
  BY <1>2, FollowsInit, TakenIsPaid, TotalOfNone
<1> QED
  BY <1>1, <1>2, <1>3 DEF Promise!Init

(* The payment of payouts implements Settlement: the amount of a payout    *)
(* leaves what is owed to drivers only after a transfer has succeeded (or  *)
(* is mocked), in one step and once, through retries, lost answers, late   *)
(* and repeated events, overlapping requests and deaths.                   *)
THEOREM PayoutsKeepPromise == Spec => PayoutPromise
<1>1. Init => Promise!Init
  BY PromiseInit
<1>2. IInv /\ Follows(book) => Reckoned
  BY PromiseState
<1>3. IInv /\ Reckoned /\ Reckoned' /\ [Next]_vars
        => [Promise!Next]_<<Transferred, PaidOut, TakenFromPayable>>
  BY PromiseStep
<1>4. TypeOK /\ Follows(book) /\ [Next]_vars => Follows(book)'
  BY FollowsStep
<1> QED
  BY <1>1, <1>2, <1>3, <1>4, FollowsInit, Invariance, TypeInvariant, PTL
     DEF Spec, PayoutPromise, Promise!Spec
=============================================================================
