---------------------------- MODULE RefundsProofs ---------------------------
(***************************************************************************)
(* Proofs about Refunds, for any payments, drivers, amounts, requests,     *)
(* handlers and reconciliations at once, and any number of refunds and     *)
(* failures.                                                               *)
(***************************************************************************)
EXTENDS Refunds, MoneyProofs

(* What a step may do to the rows of refunds: a row keeps its payment, and *)
(* what has been reversed stays as it is.                                  *)
RowsKeepPayments ==
  \A i \in RefundIds :
    refund[i].payment # NoPayment => refund'[i].payment = refund[i].payment

ReversedStay ==
  \A i \in RefundIds :
    /\ refund'[i].reversed = refund[i].reversed
    /\ refund'[i].flagged = refund[i].flagged
    /\ refund[i].reversed => refund'[i].payment = refund[i].payment

(* And Paystack does not take its word back.                               *)
ProviderStays ==
  \A i \in RefundIds :
    provider[i] = "processed" => provider'[i] = "processed"

NothingReversed == ReversedStay /\ ProviderStays

OthersStay(w) ==
  \A v \in Workers \ {w} : pc'[v] = pc[v] /\ job'[v] = job[v]

(* A worker that is not in a reversal after the step leaves none behind.   *)
QuietTx(w) ==
  /\ overlapped' = overlapped
  /\ tx' = tx \/ tx' = [tx EXCEPT ![w] = NoTx]

WorkersOK ==
  /\ pc \in [Workers -> Pcs]
  /\ job \in [Workers -> Jobs \cup {NoJob}]
  /\ \A w \in Workers : pc[w] = "idle" <=> job[w] = NoJob

LEMMA AtWork ==
  ASSUME TypeOK, NEW w \in Workers, pc[w] # "idle"
  PROVE  /\ job[w] \in Jobs
         /\ job[w].payment \in PaymentIds /\ job[w].payment # NoPayment
         /\ job[w].refund \in 0..MaxRefunds
         /\ job[w].kind \in Kinds
<1>1. job[w] \in Jobs
  BY DEF TypeOK
<1> QED
  BY <1>1, RefundsAssumption DEF Jobs

LEMMA RefundRow ==
  ASSUME TypeOK, NEW i \in RefundIds
  PROVE  /\ refund[i] \in RefundRows
         /\ refund[i].payment \in PaymentIds \cup {NoPayment}
         /\ refund[i].status \in RefundStatus
         /\ refund[i].known \in BOOLEAN
         /\ refund[i].reversed \in BOOLEAN
         /\ refund[i].flagged \in BOOLEAN
<1>1. refund[i] \in RefundRows
  BY DEF TypeOK
<1> QED
  BY <1>1 DEF RefundRows

LEMMA RefundIdsAreFinite == IsFiniteSet(RefundIds)
BY FS_Interval, RefundsAssumption DEF RefundIds

LEMMA Shared ==
  ASSUME NEW x \in PaymentIds
  PROVE  /\ Amount[x] \in Int /\ -Amount[x] \in Int
         /\ Share(x) \in Int /\ -Share(x) \in Int
         /\ ReversedCommission(Amount[x]) \in Int
         /\ -ReversedCommission(Amount[x]) \in Int
<1>1. Amount[x] \in Nat
  BY RefundsAssumption
<1>2. Share(x) \in Int
  BY <1>1, SplitIsExact DEF Share
<1>3. ReversedCommission(Amount[x]) \in Int
  BY <1>1 DEF ReversedCommission, CalculateShare, PLATFORM_COMMISSION_BPS,
              BPS_DENOMINATOR
<1> QED
  BY <1>1, <1>2, <1>3

LEMMA HoldersDiffer ==
  /\ "cash_clearing" \in Holders
  /\ "commission_revenue" \in Holders
  /\ "driver_payable" \in Holders
  /\ \A d \in Drivers : /\ d \in Holders /\ d # "cash_clearing"
                        /\ d # "commission_revenue" /\ d # "driver_payable"
  /\ \A x \in PaymentIds : DriverOf[x] \in Drivers
BY RefundsAssumption, DriversAssumption DEF Holders, LedgerAccounts

(* How a worker goes on and ends.                                          *)
LEMMA GotoType ==
  ASSUME TypeOK, NEW w \in Workers, pc[w] # "idle", NEW at \in Pcs \ {"idle"},
         Goto(w, at), UNCHANGED job
  PROVE  WorkersOK' /\ OthersStay(w) /\ pc'[w] = at /\ job'[w] = job[w]
BY DEF TypeOK, Goto, WorkersOK, OthersStay

LEMMA FinishType ==
  ASSUME TypeOK, NEW w \in Workers, Finish(w)
  PROVE  WorkersOK' /\ OthersStay(w) /\ pc'[w] = "idle"
BY DEF TypeOK, Finish, Goto, WorkersOK, OthersStay, Pcs

LEMMA BeginType ==
  ASSUME TypeOK, NEW w \in Workers, NEW at \in Pcs \ {"idle"},
         Goto(w, at), NEW j \in Jobs, job' = [job EXCEPT ![w] = j]
  PROVE  WorkersOK' /\ OthersStay(w) /\ pc'[w] = at /\ job'[w] = j
BY RefundsAssumption DEF TypeOK, Goto, WorkersOK, OthersStay

(* Everybody else's work stays on the rows it was on.                      *)
LEMMA WorkKept ==
  ASSUME TypeOK, WorkIsOnRows, RowsKeepPayments, NEW w \in Workers, OthersStay(w),
         pc'[w] \notin {"idle", "create"} =>
           /\ job'[w].refund \in RefundIds
           /\ refund'[job'[w].refund].payment = job'[w].payment
  PROVE  WorkIsOnRows'
<1> SUFFICES ASSUME NEW v \in Workers, pc'[v] \notin {"idle", "create"}
             PROVE  /\ job'[v].refund \in RefundIds
                    /\ refund'[job'[v].refund].payment = job'[v].payment
  BY DEF WorkIsOnRows
<1>1. CASE v = w
  BY <1>1
<1>2. CASE v # w
  <2>1. pc'[v] = pc[v] /\ job'[v] = job[v]
    BY <1>2 DEF OthersStay
  <2>2. /\ job[v].refund \in RefundIds
        /\ refund[job[v].refund].payment = job[v].payment
    BY <2>1 DEF WorkIsOnRows
  <2>3. job[v].payment # NoPayment
    BY <2>1, AtWork
  <2> QED
    BY <2>1, <2>2, <2>3 DEF RowsKeepPayments
<1> QED
  BY <1>1, <1>2

LEMMA WorkStays ==
  ASSUME TypeOK, WorkIsOnRows, RowsKeepPayments, UNCHANGED workerVars
  PROVE  WorkIsOnRows' /\ WorkersOK'
<1>1. \A v \in Workers : pc'[v] = pc[v] /\ job'[v] = job[v]
  BY DEF workerVars
<1>2. WorkersOK'
  BY DEF TypeOK, WorkersOK, workerVars
<1>3. ASSUME NEW v \in Workers, pc'[v] \notin {"idle", "create"}
      PROVE  /\ job'[v].refund \in RefundIds
             /\ refund'[job'[v].refund].payment = job'[v].payment
  <2>1. job[v].payment # NoPayment
    BY <1>1, <1>3, AtWork
  <2> QED
    BY <1>1, <1>3, <2>1 DEF WorkIsOnRows, RowsKeepPayments
<1> QED
  BY <1>2, <1>3 DEF WorkIsOnRows

(* The status or the reference of one row is written.                      *)
LEMMA RowWritten ==
  ASSUME TypeOK, NEW i \in RefundIds, NEW s \in RefundStatus, NEW b \in BOOLEAN,
         \/ refund' = [refund EXCEPT ![i].status = s]
         \/ refund' = [refund EXCEPT ![i].known = b]
  PROVE  /\ refund' \in [RefundIds -> RefundRows]
         /\ RowsKeepPayments /\ ReversedStay
         /\ refund'[i].payment = refund[i].payment
         /\ refund'[i].status \in {s, refund[i].status}
         /\ \A k \in RefundIds \ {i} : refund'[k] = refund[k]
<1>1. refund[i] \in RefundRows
  BY RefundRow
<1>2. CASE refund' = [refund EXCEPT ![i].status = s]
  <2> DEFINE r == [refund[i] EXCEPT !.status = s]
  <2>1. /\ r \in RefundRows /\ r.payment = refund[i].payment /\ r.status = s
        /\ r.reversed = refund[i].reversed /\ r.flagged = refund[i].flagged
    BY <1>1 DEF RefundRows
  <2>2. refund' = [refund EXCEPT ![i] = r]
    BY <1>2
  <2> HIDE DEF r
  <2>3. /\ refund' \in [RefundIds -> RefundRows] /\ refund'[i] = r
        /\ \A k \in RefundIds \ {i} : refund'[k] = refund[k]
    BY <2>1, <2>2 DEF TypeOK
  <2> QED
    BY <2>1, <2>3 DEF RowsKeepPayments, ReversedStay
<1>3. CASE refund' = [refund EXCEPT ![i].known = b]
  <2> DEFINE r == [refund[i] EXCEPT !.known = b]
  <2>1. /\ r \in RefundRows /\ r.payment = refund[i].payment
        /\ r.status = refund[i].status
        /\ r.reversed = refund[i].reversed /\ r.flagged = refund[i].flagged
    BY <1>1 DEF RefundRows
  <2>2. refund' = [refund EXCEPT ![i] = r]
    BY <1>3
  <2> HIDE DEF r
  <2>3. /\ refund' \in [RefundIds -> RefundRows] /\ refund'[i] = r
        /\ \A k \in RefundIds \ {i} : refund'[k] = refund[k]
    BY <2>1, <2>2 DEF TypeOK
  <2> QED
    BY <2>1, <2>3 DEF RowsKeepPayments, ReversedStay
<1> QED
  BY <1>2, <1>3
-----------------------------------------------------------------------------
(* The books, while nothing is reversed.                                   *)
LEMMA BooksKept ==
  ASSUME IInv, ReversedStay, UNCHANGED driven, overlapped \subseteq overlapped',
         book'.refs = book.refs,
         \A h \in {"cash_clearing", "commission_revenue", "driver_payable"} :
           book'.balance[h] = book.balance[h]
  PROVE  ReversalsPost' /\ BooksFollowReversals'
<1>1. Reversed' = Reversed
  BY DEF ReversedStay, Reversed
<1>2. /\ \A i \in Reversed : refund'[i].payment = refund[i].payment
      /\ \A i \in RefundIds : refund'[i].flagged = refund[i].flagged
      /\ Reversed \subseteq RefundIds
  BY DEF ReversedStay, Reversed
<1>3. /\ GrossBack' = GrossBack /\ CommissionBack' = CommissionBack
      /\ ShareBack' = ShareBack /\ ShareTaken' = ShareTaken
  BY <1>1, <1>2 DEF GrossBack, CommissionBack, ShareBack, ShareTaken
<1>4. ReversalsPost'
  BY <1>1, <1>2 DEF IInv, ReversalsPost
<1>5. \A i \in Reversed :
        /\ driven[refund'[i].payment] <=> i \in ShareTaken \/ refund'[i].flagged
        /\ i \in ShareTaken /\ refund'[i].flagged => i \in overlapped
  BY <1>2 DEF IInv, BooksFollowReversals
<1>6. \A i \in Reversed' :
        /\ driven'[refund'[i].payment]
             <=> i \in ShareTaken' \/ refund'[i].flagged
        /\ i \in ShareTaken' /\ refund'[i].flagged => i \in overlapped'
  BY <1>1, <1>3, <1>5
<1>7. BooksFollowReversals'
  BY <1>1, <1>3, <1>6 DEF IInv, BooksFollowReversals
<1> QED
  BY <1>4, <1>7

LEMMA RefsDiffer ==
  ASSUME NEW i, NEW k, NEW n, NEW m, Ref(i, n) = Ref(k, m)
  PROVE  i = k /\ n = m
BY DEF Ref

(* What the postings of a reversal do to the ledger's accounts.            *)
LEMMA GrossMoves ==
  ASSUME IInv, NEW i \in RefundIds \ Reversed, NEW x \in PaymentIds,
         NEW b, b = GrossPostings(book, i, x)
  PROVE  /\ b.refs = book.refs \cup
              {Ref(i, "processed"), Ref(i, "commission-reversed")}
         /\ b.balance \in [Holders -> Int]
         /\ b.balance["cash_clearing"]
              = book.balance["cash_clearing"] - Amount[x]
         /\ b.balance["commission_revenue"]
              = book.balance["commission_revenue"] - ReversedCommission(Amount[x])
         /\ b.balance["driver_payable"] = book.balance["driver_payable"]
<1> DEFINE a == -Amount[x]
           c == -ReversedCommission(Amount[x])
<1>1. PICK b1 : b1 = Post(book, Ref(i, "processed"), "cash_clearing", a)
  OBVIOUS
<1>2. b = Post(b1, Ref(i, "commission-reversed"), "commission_revenue", c)
  BY <1>1 DEF GrossPostings
<1>3. /\ a \in Int /\ c \in Int /\ Amount[x] \in Int
      /\ ReversedCommission(Amount[x]) \in Int
      /\ a = -Amount[x] /\ c = -ReversedCommission(Amount[x])
  BY Shared
<1>4. /\ "cash_clearing" \in Holders
      /\ "commission_revenue" \in Holders
      /\ "driver_payable" \in Holders
  BY HoldersDiffer
<1>5. book.balance \in [Holders -> Int]
  BY DEF IInv, TypeOK
<1>6. /\ Ref(i, "processed") \notin book.refs
      /\ Ref(i, "commission-reversed") \notin book.refs
  BY DEF IInv, ReversalsPost
<1> HIDE DEF a, c
<1>7. PostMoved(book, Ref(i, "processed"), "cash_clearing", a, b1)
  BY <1>1, <1>3, <1>4, <1>5, PostMoves
<1>8. PostMoved(b1, Ref(i, "commission-reversed"), "commission_revenue", c, b)
  <2>1. b1.balance \in [Holders -> Int]
    BY <1>7 DEF PostMoved
  <2> QED
    BY <1>2, <1>3, <1>4, <2>1, PostMoves
<1>9. Ref(i, "commission-reversed") \notin b1.refs
  BY <1>6, <1>7, RefsDiffer DEF PostMoved
<1>10. b.refs = book.refs \cup
         {Ref(i, "processed"), Ref(i, "commission-reversed")}
  BY <1>7, <1>8 DEF PostMoved
<1>11. b.balance["cash_clearing"] = book.balance["cash_clearing"] + a
  BY <1>3, <1>4, <1>6, <1>7, <1>8 DEF PostMoved
<1>12. b.balance["commission_revenue"] = book.balance["commission_revenue"] + c
  BY <1>3, <1>4, <1>7, <1>8, <1>9 DEF PostMoved
<1>13. b.balance["driver_payable"] = book.balance["driver_payable"]
  BY <1>4, <1>7, <1>8 DEF PostMoved
<1>14. \A h \in Holders : book.balance[h] \in Int
  BY <1>5
<1>15. b.balance \in [Holders -> Int]
  BY <1>8 DEF PostMoved
<1> QED
  BY <1>3, <1>4, <1>10, <1>11, <1>12, <1>13, <1>14, <1>15

LEMMA ShareMoves ==
  ASSUME NEW b, b.balance \in [Holders -> Int], NEW i \in RefundIds,
         NEW x \in PaymentIds, NEW c, c = SharePostings(b, i, x)
  PROVE  /\ c.refs = b.refs \cup
              {Ref(i, "earning:wallet"), Ref(i, "earning:driver-payable")}
         /\ c.balance \in [Holders -> Int]
         /\ c.balance["cash_clearing"] = b.balance["cash_clearing"]
         /\ c.balance["commission_revenue"] = b.balance["commission_revenue"]
         /\ c.balance["driver_payable"] = b.balance["driver_payable"]
              - (IF Ref(i, "earning:driver-payable") \in b.refs THEN 0
                 ELSE Share(x))
<1> DEFINE s == -Share(x)
<1>1. PICK b1 : b1 = Post(b, Ref(i, "earning:wallet"), DriverOf[x], s)
  OBVIOUS
<1>2. c = Post(b1, Ref(i, "earning:driver-payable"), "driver_payable", s)
  BY <1>1 DEF SharePostings
<1>3. s \in Int /\ s = -Share(x) /\ Share(x) \in Int
  BY Shared
<1>4. /\ "cash_clearing" \in Holders
      /\ "commission_revenue" \in Holders
      /\ "driver_payable" \in Holders
      /\ DriverOf[x] \in Holders
      /\ DriverOf[x] # "cash_clearing" /\ DriverOf[x] # "commission_revenue"
      /\ DriverOf[x] # "driver_payable"
  BY HoldersDiffer
<1> HIDE DEF s
<1>5. PostMoved(b, Ref(i, "earning:wallet"), DriverOf[x], s, b1)
  BY <1>1, <1>3, <1>4, PostMoves
<1>6. PostMoved(b1, Ref(i, "earning:driver-payable"), "driver_payable", s, c)
  <2>1. b1.balance \in [Holders -> Int]
    BY <1>5 DEF PostMoved
  <2> QED
    BY <1>2, <1>3, <1>4, <2>1, PostMoves
<1>7. Ref(i, "earning:driver-payable") \in b1.refs
        <=> Ref(i, "earning:driver-payable") \in b.refs
  BY <1>5, RefsDiffer DEF PostMoved
<1>8. c.refs = b.refs \cup
        {Ref(i, "earning:wallet"), Ref(i, "earning:driver-payable")}
  BY <1>5, <1>6 DEF PostMoved
<1>9. /\ c.balance["cash_clearing"] = b.balance["cash_clearing"]
      /\ c.balance["commission_revenue"] = b.balance["commission_revenue"]
  BY <1>4, <1>5, <1>6 DEF PostMoved
<1>10. c.balance["driver_payable"] = b.balance["driver_payable"]
         + (IF Ref(i, "earning:driver-payable") \in b.refs THEN 0 ELSE s)
  <2>1. b1.balance["driver_payable"] = b.balance["driver_payable"]
    BY <1>4, <1>5 DEF PostMoved
  <2> QED
    BY <1>6, <1>7, <2>1 DEF PostMoved
<1>11. c.balance \in [Holders -> Int] /\ \A h \in Holders : b.balance[h] \in Int
  BY <1>6 DEF PostMoved
<1>12. b.balance["driver_payable"] \in Int
  BY <1>4, <1>11
<1>13. c.balance["driver_payable"] = b.balance["driver_payable"]
         - (IF Ref(i, "earning:driver-payable") \in b.refs THEN 0 ELSE Share(x))
  BY <1>3, <1>10, <1>12
<1> QED
  BY <1>8, <1>9, <1>11, <1>13
-----------------------------------------------------------------------------
(* A reversal commits, the rows: only the reversed row changes, in nothing *)
(* but the two marks.                                                      *)
LEMMA AtCommit ==
  ASSUME IInv, NEW w \in Workers, Commit(w)
  PROVE  /\ job[w].refund \in RefundIds
         /\ job[w].payment \in PaymentIds /\ job[w].payment # NoPayment
         /\ refund[job[w].refund].payment = job[w].payment
         /\ tx[w] \in Txs /\ pc[w] = "commit"
<1>1. pc[w] = "commit" /\ pc[w] \notin {"idle", "create"}
  BY DEF Commit
<1>2. /\ job[w].refund \in RefundIds
      /\ refund[job[w].refund].payment = job[w].payment
  BY <1>1 DEF IInv, WorkIsOnRows
<1>3. job[w].payment \in PaymentIds /\ job[w].payment # NoPayment
  BY <1>1, AtWork DEF IInv
<1> QED
  BY <1>1, <1>2, <1>3 DEF IInv, TypeOK

LEMMA CommittedRow ==
  ASSUME IInv, NEW w \in Workers, Commit(w), NEW i, i = job[w].refund
  PROVE  /\ i \in RefundIds /\ Reversed' = Reversed \cup {i}
         /\ refund' \in [RefundIds -> RefundRows]
         /\ \A k \in RefundIds : /\ refund'[k].payment = refund[k].payment
                                 /\ refund'[k].status = refund[k].status
         /\ \A k \in RefundIds \ {i} : refund'[k] = refund[k]
         /\ refund'[i].flagged <=> refund[i].flagged \/ tx[w].share = "ask"
         /\ payment' \in [PaymentIds -> {"CAPTURED", "REFUNDED"}]
         /\ payout' \in [PaymentIds -> PayoutStatus]
<1>1. i \in RefundIds /\ job[w].payment \in PaymentIds
  BY AtCommit
<1> DEFINE flag == refund[i].flagged \/ tx[w].share = "ask"
           r == [refund[i] EXCEPT !.reversed = TRUE, !.flagged = flag]
<1>2. /\ refund' = [refund EXCEPT ![i].reversed = TRUE,
                                  ![i].flagged = @ \/ tx[w].share = "ask"]
      /\ payment' = [payment EXCEPT ![job[w].payment] = "REFUNDED"]
      /\ payout' \in {payout, [payout EXCEPT ![job[w].payment] = "CANCELLED"]}
  BY DEF Commit
<1>3. refund[i] \in RefundRows
  BY <1>1, RefundRow DEF IInv
<1>4. refund' = [refund EXCEPT ![i] = r]
  BY <1>1, <1>2, <1>3 DEF IInv, TypeOK, RefundRows
<1>5. flag \in BOOLEAN
  OBVIOUS
<1> HIDE DEF flag
<1>6. r \in RefundRows
  BY <1>3, <1>5 DEF RefundRows
<1>7. /\ r.payment = refund[i].payment /\ r.status = refund[i].status
      /\ r.reversed /\ r.flagged = flag
  BY <1>3 DEF RefundRows
<1> HIDE DEF r
<1>8. /\ refund' \in [RefundIds -> RefundRows] /\ refund'[i] = r
      /\ \A k \in RefundIds \ {i} : refund'[k] = refund[k]
  BY <1>1, <1>4, <1>6 DEF IInv, TypeOK
<1>9. Reversed' = Reversed \cup {i}
  BY <1>1, <1>7, <1>8 DEF Reversed
<1>10. /\ payment' \in [PaymentIds -> {"CAPTURED", "REFUNDED"}]
       /\ payout' \in [PaymentIds -> PayoutStatus]
  BY <1>1, <1>2 DEF IInv, TypeOK, PayoutStatus
<1>11. \A k \in RefundIds : /\ refund'[k].payment = refund[k].payment
                            /\ refund'[k].status = refund[k].status
  BY <1>7, <1>8
<1>12. refund'[i].flagged <=> refund[i].flagged \/ tx[w].share = "ask"
  BY <1>7, <1>8 DEF flag
<1> QED
  BY <1>1, <1>8, <1>9, <1>10, <1>11, <1>12

(* And the book: what is posted already is not posted again.               *)
LEMMA GrossStays ==
  ASSUME IInv, NEW i \in Reversed, NEW x \in PaymentIds
  PROVE  GrossPostings(book, i, x) = book
<1>1. /\ Ref(i, "processed") \in book.refs
      /\ Ref(i, "commission-reversed") \in book.refs
  BY DEF IInv, ReversalsPost, Reversed
<1>2. \A h, a : /\ Post(book, Ref(i, "processed"), h, a) = book
                /\ Post(book, Ref(i, "commission-reversed"), h, a) = book
  BY <1>1 DEF Post
<1> QED
  BY <1>2 DEF GrossPostings

LEMMA GrossBooked ==
  ASSUME IInv, NEW i \in RefundIds, NEW x \in PaymentIds,
         NEW b, b = GrossPostings(book, i, x)
  PROVE  /\ b.refs = book.refs \cup
              {Ref(i, "processed"), Ref(i, "commission-reversed")}
         /\ b.balance \in [Holders -> Int]
         /\ b.balance["cash_clearing"] = book.balance["cash_clearing"]
              - (IF i \in Reversed THEN 0 ELSE Amount[x])
         /\ b.balance["commission_revenue"] = book.balance["commission_revenue"]
              - (IF i \in Reversed THEN 0 ELSE ReversedCommission(Amount[x]))
         /\ b.balance["driver_payable"] = book.balance["driver_payable"]
<1>1. CASE i \notin Reversed
  BY <1>1, GrossMoves
<1>2. CASE i \in Reversed
  <2>1. b = book
    BY <1>2, GrossStays
  <2>2. /\ Ref(i, "processed") \in book.refs
        /\ Ref(i, "commission-reversed") \in book.refs
    BY <1>2 DEF IInv, ReversalsPost
  <2>3. /\ book.balance \in [Holders -> Int]
        /\ book.balance["cash_clearing"] \in Int
        /\ book.balance["commission_revenue"] \in Int
    BY HoldersDiffer DEF IInv, TypeOK
  <2> QED
    BY <1>2, <2>1, <2>2, <2>3
<1> QED
  BY <1>1, <1>2

(* A driver's share is taken under the name of a reversed refund only.     *)
LEMMA TakenByName ==
  ASSUME IInv, NEW i \in RefundIds
  PROVE  i \in ShareTaken <=> Ref(i, "earning:driver-payable") \in book.refs
BY DEF IInv, ReversalsPost, ShareTaken

LEMMA CommittedBook ==
  ASSUME IInv, NEW w \in Workers, Commit(w),
         NEW i, i = job[w].refund, NEW x, x = job[w].payment,
         NEW takes, takes = (tx[w].share = "take")
  PROVE  /\ book'.balance \in [Holders -> Int]
         /\ book'.refs = book.refs
              \cup {Ref(i, "processed"), Ref(i, "commission-reversed")}
              \cup (IF takes THEN {Ref(i, "earning:wallet"),
                                   Ref(i, "earning:driver-payable")}
                    ELSE {})
         /\ book'.balance["cash_clearing"] = book.balance["cash_clearing"]
              - (IF i \in Reversed THEN 0 ELSE Amount[x])
         /\ book'.balance["commission_revenue"]
              = book.balance["commission_revenue"]
                - (IF i \in Reversed THEN 0 ELSE ReversedCommission(Amount[x]))
         /\ book'.balance["driver_payable"] = book.balance["driver_payable"]
              - (IF takes /\ i \notin ShareTaken THEN Share(x) ELSE 0)
<1>1. i \in RefundIds /\ x \in PaymentIds
  BY AtCommit
<1>2. PICK b : b = GrossPostings(book, i, x)
  OBVIOUS
<1>3. book' = IF takes THEN SharePostings(b, i, x) ELSE b
  BY <1>2 DEF Commit
<1>4. /\ b.refs = book.refs \cup
           {Ref(i, "processed"), Ref(i, "commission-reversed")}
      /\ b.balance \in [Holders -> Int]
      /\ b.balance["cash_clearing"] = book.balance["cash_clearing"]
           - (IF i \in Reversed THEN 0 ELSE Amount[x])
      /\ b.balance["commission_revenue"] = book.balance["commission_revenue"]
           - (IF i \in Reversed THEN 0 ELSE ReversedCommission(Amount[x]))
      /\ b.balance["driver_payable"] = book.balance["driver_payable"]
  BY <1>1, <1>2, GrossBooked
<1>5. Ref(i, "earning:driver-payable") \in b.refs <=> i \in ShareTaken
  BY <1>1, <1>4, TakenByName, RefsDiffer
<1>6. CASE takes
  <2>1. book' = SharePostings(b, i, x)
    BY <1>3, <1>6
  <2>2. /\ book'.refs = b.refs \cup
             {Ref(i, "earning:wallet"), Ref(i, "earning:driver-payable")}
        /\ book'.balance \in [Holders -> Int]
        /\ book'.balance["cash_clearing"] = b.balance["cash_clearing"]
        /\ book'.balance["commission_revenue"] = b.balance["commission_revenue"]
        /\ book'.balance["driver_payable"] = b.balance["driver_payable"]
             - (IF Ref(i, "earning:driver-payable") \in b.refs THEN 0
                ELSE Share(x))
    BY <1>1, <1>4, <2>1, ShareMoves
  <2>3. (IF Ref(i, "earning:driver-payable") \in b.refs THEN 0 ELSE Share(x))
          = IF takes /\ i \notin ShareTaken THEN Share(x) ELSE 0
    BY <1>5, <1>6
  <2> QED
    BY <1>4, <1>6, <2>2, <2>3
<1>7. CASE ~takes
  <2>1. book' = b
    BY <1>3, <1>7
  <2>2. b.balance["driver_payable"] \in Int
    BY <1>4, HoldersDiffer
  <2>3. b.balance["driver_payable"]
          = book.balance["driver_payable"]
            - (IF takes /\ i \notin ShareTaken THEN Share(x) ELSE 0)
    BY <1>4, <1>7, <2>2
  <2>4. b.refs = book.refs
          \cup {Ref(i, "processed"), Ref(i, "commission-reversed")}
          \cup (IF takes THEN {Ref(i, "earning:wallet"),
                               Ref(i, "earning:driver-payable")}
                ELSE {})
    BY <1>4, <1>7
  <2> QED
    BY <1>4, <2>1, <2>3, <2>4
<1> QED
  BY <1>6, <1>7

(* One more summand, or one that is there already.                         *)
LEMMA SumJoins ==
  ASSUME NEW S, IsFiniteSet(S), NEW w, NEW v, NEW i, v[i] \in Int,
         \A k \in S : w[k] \in Int /\ v[k] = w[k]
  PROVE  /\ SumFunctionOnSet(w, S) \in Int
         /\ SumFunctionOnSet(v, S \cup {i})
              = SumFunctionOnSet(w, S) + (IF i \in S THEN 0 ELSE v[i])
<1>1. SumFunctionOnSet(w, S) \in Int
  BY SumIsInt
<1>2. CASE i \in S
  <2>1. S \cup {i} = S
    BY <1>2
  <2>2. SumFunctionOnSet(v, S) = SumFunctionOnSet(w, S)
    BY SumOfSame
  <2> QED
    BY <1>1, <1>2, <2>1, <2>2
<1>3. CASE i \notin S
  <2>1. SumFunctionOnSet(v, S \cup {i}) = SumFunctionOnSet(w, S) + v[i]
    BY <1>3, SumExtends
  <2> QED
    BY <1>1, <1>3, <2>1
<1> QED
  BY <1>2, <1>3

(* What has been taken back, after the commit.                             *)
LEMMA CommittedSums ==
  ASSUME IInv, NEW w \in Workers, Commit(w),
         NEW i, i = job[w].refund, NEW x, x = job[w].payment,
         NEW takes, takes = (tx[w].share = "take")
  PROVE  /\ ShareTaken' = IF takes THEN ShareTaken \cup {i} ELSE ShareTaken
         /\ SumFunctionOnSet(GrossBack, Reversed) \in Int
         /\ SumFunctionOnSet(CommissionBack, Reversed) \in Int
         /\ SumFunctionOnSet(ShareBack, ShareTaken) \in Int
         /\ SumFunctionOnSet(GrossBack', Reversed')
              = SumFunctionOnSet(GrossBack, Reversed)
                + (IF i \in Reversed THEN 0 ELSE Amount[x])
         /\ SumFunctionOnSet(CommissionBack', Reversed')
              = SumFunctionOnSet(CommissionBack, Reversed)
                + (IF i \in Reversed THEN 0 ELSE ReversedCommission(Amount[x]))
         /\ SumFunctionOnSet(ShareBack', ShareTaken')
              = SumFunctionOnSet(ShareBack, ShareTaken)
                + (IF takes /\ i \notin ShareTaken THEN Share(x) ELSE 0)
<1>1. /\ i \in RefundIds /\ x \in PaymentIds /\ refund[i].payment = x
  BY AtCommit
<1>2. /\ Reversed' = Reversed \cup {i} /\ Reversed \subseteq RefundIds
      /\ ShareTaken \subseteq Reversed
      /\ \A k \in RefundIds : refund'[k].payment = refund[k].payment
  BY CommittedRow DEF Reversed, ShareTaken
<1>3. IsFiniteSet(Reversed) /\ IsFiniteSet(ShareTaken)
  BY <1>2, RefundIdsAreFinite, FS_Subset
<1>4. \A k \in Reversed : refund[k].payment \in PaymentIds
  <2>1. \A k \in Reversed : refund[k].payment # NoPayment
    BY DEF IInv, EmptyRows, Reversed, NoRefund
  <2> QED
    BY <1>2, <2>1, RefundRow DEF IInv
<1>5. ShareTaken' = IF takes THEN ShareTaken \cup {i} ELSE ShareTaken
  <2>1. \A k \in RefundIds :
          Ref(k, "earning:driver-payable") \in book'.refs
            <=> \/ Ref(k, "earning:driver-payable") \in book.refs
                \/ (k = i /\ takes)
    BY CommittedBook, RefsDiffer
  <2>2. \A k \in RefundIds :
          k \in ShareTaken' <=> k \in ShareTaken \/ (k = i /\ takes)
    BY <1>2, <2>1, TakenByName DEF ShareTaken
  <2>3. ShareTaken' \subseteq RefundIds /\ ShareTaken \subseteq RefundIds
    BY <1>1, <1>2 DEF ShareTaken
  <2>4. CASE takes
    <3>1. ShareTaken' = ShareTaken \cup {i}
      BY <1>1, <2>2, <2>3, <2>4
    <3> QED
      BY <2>4, <3>1
  <2>5. CASE ~takes
    <3>1. ShareTaken' = ShareTaken
      BY <2>2, <2>3, <2>5
    <3> QED
      BY <2>5, <3>1
  <2> QED
    BY <2>4, <2>5
<1>6. /\ SumFunctionOnSet(GrossBack, Reversed) \in Int
      /\ SumFunctionOnSet(GrossBack', Reversed')
           = SumFunctionOnSet(GrossBack, Reversed)
             + (IF i \in Reversed THEN 0 ELSE Amount[x])
  <2>1. /\ \A k \in Reversed : /\ GrossBack[k] \in Int
                               /\ GrossBack'[k] = GrossBack[k]
        /\ GrossBack'[i] = Amount[x] /\ Amount[x] \in Int
    BY <1>1, <1>2, <1>4, Shared DEF GrossBack
  <2>2. PICK u : u = GrossBack
    OBVIOUS
  <2>3. PICK v : v = GrossBack'
    OBVIOUS
  <2>4. PICK S : S = Reversed
    OBVIOUS
  <2>5. /\ IsFiniteSet(S) /\ v[i] \in Int
        /\ \A k \in S : u[k] \in Int /\ v[k] = u[k]
    BY <1>3, <2>1, <2>2, <2>3, <2>4
  <2>6. v[i] = Amount[x]
    BY <2>1, <2>3
  <2>7. /\ SumFunctionOnSet(u, S) \in Int
        /\ SumFunctionOnSet(v, S \cup {i})
             = SumFunctionOnSet(u, S) + (IF i \in S THEN 0 ELSE v[i])
    BY ONLY <2>5, SumJoins
  <2> QED
    BY <1>2, <2>2, <2>3, <2>4, <2>6, <2>7
<1>7. /\ SumFunctionOnSet(CommissionBack, Reversed) \in Int
      /\ SumFunctionOnSet(CommissionBack', Reversed')
           = SumFunctionOnSet(CommissionBack, Reversed)
             + (IF i \in Reversed THEN 0 ELSE ReversedCommission(Amount[x]))
  <2>1. /\ \A k \in Reversed : /\ CommissionBack[k] \in Int
                               /\ CommissionBack'[k] = CommissionBack[k]
        /\ CommissionBack'[i] = ReversedCommission(Amount[x])
        /\ ReversedCommission(Amount[x]) \in Int
    BY <1>1, <1>2, <1>4, Shared DEF CommissionBack
  <2>2. PICK u : u = CommissionBack
    OBVIOUS
  <2>3. PICK v : v = CommissionBack'
    OBVIOUS
  <2>4. PICK S : S = Reversed
    OBVIOUS
  <2>5. /\ IsFiniteSet(S) /\ v[i] \in Int
        /\ \A k \in S : u[k] \in Int /\ v[k] = u[k]
    BY <1>3, <2>1, <2>2, <2>3, <2>4
  <2>6. v[i] = ReversedCommission(Amount[x])
    BY <2>1, <2>3
  <2>7. /\ SumFunctionOnSet(u, S) \in Int
        /\ SumFunctionOnSet(v, S \cup {i})
             = SumFunctionOnSet(u, S) + (IF i \in S THEN 0 ELSE v[i])
    BY ONLY <2>5, SumJoins
  <2> QED
    BY <1>2, <2>2, <2>3, <2>4, <2>6, <2>7
<1>8. /\ SumFunctionOnSet(ShareBack, ShareTaken) \in Int
      /\ SumFunctionOnSet(ShareBack', ShareTaken')
           = SumFunctionOnSet(ShareBack, ShareTaken)
             + (IF takes /\ i \notin ShareTaken THEN Share(x) ELSE 0)
  <2>1. /\ \A k \in Reversed : /\ ShareBack[k] \in Int
                               /\ ShareBack'[k] = ShareBack[k]
        /\ ShareBack'[i] = Share(x) /\ Share(x) \in Int
    BY <1>1, <1>2, <1>4, Shared DEF ShareBack
  <2>2. PICK u : u = ShareBack
    OBVIOUS
  <2>3. PICK v : v = ShareBack'
    OBVIOUS
  <2>4. PICK S : S = ShareTaken
    OBVIOUS
  <2>5. /\ IsFiniteSet(S) /\ v[i] \in Int
        /\ \A k \in S : u[k] \in Int /\ v[k] = u[k]
    BY <1>2, <1>3, <2>1, <2>2, <2>3, <2>4
  <2>6. v[i] = Share(x)
    BY <2>1, <2>3
  <2>7. /\ SumFunctionOnSet(u, S) \in Int
        /\ SumFunctionOnSet(v, S \cup {i})
             = SumFunctionOnSet(u, S) + (IF i \in S THEN 0 ELSE v[i])
    BY ONLY <2>5, SumJoins
  <2>8. SumFunctionOnSet(v, S) = SumFunctionOnSet(u, S)
    BY ONLY <2>5, SumOfSame
  <2>9. CASE takes
    <3>1. ShareTaken' = S \cup {i}
      BY <1>5, <2>4, <2>9
    <3>2. (IF i \in S THEN 0 ELSE v[i])
            = IF takes /\ i \notin ShareTaken THEN Share(x) ELSE 0
      BY <2>4, <2>6, <2>9
    <3> QED
      BY <2>2, <2>3, <2>4, <2>7, <3>1, <3>2
  <2>10. CASE ~takes
    <3>1. ShareTaken' = S
      BY <1>5, <2>4, <2>10
    <3>2. SumFunctionOnSet(v, S) = SumFunctionOnSet(u, S)
            + (IF takes /\ i \notin ShareTaken THEN Share(x) ELSE 0)
      BY <2>7, <2>8, <2>10
    <3> QED
      BY <2>2, <2>3, <2>4, <2>7, <3>1, <3>2
  <2> QED
    BY <2>9, <2>10
<1> QED
  BY <1>5, <1>6, <1>7, <1>8

(* What is posted is what is taken back.  A reversal that was alone with   *)
(* its refund is the first, and takes the share or asks, as it has read.   *)
LEMMA CommittedBooks ==
  ASSUME IInv, NEW w \in Workers, Commit(w)
  PROVE  ReversalsPost' /\ BooksFollowReversals'
<1>1. PICK i : i = job[w].refund
  OBVIOUS
<1>2. PICK x : x = job[w].payment
  OBVIOUS
<1>3. PICK takes : takes = (tx[w].share = "take")
  OBVIOUS
<1>4. /\ i \in RefundIds /\ x \in PaymentIds /\ refund[i].payment = x
      /\ tx[w] \in Txs /\ pc[w] = "commit"
  BY <1>1, <1>2, AtCommit
<1>5. /\ Reversed' = Reversed \cup {i} /\ Reversed \subseteq RefundIds
      /\ \A k \in RefundIds : refund'[k].payment = refund[k].payment
      /\ \A k \in RefundIds \ {i} : refund'[k] = refund[k]
      /\ refund'[i].flagged <=> refund[i].flagged \/ tx[w].share = "ask"
  BY <1>1, CommittedRow DEF Reversed
<1>6. /\ book'.refs = book.refs
           \cup {Ref(i, "processed"), Ref(i, "commission-reversed")}
           \cup (IF takes THEN {Ref(i, "earning:wallet"),
                                Ref(i, "earning:driver-payable")}
                 ELSE {})
      /\ book'.balance["cash_clearing"] = book.balance["cash_clearing"]
           - (IF i \in Reversed THEN 0 ELSE Amount[x])
      /\ book'.balance["commission_revenue"] = book.balance["commission_revenue"]
           - (IF i \in Reversed THEN 0 ELSE ReversedCommission(Amount[x]))
      /\ book'.balance["driver_payable"] = book.balance["driver_payable"]
           - (IF takes /\ i \notin ShareTaken THEN Share(x) ELSE 0)
  BY <1>1, <1>2, <1>3, CommittedBook
<1>7. /\ ShareTaken' = (IF takes THEN ShareTaken \cup {i} ELSE ShareTaken)
      /\ SumFunctionOnSet(GrossBack, Reversed) \in Int
      /\ SumFunctionOnSet(CommissionBack, Reversed) \in Int
      /\ SumFunctionOnSet(ShareBack, ShareTaken) \in Int
      /\ SumFunctionOnSet(GrossBack', Reversed')
           = SumFunctionOnSet(GrossBack, Reversed)
             + (IF i \in Reversed THEN 0 ELSE Amount[x])
      /\ SumFunctionOnSet(CommissionBack', Reversed')
           = SumFunctionOnSet(CommissionBack, Reversed)
             + (IF i \in Reversed THEN 0 ELSE ReversedCommission(Amount[x]))
      /\ SumFunctionOnSet(ShareBack', ShareTaken')
           = SumFunctionOnSet(ShareBack, ShareTaken)
             + (IF takes /\ i \notin ShareTaken THEN Share(x) ELSE 0)
  BY <1>1, <1>2, <1>3, CommittedSums
<1>8. driven' = driven /\ overlapped' = overlapped
  BY DEF Commit, EndTx, given
<1>9. ReversalsPost'
  <2>1. ASSUME NEW k \in Reversed'
        PROVE  /\ Ref(k, "processed") \in book'.refs
               /\ Ref(k, "commission-reversed") \in book'.refs
    <3>1. CASE k = i
      BY <1>6, <3>1
    <3>2. CASE k # i
      <4>1. k \in Reversed /\ k \in RefundIds
        BY <1>5, <3>2
      <4> QED
        BY <1>6, <4>1 DEF IInv, ReversalsPost
    <3> QED
      BY <3>1, <3>2
  <2>2. ASSUME NEW k \in RefundIds \ Reversed',
               NEW name \in {"processed", "commission-reversed",
                             "earning:wallet", "earning:driver-payable"}
        PROVE  ~refund'[k].flagged /\ Ref(k, name) \notin book'.refs
    <3>1. k # i /\ k \notin Reversed /\ refund'[k] = refund[k]
      BY <1>5
    <3>2. ~refund[k].flagged /\ Ref(k, name) \notin book.refs
      BY <3>1 DEF IInv, ReversalsPost
    <3> QED
      BY <1>6, <3>1, <3>2, RefsDiffer
  <2> QED
    BY <2>1, <2>2 DEF ReversalsPost
<1>10. \A k \in Reversed :
         /\ driven[refund[k].payment] <=> k \in ShareTaken \/ refund[k].flagged
         /\ k \in ShareTaken /\ refund[k].flagged => k \in overlapped
  BY DEF IInv, BooksFollowReversals
<1>11. /\ driven[x] <=> i \in ShareTaken' \/ refund'[i].flagged
       /\ i \in ShareTaken' /\ refund'[i].flagged => i \in overlapped
  <2>1. /\ tx[w].share \in {"none", "take", "ask"}
        /\ tx[w].share = "none" <=> ~driven[x]
    BY <1>2, <1>4 DEF IInv, LookUpsStand, Txs
  <2>2. i \in ShareTaken' <=> i \in ShareTaken \/ takes
    BY <1>7
  <2>3. i \in Reversed \/ (~refund[i].flagged /\ i \notin ShareTaken)
    BY <1>4 DEF IInv, ReversalsPost, ShareTaken
  <2>4. driven[x] \in BOOLEAN
    BY <1>4 DEF IInv, TypeOK
  <2>5. i \notin overlapped => i \notin Reversed
    BY <1>1, <1>4 DEF IInv, AloneUnlessOverlapped, Reversals
  <2>6. i \in Reversed =>
          /\ driven[x] <=> i \in ShareTaken \/ refund[i].flagged
          /\ i \in ShareTaken /\ refund[i].flagged => i \in overlapped
    BY <1>4, <1>10
  <2>7. refund[i].flagged \in BOOLEAN
    BY <1>4, RefundRow DEF IInv
  <2>8. driven[x] <=> i \in ShareTaken' \/ refund'[i].flagged
    BY <1>3, <1>5, <2>1, <2>2, <2>3, <2>4, <2>6
  <2>9. i \in ShareTaken' /\ refund'[i].flagged => i \in overlapped
    BY <1>3, <1>5, <2>2, <2>3, <2>5
  <2> QED
    BY <2>8, <2>9
<1>12. \A k \in Reversed' :
         /\ driven'[refund'[k].payment]
              <=> k \in ShareTaken' \/ refund'[k].flagged
         /\ k \in ShareTaken' /\ refund'[k].flagged => k \in overlapped'
  <2> SUFFICES ASSUME NEW k \in Reversed'
               PROVE  /\ driven[refund'[k].payment]
                           <=> k \in ShareTaken' \/ refund'[k].flagged
                      /\ k \in ShareTaken' /\ refund'[k].flagged
                           => k \in overlapped
    BY <1>8
  <2>1. CASE k = i
    BY <1>4, <1>5, <1>11, <2>1
  <2>2. CASE k # i
    <3>1. /\ k \in Reversed /\ refund'[k] = refund[k]
          /\ k \in ShareTaken' <=> k \in ShareTaken
      BY <1>5, <1>7, <2>2
    <3> QED
      BY <1>10, <3>1
  <2> QED
    BY <2>1, <2>2
<1>13. BooksFollowReversals'
  <2>1. /\ book.balance["cash_clearing"] = -SumFunctionOnSet(GrossBack, Reversed)
        /\ book.balance["commission_revenue"]
             = -SumFunctionOnSet(CommissionBack, Reversed)
        /\ book.balance["driver_payable"]
             = -SumFunctionOnSet(ShareBack, ShareTaken)
    BY DEF IInv, BooksFollowReversals
  <2>2. /\ (IF i \in Reversed THEN 0 ELSE Amount[x]) \in Int
        /\ (IF i \in Reversed THEN 0 ELSE ReversedCommission(Amount[x])) \in Int
        /\ (IF takes /\ i \notin ShareTaken THEN Share(x) ELSE 0) \in Int
    BY <1>4, Shared
  <2>3. book'.balance["cash_clearing"]
          = -SumFunctionOnSet(GrossBack', Reversed')
    BY <1>6, <1>7, <2>1, <2>2
  <2>4. book'.balance["commission_revenue"]
          = -SumFunctionOnSet(CommissionBack', Reversed')
    BY <1>6, <1>7, <2>1, <2>2
  <2>5. book'.balance["driver_payable"]
          = -SumFunctionOnSet(ShareBack', ShareTaken')
    BY <1>6, <1>7, <2>1, <2>2
  <2> QED
    BY <1>12, <2>3, <2>4, <2>5 DEF BooksFollowReversals
<1> QED
  BY <1>9, <1>13
-----------------------------------------------------------------------------
(* The invariant in parts: the rows with their books, the work, and the    *)
(* reversals under way.                                                    *)
RowTypes ==
  /\ payment \in [PaymentIds -> {"CAPTURED", "REFUNDED"}]
  /\ payout \in [PaymentIds -> PayoutStatus]
  /\ refund \in [RefundIds -> RefundRows]
  /\ book.balance \in [Holders -> Int]
  /\ provider \in [RefundIds -> ProviderStatus]
  /\ heard \subseteq RefundIds \X Kinds

RowsInv ==
  /\ RowTypes
  /\ EmptyRows
  /\ ProcessedByPaystack /\ OneAtPaystack
  /\ ReversalsPost /\ BooksFollowReversals

TxInv ==
  /\ tx \in [Workers -> Txs] /\ overlapped \subseteq RefundIds
  /\ ReversalsAreDue /\ LookUpsStand /\ AloneUnlessOverlapped

RowsStand ==
  \A k \in RefundIds : refund'[k].payment = refund[k].payment

(* Mocked refunds stay in the house, and their rows are PROCESSED.         *)
AtHome(w, at) ==
  w \notin Handlers /\ at \in {"create", "reverse"} \cup Reversals

PcsOfMocks ==
  mocked => \A w \in Workers : pc[w] = "idle" \/ AtHome(w, pc[w])

RowsOfMocks ==
  mocked =>
    \A i \in RefundIds :
      /\ provider[i] = "none"
      /\ refund[i].payment # NoPayment => refund[i].status = "PROCESSED"

LEMMA Halves ==
  /\ IInv => RowsInv /\ TxInv /\ PcsOfMocks /\ RowsOfMocks
  /\ /\ RowsInv' /\ WorkersOK' /\ WorkIsOnRows' /\ RowsOfMocks' /\ PcsOfMocks'
     /\ TxInv'
     /\ driven' \in [PaymentIds -> BOOLEAN]
     /\ mocked' \in BOOLEAN /\ faults' \in 0..MaxFaults
     => IInv'
<1>1. IInv => RowsInv /\ TxInv
  BY DEF IInv, RowsInv, RowTypes, TypeOK, TxInv
<1>2. IInv => PcsOfMocks /\ RowsOfMocks
  BY DEF IInv, MocksStayHome, PcsOfMocks, AtHome, RowsOfMocks
<1>3. ASSUME RowsInv', WorkersOK', WorkIsOnRows', RowsOfMocks', PcsOfMocks',
             TxInv', driven' \in [PaymentIds -> BOOLEAN],
             mocked' \in BOOLEAN, faults' \in 0..MaxFaults
      PROVE  IInv'
  <2>1. TypeOK'
    BY <1>3 DEF RowsInv, RowTypes, WorkersOK, TxInv, TypeOK
  <2>2. MocksStayHome'
    BY <1>3 DEF MocksStayHome, RowsOfMocks, PcsOfMocks, AtHome
  <2> QED
    BY <1>3, <2>1, <2>2 DEF RowsInv, TxInv, IInv
<1> QED
  BY <1>1, <1>2, <1>3

LEMMA RowsUnchanged ==
  ASSUME IInv, UNCHANGED <<rows, given, external>>,
         overlapped \subseteq overlapped'
  PROVE  RowsInv' /\ RowsOfMocks' /\ RowsStand /\ NothingReversed
<1>1. /\ refund' = refund /\ payment' = payment /\ payout' = payout
      /\ book' = book /\ provider' = provider /\ heard' = heard
      /\ mocked' = mocked /\ driven' = driven
  BY DEF rows, given, external
<1>2. RowsInv /\ RowsOfMocks
  BY Halves
<1>3. RowTypes' /\ RowsOfMocks' /\ RowsStand
  BY <1>1, <1>2 DEF RowsInv, RowTypes, RowsOfMocks, RowsStand
<1>4. EmptyRows' /\ ProcessedByPaystack' /\ OneAtPaystack'
  BY <1>1, <1>2 DEF RowsInv, EmptyRows, ProcessedByPaystack, OneAtPaystack
<1>5. ReversedStay /\ ProviderStays
  BY <1>1 DEF ReversedStay, ProviderStays
<1>6. ReversalsPost' /\ BooksFollowReversals'
  BY <1>1, <1>5, BooksKept
<1> QED
  BY <1>3, <1>4, <1>5, <1>6 DEF RowsInv, NothingReversed

LEMMA StandKeeps ==
  ASSUME RowsStand
  PROVE  RowsKeepPayments
BY DEF RowsStand, RowsKeepPayments

(* The reversals under way, while nothing is reversed and nobody joins.    *)
LEMMA InReversal ==
  ASSUME IInv, NEW v \in Workers, pc[v] \in Reversals
  PROVE  /\ job[v].refund \in RefundIds
         /\ refund[job[v].refund].payment = job[v].payment
         /\ job[v].payment \in PaymentIds
<1>1. pc[v] \notin {"idle", "create"}
  BY DEF Reversals
<1> QED
  BY <1>1, AtWork DEF IInv, WorkIsOnRows

LEMMA TxKept ==
  ASSUME IInv, NothingReversed, UNCHANGED <<given, overlapped>>,
         tx' \in [Workers -> Txs],
         \A v \in Workers : pc'[v] \in Reversals =>
           pc[v] = pc'[v] /\ job'[v] = job[v] /\ tx'[v] = tx[v]
  PROVE  TxInv'
<1>1. /\ driven' = driven /\ mocked' = mocked /\ overlapped' = overlapped
      /\ Reversed' = Reversed
  BY DEF given, NothingReversed, ReversedStay, Reversed
<1>2. TxInv
  BY Halves
<1>3. ReversalsAreDue'
  BY <1>1, <1>2, InReversal
  DEF TxInv, ReversalsAreDue, NothingReversed, ProviderStays
<1>4. LookUpsStand'
  BY <1>1, <1>2 DEF TxInv, LookUpsStand, Reversals
<1>5. AloneUnlessOverlapped'
  <2> SUFFICES ASSUME NEW v \in Workers, pc'[v] \in Reversals,
                      NEW k, k = job'[v].refund, k \notin overlapped
               PROVE  k \notin Reversed /\ Reversing(k)' = {v}
    BY <1>1 DEF AloneUnlessOverlapped, Reversing
  <2>1. pc[v] \in Reversals /\ job[v].refund = k
    OBVIOUS
  <2>2. k \notin Reversed /\ Reversing(k) = {v}
    BY <1>2, <2>1 DEF TxInv, AloneUnlessOverlapped
  <2>3. \A u \in Reversing(k)' : u \in Reversing(k)
    BY DEF Reversing
  <2>4. v \in Reversing(k)'
    BY DEF Reversing
  <2> QED
    BY <2>2, <2>3, <2>4
<1> QED
  BY <1>1, <1>2, <1>3, <1>4, <1>5 DEF TxInv

LEMMA TxLeft ==
  ASSUME IInv, NEW w \in Workers, OthersStay(w), pc'[w] \notin Reversals,
         QuietTx(w), NothingReversed, UNCHANGED given
  PROVE  TxInv'
<1>1. NoTx \in Txs /\ tx \in [Workers -> Txs]
  BY DEF NoTx, Txs, IInv, TypeOK
<1>2. /\ tx' \in [Workers -> Txs] /\ overlapped' = overlapped
      /\ \A v \in Workers \ {w} : tx'[v] = tx[v]
  BY <1>1 DEF QuietTx
<1>3. \A v \in Workers : pc'[v] \in Reversals =>
        pc[v] = pc'[v] /\ job'[v] = job[v] /\ tx'[v] = tx[v]
  BY <1>2 DEF OthersStay
<1> QED
  BY <1>2, <1>3, TxKept
-----------------------------------------------------------------------------
(* One worker's step, when the rows' half is known to survive it.          *)
LEMMA WorkerStep ==
  ASSUME IInv, NEW w \in Workers, RowsInv', RowsOfMocks', RowsKeepPayments,
         TxInv', WorkersOK', OthersStay(w),
         mocked => pc'[w] = "idle" \/ AtHome(w, pc'[w]),
         UNCHANGED given, faults' \in 0..MaxFaults,
         pc'[w] \notin {"idle", "create"} =>
           /\ job'[w].refund \in RefundIds
           /\ refund'[job'[w].refund].payment = job'[w].payment
  PROVE  IInv'
<1>1. /\ driven' \in [PaymentIds -> BOOLEAN]
      /\ mocked' \in BOOLEAN /\ mocked' = mocked
  BY DEF IInv, TypeOK, given
<1>2. PcsOfMocks'
  BY <1>1, Halves DEF PcsOfMocks, OthersStay
<1>3. WorkIsOnRows'
  BY WorkKept DEF IInv
<1> QED
  BY <1>1, <1>2, <1>3, Halves

(* A step without a worker.                                                *)
LEMMA IdleStep ==
  ASSUME IInv, RowsInv', RowsOfMocks', RowsStand, NothingReversed,
         UNCHANGED <<given, workerVars, txVars, faults>>
  PROVE  IInv'
<1>1. /\ driven' \in [PaymentIds -> BOOLEAN]
      /\ mocked' \in BOOLEAN /\ mocked' = mocked /\ faults' \in 0..MaxFaults
  BY DEF IInv, TypeOK, given
<1>2. PcsOfMocks'
  BY <1>1, Halves DEF PcsOfMocks, workerVars
<1>3. WorkIsOnRows' /\ WorkersOK'
  BY StandKeeps, WorkStays DEF IInv
<1>4. TxInv'
  <2>1. tx' = tx /\ overlapped' = overlapped /\ pc' = pc /\ job' = job
    BY DEF txVars, workerVars
  <2>2. tx' \in [Workers -> Txs]
    BY <2>1 DEF IInv, TypeOK
  <2> QED
    BY <2>1, <2>2, TxKept
<1> QED
  BY <1>1, <1>2, <1>3, <1>4, Halves

LEMMA RequestRefundKeeps ==
  ASSUME IInv, NEW r \in Requests, NEW x \in PaymentIds, RequestRefund(r, x)
  PROVE  IInv' /\ RowsStand
<1>1. RowsInv' /\ RowsOfMocks' /\ RowsStand /\ NothingReversed
  BY RowsUnchanged DEF RequestRefund, txVars
<1> DEFINE j == [payment |-> x, refund |-> 0, kind |-> "final"]
<1>2. j \in Jobs
  BY RefundsAssumption DEF Jobs, Kinds
<1>3. r \in Workers /\ "create" \in Pcs \ {"idle"}
  BY DEF Workers, Pcs
<1>4. Goto(r, "create") /\ job' = [job EXCEPT ![r] = j]
  BY DEF RequestRefund
<1> HIDE DEF j
<1>5. WorkersOK' /\ OthersStay(r) /\ pc'[r] = "create"
  BY <1>2, <1>3, <1>4, BeginType DEF IInv
<1>6. RowsKeepPayments /\ UNCHANGED given /\ faults' \in 0..MaxFaults
  BY <1>1, StandKeeps DEF RequestRefund, IInv, TypeOK
<1>7. TxInv'
  BY <1>1, <1>3, <1>5, TxLeft DEF RequestRefund, QuietTx, txVars, Reversals
<1>8. AtHome(r, pc'[r])
  BY <1>5, RefundsAssumption DEF AtHome
<1> QED
  BY <1>1, <1>3, <1>5, <1>6, <1>7, <1>8, WorkerStep

LEMMA BeginEventKeeps ==
  ASSUME IInv, NEW h \in Handlers, NEW i \in RefundIds, NEW kind \in Kinds,
         BeginEvent(h, i, kind)
  PROVE  IInv' /\ RowsStand
<1>1. RowsInv' /\ RowsOfMocks' /\ RowsStand /\ NothingReversed
  BY RowsUnchanged DEF BeginEvent, txVars
<1> DEFINE j == [payment |-> refund[i].payment, refund |-> i, kind |-> kind]
<1>2. provider[i] # "none" /\ refund[i].payment \in PaymentIds
  <2>1. provider[i] # "none"
    BY DEF BeginEvent, Announced
  <2>2. refund[i].payment # NoPayment
    BY <2>1 DEF IInv, EmptyRows
  <2> QED
    BY <2>1, <2>2, RefundRow DEF IInv
<1>3. j \in Jobs /\ j.refund = i /\ j.payment = refund[i].payment
  BY <1>2, RefundsAssumption DEF Jobs, RefundIds
<1>4. PICK at \in {"update", "ack"} : Goto(h, at)
  BY DEF BeginEvent
<1>5. h \in Workers /\ at \in Pcs \ {"idle"}
  BY DEF Workers, Pcs
<1>6. job' = [job EXCEPT ![h] = j]
  BY DEF BeginEvent
<1> HIDE DEF j
<1>7. WorkersOK' /\ OthersStay(h) /\ pc'[h] = at /\ job'[h] = j
  BY <1>3, <1>4, <1>5, <1>6, BeginType DEF IInv
<1>8. RowsKeepPayments /\ UNCHANGED given /\ faults' \in 0..MaxFaults
  BY <1>1, StandKeeps DEF BeginEvent, IInv, TypeOK
<1>9. ~mocked
  BY <1>2, Halves DEF RowsOfMocks
<1>10. /\ job'[h].refund \in RefundIds
       /\ refund'[job'[h].refund].payment = job'[h].payment
  BY <1>1, <1>3, <1>7 DEF RowsStand
<1>11. TxInv'
  BY <1>1, <1>5, <1>7, TxLeft DEF BeginEvent, QuietTx, txVars, Reversals
<1> QED
  BY <1>1, <1>5, <1>7, <1>8, <1>9, <1>10, <1>11, WorkerStep

(* A worker that ends, whatever it does to the rows.                       *)
LEMMA WorkerEnds ==
  ASSUME IInv, NEW w \in Workers, RowsInv', RowsOfMocks', RowsStand,
         NothingReversed, QuietTx(w),
         Finish(w), UNCHANGED given, faults' \in 0..MaxFaults
  PROVE  IInv'
<1>1. WorkersOK' /\ OthersStay(w) /\ pc'[w] = "idle"
  BY FinishType DEF IInv
<1>2. TxInv'
  BY <1>1, TxLeft DEF Reversals
<1> QED
  BY <1>1, <1>2, StandKeeps, WorkerStep

(* A worker that goes on with what it is at.                               *)
LEMMA WorkerGoesTo ==
  ASSUME IInv, NEW w \in Workers, RowsInv', RowsOfMocks', RowsStand, TxInv',
         pc[w] \notin {"idle", "create"}, NEW at \in Pcs \ {"idle"},
         Goto(w, at), UNCHANGED <<job, given>>, faults' \in 0..MaxFaults,
         mocked => AtHome(w, at)
  PROVE  IInv'
<1>1. WorkersOK' /\ OthersStay(w) /\ pc'[w] = at /\ job'[w] = job[w]
  BY GotoType DEF IInv
<1>2. /\ job[w].refund \in RefundIds
      /\ refund[job[w].refund].payment = job[w].payment
  BY DEF IInv, WorkIsOnRows
<1>3. /\ job'[w].refund \in RefundIds
      /\ refund'[job'[w].refund].payment = job'[w].payment
  BY <1>1, <1>2 DEF RowsStand
<1> QED
  BY <1>1, <1>3, StandKeeps, WorkerStep

LEMMA WorkerGoesOn ==
  ASSUME IInv, NEW w \in Workers, RowsInv', RowsOfMocks', RowsStand,
         NothingReversed, UNCHANGED txVars, pc[w] \notin {"idle", "create"},
         NEW at \in Pcs \ ({"idle"} \cup Reversals),
         Goto(w, at), UNCHANGED <<job, given>>, faults' \in 0..MaxFaults,
         mocked => AtHome(w, at)
  PROVE  IInv'
<1>1. WorkersOK' /\ OthersStay(w) /\ pc'[w] = at
  BY GotoType DEF IInv
<1>2. TxInv'
  BY <1>1, TxLeft DEF QuietTx, txVars
<1> QED
  BY <1>2, WorkerGoesTo

(* Where a worker is, and on which row.                                    *)
LEMMA WorkRow ==
  ASSUME IInv, NEW w \in Workers, pc[w] \notin {"idle", "create"}
  PROVE  /\ job[w].refund \in RefundIds
         /\ refund[job[w].refund].payment = job[w].payment
         /\ job[w].payment \in PaymentIds /\ job[w].payment # NoPayment
         /\ job[w].kind \in Kinds
         /\ pc[w] \notin {"reverse"} \cup Reversals \/ w \in Handlers => ~mocked
<1>1. /\ job[w].payment \in PaymentIds /\ job[w].payment # NoPayment
      /\ job[w].kind \in Kinds
  BY AtWork DEF IInv
<1>2. pc[w] \notin {"reverse"} \cup Reversals \/ w \in Handlers => ~mocked
  BY Halves DEF PcsOfMocks, AtHome
<1> QED
  BY <1>1, <1>2 DEF IInv, WorkIsOnRows
-----------------------------------------------------------------------------
(* requestRefund, step by step.                                            *)
LEMMA CreateRefundKeeps ==
  ASSUME IInv, NEW r \in Requests, CreateRefund(r)
  PROVE  IInv'
<1>1. /\ r \in Workers /\ pc[r] = "create"
      /\ "reverse" \in Pcs \ {"idle"} /\ "post" \in Pcs \ {"idle"}
  BY DEF Workers, Pcs, CreateRefund
<1>2. PICK i \in RefundIds :
        /\ refund[i] = NoRefund
        /\ refund' = [refund EXCEPT ![i] =
             [NoRefund EXCEPT !.payment = job[r].payment,
                !.status = IF mocked THEN "PROCESSED" ELSE "PROCESSING"]]
        /\ job' = [job EXCEPT ![r].refund = i]
  BY DEF CreateRefund
<1>3. /\ UNCHANGED <<payment, payout, book, provider, heard, given, faults>>
      /\ driven' = driven /\ mocked' = mocked
  BY DEF CreateRefund, given, external
<1>4. /\ job[r] \in Jobs /\ job[r].payment \in PaymentIds
      /\ job[r].payment # NoPayment
  BY <1>1, AtWork DEF IInv
<1> DEFINE new == [NoRefund EXCEPT !.payment = job[r].payment,
                     !.status = IF mocked THEN "PROCESSED" ELSE "PROCESSING"]
<1>5. /\ new \in RefundRows /\ new.payment = job[r].payment
      /\ new.status = (IF mocked THEN "PROCESSED" ELSE "PROCESSING")
      /\ new.reversed = FALSE /\ new.flagged = FALSE
  BY <1>4 DEF NoRefund, RefundRows, RefundStatus
<1>6. refund' = [refund EXCEPT ![i] = new]
  BY <1>2
<1> HIDE DEF new
<1>7. /\ refund' \in [RefundIds -> RefundRows] /\ refund'[i] = new
      /\ \A k \in RefundIds \ {i} : refund'[k] = refund[k]
  BY <1>5, <1>6 DEF IInv, TypeOK
<1>8. /\ refund[i].payment = NoPayment /\ refund[i].reversed = FALSE
      /\ refund[i].flagged = FALSE /\ provider[i] = "none"
  BY <1>2 DEF NoRefund, IInv, EmptyRows
<1>9. RowsInv /\ RowsOfMocks
  BY Halves
<1>10. RowTypes'
  BY <1>3, <1>7, <1>9 DEF RowsInv, RowTypes
<1>11. RowsOfMocks'
  BY <1>3, <1>5, <1>7, <1>9 DEF RowsOfMocks
<1>12. RowsKeepPayments /\ ReversedStay /\ NothingReversed
  BY <1>3, <1>5, <1>7, <1>8
  DEF RowsKeepPayments, NothingReversed, ReversedStay, ProviderStays
<1>13. EmptyRows'
  BY <1>3, <1>4, <1>5, <1>7, <1>9 DEF RowsInv, EmptyRows
<1>14. ProcessedByPaystack'
  BY <1>3, <1>5, <1>7, <1>9 DEF RowsInv, ProcessedByPaystack
<1>15. OneAtPaystack'
  BY <1>3, <1>7, <1>8, <1>9 DEF RowsInv, OneAtPaystack
<1>16. ReversalsPost' /\ BooksFollowReversals'
  BY <1>3, <1>12, BooksKept DEF CreateRefund, txVars
<1>17. RowsInv'
  BY <1>10, <1>13, <1>14, <1>15, <1>16 DEF RowsInv
<1> DEFINE j == [job[r] EXCEPT !.refund = i]
<1>18. j \in Jobs /\ j.refund = i /\ j.payment = job[r].payment
  BY <1>4, RefundsAssumption DEF Jobs, RefundIds
<1>19. job' = [job EXCEPT ![r] = j]
  BY <1>2
<1> HIDE DEF j
<1>20. PICK at \in Pcs \ {"idle"} :
         Goto(r, at) /\ at = IF mocked THEN "reverse" ELSE "post"
  BY <1>1 DEF CreateRefund
<1>21. WorkersOK' /\ OthersStay(r) /\ pc'[r] = at /\ job'[r] = j
  BY <1>1, <1>18, <1>19, <1>20, BeginType DEF IInv
<1>22. /\ job'[r].refund \in RefundIds
       /\ refund'[job'[r].refund].payment = job'[r].payment
  BY <1>5, <1>7, <1>18, <1>21
<1>23. mocked => AtHome(r, pc'[r])
  BY <1>20, <1>21, RefundsAssumption DEF AtHome
<1>24. UNCHANGED given /\ faults' \in 0..MaxFaults
  BY <1>3 DEF IInv, TypeOK
<1>25. TxInv'
  BY <1>1, <1>12, <1>20, <1>21, <1>24, TxLeft
  DEF CreateRefund, QuietTx, txVars, Reversals
<1> QED
  BY <1>1, <1>11, <1>12, <1>17, <1>21, <1>22, <1>23, <1>24, <1>25, WorkerStep

(* What Paystack makes of a refund: it takes one of a payment at a time,   *)
(* and settles only what it has taken.                                     *)
LEMMA ProviderMoves ==
  ASSUME IInv, NEW i \in RefundIds, NEW p \in {"pending", "processed", "failed"},
         provider' = [provider EXCEPT ![i] = p],
         UNCHANGED <<rows, given, heard, overlapped>>,
         refund[i].payment # NoPayment, ~mocked,
         provider[i] # "processed",
         ~(refund[i].status = "PROCESSED" \/ refund[i].reversed),
         \A k \in RefundIds \ {i} : refund[k].payment = refund[i].payment =>
           provider[k] \in {"none", "failed"}
  PROVE  RowsInv' /\ RowsOfMocks' /\ RowsStand /\ NothingReversed
<1>1. /\ refund' = refund /\ payment' = payment /\ payout' = payout
      /\ book' = book /\ heard' = heard
      /\ mocked' = mocked /\ driven' = driven
  BY DEF rows, given
<1>2. RowsInv
  BY Halves
<1>3. /\ provider'[i] = p /\ provider' \in [RefundIds -> ProviderStatus]
      /\ \A k \in RefundIds \ {i} : provider'[k] = provider[k]
  BY <1>2 DEF RowsInv, RowTypes, ProviderStatus
<1>4. RowTypes'
  BY <1>1, <1>2, <1>3 DEF RowsInv, RowTypes
<1>5. RowsOfMocks' /\ RowsStand /\ ReversedStay /\ ProviderStays
  BY <1>1, <1>3 DEF RowsOfMocks, RowsStand, ReversedStay, ProviderStays
<1>6. EmptyRows'
  BY <1>1, <1>2, <1>3 DEF RowsInv, EmptyRows
<1>7. ProcessedByPaystack'
  BY <1>1, <1>2, <1>3 DEF RowsInv, ProcessedByPaystack
<1>8. OneAtPaystack'
  BY <1>1, <1>2, <1>3 DEF RowsInv, OneAtPaystack
<1>9. ReversalsPost' /\ BooksFollowReversals'
  BY <1>1, <1>5, BooksKept
<1> QED
  BY <1>4, <1>5, <1>6, <1>7, <1>8, <1>9 DEF RowsInv, NothingReversed

LEMMA PaystackAcceptsKeeps ==
  ASSUME IInv, NEW r \in Requests, PaystackAccepts(r)
  PROVE  IInv' /\ RowsStand
<1>1. /\ r \in Workers /\ pc[r] \notin {"idle", "create"}
      /\ "store" \in Pcs \ ({"idle"} \cup Reversals)
  BY DEF Workers, PaystackAccepts, Pcs, Reversals
<1>2. PICK i \in RefundIds : i = job[r].refund
  BY <1>1, WorkRow
<1>3. /\ refund[i].payment = job[r].payment /\ refund[i].payment # NoPayment
      /\ ~mocked
  BY <1>1, <1>2, WorkRow DEF PaystackAccepts, Reversals
<1>4. \A k \in RefundIds : refund[k].payment = refund[i].payment =>
        provider[k] \in {"none", "failed"}
  BY <1>3 DEF PaystackAccepts, RefundsOf
<1>5. ~(refund[i].status = "PROCESSED" \/ refund[i].reversed)
  BY <1>3, <1>4 DEF IInv, ProcessedByPaystack
<1>6. RowsInv' /\ RowsOfMocks' /\ RowsStand /\ NothingReversed
  BY <1>2, <1>3, <1>4, <1>5, ProviderMoves DEF PaystackAccepts, txVars
<1>7. /\ UNCHANGED <<given, txVars>> /\ QuietTx(r)
      /\ faults' \in 0..MaxFaults
  BY DEF PaystackAccepts, IInv, TypeOK, QuietTx, txVars
<1>8. CASE Goto(r, "store") /\ UNCHANGED job
  BY <1>1, <1>3, <1>6, <1>7, <1>8, WorkerGoesOn
<1>9. CASE Finish(r)
  BY <1>1, <1>6, <1>7, <1>9, WorkerEnds
<1> QED
  BY <1>6, <1>8, <1>9 DEF PaystackAccepts

LEMMA PaystackRefusesKeeps ==
  ASSUME IInv, NEW r \in Requests, PaystackRefuses(r)
  PROVE  IInv' /\ RowsStand
<1>1. /\ r \in Workers /\ pc[r] \notin {"idle", "create"}
      /\ "fail" \in Pcs \ ({"idle"} \cup Reversals)
  BY DEF Workers, PaystackRefuses, Pcs, Reversals
<1>2. ~mocked
  BY <1>1, WorkRow DEF PaystackRefuses, Reversals
<1>3. RowsInv' /\ RowsOfMocks' /\ RowsStand /\ NothingReversed
  BY RowsUnchanged DEF PaystackRefuses, txVars
<1>4. /\ UNCHANGED <<given, txVars>> /\ QuietTx(r)
      /\ faults' \in 0..MaxFaults
  BY DEF PaystackRefuses, IInv, TypeOK, QuietTx, txVars
<1>5. CASE Goto(r, "fail") /\ UNCHANGED job
  BY <1>1, <1>2, <1>3, <1>4, <1>5, WorkerGoesOn
<1>6. CASE Finish(r)
  BY <1>1, <1>3, <1>4, <1>6, WorkerEnds
<1> QED
  BY <1>3, <1>5, <1>6 DEF PaystackRefuses
-----------------------------------------------------------------------------
(* The status or the reference of a refund that exists is written: it is   *)
(* PROCESSED only if Paystack has said so.                                 *)
LEMMA RowWrittenKeeps ==
  ASSUME IInv, NEW i \in RefundIds, NEW s \in RefundStatus, NEW b \in BOOLEAN,
         \/ refund' = [refund EXCEPT ![i].status = s]
         \/ refund' = [refund EXCEPT ![i].known = b],
         refund[i].payment # NoPayment, ~mocked,
         s = "PROCESSED" => provider[i] = "processed",
         payment' \in [PaymentIds -> {"CAPTURED", "REFUNDED"}],
         UNCHANGED <<payout, book, given, external, overlapped>>
  PROVE  RowsInv' /\ RowsOfMocks' /\ RowsStand /\ NothingReversed
<1>1. /\ payout' = payout /\ book' = book /\ provider' = provider
      /\ heard' = heard /\ mocked' = mocked /\ driven' = driven
  BY DEF given, external
<1>2. RowsInv
  BY Halves
<1>3. /\ refund' \in [RefundIds -> RefundRows]
      /\ ReversedStay
      /\ refund'[i].payment = refund[i].payment
      /\ refund'[i].status \in {s, refund[i].status}
      /\ \A k \in RefundIds \ {i} : refund'[k] = refund[k]
  BY RowWritten DEF IInv
<1>4. RowTypes'
  BY <1>1, <1>2, <1>3 DEF RowsInv, RowTypes
<1>5. RowsOfMocks' /\ RowsStand /\ ProviderStays
  BY <1>1, <1>3 DEF RowsOfMocks, RowsStand, ProviderStays
<1>6. EmptyRows'
  BY <1>1, <1>2, <1>3 DEF RowsInv, EmptyRows
<1>7. ProcessedByPaystack'
  BY <1>1, <1>2, <1>3 DEF RowsInv, ProcessedByPaystack, ReversedStay
<1>8. OneAtPaystack'
  BY <1>1, <1>2, <1>5 DEF RowsInv, OneAtPaystack, RowsStand
<1>9. ReversalsPost' /\ BooksFollowReversals'
  BY <1>1, <1>3, BooksKept
<1> QED
  BY <1>3, <1>4, <1>5, <1>6, <1>7, <1>8, <1>9 DEF RowsInv, NothingReversed

LEMMA FailRefundKeeps ==
  ASSUME IInv, NEW r \in Requests, FailRefund(r)
  PROVE  IInv' /\ RowsStand
<1>1. /\ r \in Workers /\ pc[r] \notin {"idle", "create"}
      /\ pc[r] \notin {"reverse"} \cup Reversals
  BY DEF Workers, FailRefund, Reversals
<1>2. PICK i \in RefundIds : i = job[r].refund
  BY <1>1, WorkRow
<1>3. refund[i].payment # NoPayment /\ ~mocked
  BY <1>1, <1>2, WorkRow
<1>4. /\ refund' = [refund EXCEPT ![i].status = "FAILED"]
      /\ payment' \in [PaymentIds -> {"CAPTURED", "REFUNDED"}]
      /\ UNCHANGED <<payout, book, given, external, overlapped>>
      /\ Finish(r) /\ QuietTx(r) /\ faults' \in 0..MaxFaults
  BY <1>2 DEF FailRefund, IInv, TypeOK, QuietTx, txVars
<1>5. "FAILED" \in RefundStatus
  BY DEF RefundStatus
<1>6. RowsInv' /\ RowsOfMocks' /\ RowsStand /\ NothingReversed
  BY <1>3, <1>4, <1>5, RowWrittenKeeps
<1> QED
  BY <1>1, <1>4, <1>6, WorkerEnds

LEMMA StoreReferenceKeeps ==
  ASSUME IInv, NEW r \in Requests, StoreReference(r)
  PROVE  IInv' /\ RowsStand
<1>1. /\ r \in Workers /\ pc[r] \notin {"idle", "create"}
      /\ pc[r] \notin {"reverse"} \cup Reversals
  BY DEF Workers, StoreReference, Reversals
<1>2. PICK i \in RefundIds : i = job[r].refund
  BY <1>1, WorkRow
<1>3. refund[i].payment # NoPayment /\ ~mocked
  BY <1>1, <1>2, WorkRow
<1>4. /\ refund' = [refund EXCEPT ![i].known = TRUE]
      /\ payment' \in [PaymentIds -> {"CAPTURED", "REFUNDED"}]
      /\ UNCHANGED <<payout, book, given, external, overlapped>>
      /\ Finish(r) /\ QuietTx(r) /\ faults' \in 0..MaxFaults
  BY <1>2 DEF StoreReference, IInv, TypeOK, QuietTx, txVars
<1>5. "FAILED" \in RefundStatus
  BY DEF RefundStatus
<1>6. RowsInv' /\ RowsOfMocks' /\ RowsStand /\ NothingReversed
  BY <1>3, <1>4, <1>5, RowWrittenKeeps
<1> QED
  BY <1>1, <1>4, <1>6, WorkerEnds
-----------------------------------------------------------------------------
(* handleRefundEvent, step by step.                                        *)
LEMMA UpdateRefundKeeps ==
  ASSUME IInv, NEW h \in Handlers, UpdateRefund(h)
  PROVE  IInv' /\ RowsStand
<1>1. h \in Workers /\ pc[h] \notin {"idle", "create"}
  BY DEF Workers, UpdateRefund
<1>2. PICK i \in RefundIds : i = job[h].refund
  BY <1>1, WorkRow
<1>3. /\ refund[i].payment # NoPayment /\ ~mocked
      /\ job[h].kind \in Kinds /\ job[h].payment \in PaymentIds
  BY <1>1, <1>2, WorkRow
<1>4. PICK s : s = AnnouncedStatus(i, job[h].kind)
  OBVIOUS
<1>5. s \in RefundStatus /\ (s = "PROCESSED" => provider[i] = "processed")
  BY <1>3, <1>4 DEF AnnouncedStatus, RefundStatus, Kinds
<1>6. /\ refund' = [refund EXCEPT ![i].status = s]
      /\ payment' \in {payment, [payment EXCEPT ![job[h].payment] = "REFUNDED"]}
      /\ UNCHANGED <<payout, book, given, external, job, txVars, overlapped>>
      /\ faults' \in 0..MaxFaults
  BY <1>2, <1>4 DEF UpdateRefund, IInv, TypeOK, txVars
<1>7. PICK at \in {"reverse", "ack"} : Goto(h, at)
  BY DEF UpdateRefund
<1>8. payment' \in [PaymentIds -> {"CAPTURED", "REFUNDED"}]
  BY <1>3, <1>6 DEF IInv, TypeOK
<1>9. RowsInv' /\ RowsOfMocks' /\ RowsStand /\ NothingReversed
  BY <1>3, <1>5, <1>6, <1>8, RowWrittenKeeps
<1>10. at \in Pcs \ ({"idle"} \cup Reversals)
  BY DEF Pcs, Reversals
<1> QED
  BY <1>1, <1>3, <1>6, <1>7, <1>9, <1>10, WorkerGoesOn

(* The event's mark is all that changes.                                   *)
LEMMA MarkProcessedKeeps ==
  ASSUME IInv, NEW h \in Handlers, MarkProcessed(h)
  PROVE  IInv' /\ RowsStand
<1>1. h \in Workers /\ pc[h] \notin {"idle", "create"}
  BY DEF Workers, MarkProcessed
<1>2. <<job[h].refund, job[h].kind>> \in RefundIds \X Kinds
  BY <1>1, WorkRow
<1>3. RowsInv /\ RowsOfMocks
  BY Halves
<1>4. /\ refund' = refund /\ payment' = payment /\ payout' = payout
      /\ book' = book /\ provider' = provider
      /\ mocked' = mocked /\ driven' = driven
      /\ heard' = heard \cup {<<job[h].refund, job[h].kind>>}
      /\ overlapped' = overlapped
  BY DEF MarkProcessed, rows, given, txVars
<1>5. /\ RowTypes' /\ RowsOfMocks' /\ RowsStand
      /\ ReversedStay /\ NothingReversed
  BY <1>2, <1>3, <1>4
  DEF RowsInv, RowTypes, RowsOfMocks, RowsStand, NothingReversed, ReversedStay,
      ProviderStays
<1>6. EmptyRows' /\ ProcessedByPaystack' /\ OneAtPaystack'
  BY <1>3, <1>4 DEF RowsInv, EmptyRows, ProcessedByPaystack, OneAtPaystack
<1>7. ReversalsPost' /\ BooksFollowReversals'
  BY <1>4, <1>5, BooksKept
<1>8. RowsInv'
  BY <1>5, <1>6, <1>7 DEF RowsInv
<1>9. /\ Finish(h) /\ QuietTx(h) /\ UNCHANGED given
      /\ faults' \in 0..MaxFaults
  BY DEF MarkProcessed, IInv, TypeOK, QuietTx, txVars
<1> QED
  BY <1>1, <1>5, <1>8, <1>9, WorkerEnds

LEMMA WorkerFailsKeeps ==
  ASSUME IInv, NEW w \in Workers, WorkerFails(w)
  PROVE  IInv' /\ RowsStand
<1>1. RowsInv' /\ RowsOfMocks' /\ RowsStand /\ NothingReversed
  BY RowsUnchanged DEF WorkerFails, EndTx
<1>2. /\ Finish(w) /\ QuietTx(w) /\ UNCHANGED given
      /\ faults' \in 0..MaxFaults
  BY RefundsAssumption DEF WorkerFails, IInv, TypeOK, EndTx, QuietTx
<1> QED
  BY <1>1, <1>2, WorkerEnds
-----------------------------------------------------------------------------
(* The reversal, read by read and as it commits.                           *)
LEMMA ReturnType ==
  ASSUME TypeOK, NEW w \in Workers, pc[w] # "idle", Return(w)
  PROVE  /\ WorkersOK' /\ OthersStay(w)
         /\ \/ pc'[w] = "idle"
            \/ pc'[w] = "ack" /\ job'[w] = job[w] /\ w \in Handlers
<1>1. CASE w \in Handlers /\ Goto(w, "ack") /\ UNCHANGED job
  <2>1. "ack" \in Pcs \ {"idle"}
    BY DEF Pcs
  <2> QED
    BY <1>1, <2>1, GotoType
<1>2. CASE w \notin Handlers /\ Finish(w)
  BY <1>2, FinishType
<1> QED
  BY <1>1, <1>2 DEF Return

LEMMA WorkerReturns ==
  ASSUME IInv, NEW w \in Workers, RowsInv', RowsOfMocks', RowsStand, TxInv',
         pc[w] \notin {"idle", "create"}, Return(w), UNCHANGED given,
         faults' \in 0..MaxFaults
  PROVE  IInv'
<1>1. /\ WorkersOK' /\ OthersStay(w)
      /\ \/ pc'[w] = "idle"
         \/ pc'[w] = "ack" /\ job'[w] = job[w] /\ w \in Handlers
  BY ReturnType DEF IInv
<1>2. /\ job[w].refund \in RefundIds
      /\ refund[job[w].refund].payment = job[w].payment
      /\ w \in Handlers => ~mocked
  BY WorkRow
<1>3. pc'[w] \notin {"idle", "create"} =>
        /\ job'[w].refund \in RefundIds
        /\ refund'[job'[w].refund].payment = job'[w].payment
  BY <1>1, <1>2 DEF RowsStand
<1>4. mocked => pc'[w] = "idle" \/ AtHome(w, pc'[w])
  BY <1>1, <1>2
<1> QED
  BY <1>1, <1>3, <1>4, StandKeeps, WorkerStep

LEMMA ReadRefundKeeps ==
  ASSUME IInv, NEW w \in Workers, ReadRefund(w)
  PROVE  IInv' /\ RowsStand
<1>1. pc[w] = "reverse" /\ pc[w] \notin {"idle", "create"}
  BY DEF ReadRefund
<1>2. PICK i \in RefundIds : i = job[w].refund
  BY <1>1, WorkRow
<1>3. /\ UNCHANGED <<rows, given, external>> /\ tx' = tx
      /\ driven' = driven /\ mocked' = mocked /\ provider' = provider
      /\ refund' = refund /\ faults' \in 0..MaxFaults
  BY DEF ReadRefund, rows, given, external, IInv, TypeOK
<1>4. overlapped \subseteq overlapped'
  BY DEF ReadRefund
<1>5. RowsInv' /\ RowsOfMocks' /\ RowsStand /\ NothingReversed
  BY <1>3, <1>4, RowsUnchanged
<1>6. CASE ~Reversible(i) /\ Return(w) /\ UNCHANGED overlapped
  <2>1. OthersStay(w) /\ pc'[w] \notin Reversals
    BY <1>1, <1>6, ReturnType DEF IInv, Reversals
  <2>2. TxInv'
    BY <1>3, <1>5, <1>6, <2>1, TxLeft DEF QuietTx
  <2> QED
    BY <1>1, <1>3, <1>5, <1>6, <2>2, WorkerReturns
<1>7. CASE /\ Reversible(i)
           /\ overlapped' = IF Reversing(i) = {} THEN overlapped
                            ELSE overlapped \cup {i}
           /\ Goto(w, "look")
           /\ UNCHANGED job
  <2>1. "look" \in Pcs \ {"idle"}
    BY DEF Pcs, Reversals
  <2>2. OthersStay(w) /\ pc'[w] = "look" /\ job' = job
    BY <1>1, <1>7, <2>1, GotoType DEF IInv
  <2>3. TxInv
    BY Halves
  <2>4. ReversalsAreDue'
    <3>1. mocked \/ provider[i] = "processed"
      BY <1>7 DEF Reversible, IInv, ProcessedByPaystack
    <3> QED
      BY <1>2, <1>3, <2>2, <2>3, <3>1
      DEF TxInv, ReversalsAreDue, OthersStay
  <2>5. LookUpsStand'
    BY <1>3, <2>2, <2>3 DEF TxInv, LookUpsStand, OthersStay, Reversed
  <2>6. AloneUnlessOverlapped'
    <3> SUFFICES ASSUME NEW v \in Workers, pc'[v] \in Reversals,
                        job[v].refund \notin overlapped'
                 PROVE  /\ job[v].refund \notin Reversed
                        /\ Reversing(job[v].refund)' = {v}
      BY <1>3, <2>2 DEF AloneUnlessOverlapped, Reversed
    <3>1. \A u \in Workers \ {w} : pc'[u] = pc[u]
      BY <2>2 DEF OthersStay
    <3>2. v \in Reversing(job[v].refund)'
      BY <2>2 DEF Reversing
    <3>3. CASE v = w
      <4>1. Reversing(i) = {} /\ job[v].refund = i
        BY <1>2, <1>7, <3>3
      <4>2. i \notin Reversed
        BY <1>7 DEF Reversible, Reversed
      <4>3. \A u \in Reversing(i)' : u = w
        BY <2>2, <3>1, <4>1 DEF Reversing
      <4> QED
        BY <2>2, <3>2, <3>3, <4>1, <4>2, <4>3
    <3>4. CASE v # w
      <4>1. pc[v] \in Reversals /\ job[v].refund \notin overlapped
        BY <1>4, <3>1, <3>4
      <4>2. /\ job[v].refund \notin Reversed
            /\ Reversing(job[v].refund) = {v}
        BY <2>3, <4>1 DEF TxInv, AloneUnlessOverlapped
      <4>3. job[v].refund # i
        BY <1>7, <4>2
      <4>4. \A u \in Reversing(job[v].refund)' : u \in Reversing(job[v].refund)
        BY <1>2, <2>2, <3>1, <4>3 DEF Reversing
      <4> QED
        BY <3>2, <4>2, <4>4
    <3> QED
      BY <3>3, <3>4
  <2>7. overlapped' \subseteq RefundIds /\ tx' \in [Workers -> Txs]
    BY <1>3, <1>7 DEF IInv, TypeOK
  <2>8. TxInv'
    BY <2>4, <2>5, <2>6, <2>7 DEF TxInv
  <2>9. mocked => AtHome(w, "look")
    BY <1>1, WorkRow DEF AtHome, Reversals
  <2> QED
    BY <1>1, <1>3, <1>5, <1>7, <2>1, <2>8, <2>9, WorkerGoesTo
<1> QED
  BY <1>2, <1>6, <1>7 DEF ReadRefund

LEMMA LookUpKeeps ==
  ASSUME IInv, NEW w \in Workers, LookUp(w)
  PROVE  IInv' /\ RowsStand
<1>1. pc[w] = "look" /\ pc[w] \notin {"idle", "create"} /\ pc[w] \in Reversals
  BY DEF LookUp, Reversals
<1>2. PICK i \in RefundIds : i = job[w].refund
  BY <1>1, WorkRow
<1>3. PICK x \in PaymentIds : x = job[w].payment
  BY <1>1, WorkRow
<1>4. /\ UNCHANGED <<rows, given, external, job, overlapped>>
      /\ driven' = driven /\ mocked' = mocked /\ provider' = provider
      /\ refund' = refund /\ Goto(w, "commit") /\ faults' \in 0..MaxFaults
  BY DEF LookUp, rows, given, external, IInv, TypeOK
<1>5. RowsInv' /\ RowsOfMocks' /\ RowsStand /\ NothingReversed
  BY <1>4, RowsUnchanged
<1>6. "commit" \in Pcs \ {"idle"} /\ "commit" \in Reversals
  BY DEF Pcs, Reversals
<1>7. OthersStay(w) /\ pc'[w] = "commit" /\ job' = job
  BY <1>1, <1>4, <1>6, GotoType DEF IInv
<1>8. TxInv
  BY Halves
<1> DEFINE t == [found  |-> Ref(i, "processed") \in book.refs,
                 share  |-> Decision(x),
                 cancel |-> payout[x] = "REQUESTED"]
<1>9. tx' = [tx EXCEPT ![w] = t]
  BY <1>2, <1>3 DEF LookUp
<1>10. driven[x] \in BOOLEAN
  BY DEF IInv, TypeOK
<1>11. /\ Decision(x) \in {"none", "take", "ask"}
       /\ Decision(x) = "none" <=> ~driven[x]
  <2>1. CASE ~driven[x]
    BY <2>1 DEF Decision
  <2>2. CASE driven[x] /\ ShareIsCovered(x)
    BY <2>2 DEF Decision
  <2>3. CASE driven[x] /\ ~ShareIsCovered(x)
    BY <2>3 DEF Decision
  <2> QED
    BY <2>1, <2>2, <2>3
<1>12. /\ t \in Txs /\ t.found = (Ref(i, "processed") \in book.refs)
       /\ t.share = Decision(x)
  BY <1>11 DEF Txs
<1> HIDE DEF t
<1>13. /\ tx' \in [Workers -> Txs] /\ tx'[w] = t
       /\ \A v \in Workers \ {w} : tx'[v] = tx[v]
  BY <1>9, <1>12 DEF IInv, TypeOK
<1>14. ReversalsAreDue'
  BY <1>1, <1>4, <1>7, <1>8 DEF TxInv, ReversalsAreDue, OthersStay
<1>15. LookUpsStand'
  <2>1. t.found => i \in Reversed
    BY <1>12 DEF IInv, ReversalsPost
  <2>2. Reversed' = Reversed
    BY <1>4 DEF Reversed
  <2> SUFFICES ASSUME NEW v \in Workers, pc'[v] = "commit"
               PROVE  /\ tx'[v].found => job[v].refund \in Reversed
                      /\ tx'[v].share = "none" <=> ~driven[job[v].payment]
    BY <1>4, <1>7, <2>2 DEF LookUpsStand
  <2>3. CASE v = w
    BY <1>2, <1>3, <1>11, <1>12, <1>13, <2>1, <2>3
  <2>4. CASE v # w
    <3>1. pc[v] = "commit" /\ tx'[v] = tx[v]
      BY <1>7, <1>13, <2>4 DEF OthersStay
    <3> QED
      BY <1>8, <3>1 DEF TxInv, LookUpsStand
  <2> QED
    BY <2>3, <2>4
<1>16. AloneUnlessOverlapped'
  <2>1. \A v \in Workers : pc'[v] \in Reversals <=> pc[v] \in Reversals
    BY <1>1, <1>6, <1>7 DEF OthersStay
  <2>2. \A k : Reversing(k)' = Reversing(k)
    BY <1>7, <2>1 DEF Reversing
  <2>3. Reversed' = Reversed /\ overlapped' = overlapped
    BY <1>4 DEF Reversed
  <2> QED
    BY <1>7, <1>8, <2>1, <2>2, <2>3 DEF TxInv, AloneUnlessOverlapped
<1>17. TxInv'
  BY <1>4, <1>8, <1>13, <1>14, <1>15, <1>16 DEF TxInv
<1>18. mocked => AtHome(w, "commit")
  BY <1>1, <1>6, WorkRow DEF AtHome
<1> QED
  BY <1>1, <1>4, <1>5, <1>6, <1>17, <1>18, WorkerGoesTo

LEMMA RollBackKeeps ==
  ASSUME IInv, NEW w \in Workers, RollBack(w)
  PROVE  IInv' /\ RowsStand
<1>1. RowsInv' /\ RowsOfMocks' /\ RowsStand /\ NothingReversed
  BY RowsUnchanged DEF RollBack, EndTx
<1>2. /\ Finish(w) /\ QuietTx(w) /\ UNCHANGED given
      /\ faults' \in 0..MaxFaults
  BY DEF RollBack, IInv, TypeOK, EndTx, QuietTx
<1> QED
  BY <1>1, <1>2, WorkerEnds

LEMMA CommitKeeps ==
  ASSUME IInv, NEW w \in Workers, Commit(w)
  PROVE  IInv' /\ RowsStand
<1>1. pc[w] = "commit" /\ pc[w] \notin {"idle", "create"} /\ pc[w] \in Reversals
  BY DEF Commit, Reversals
<1>2. PICK i : i = job[w].refund
  OBVIOUS
<1>3. /\ i \in RefundIds /\ Reversed' = Reversed \cup {i}
      /\ refund' \in [RefundIds -> RefundRows]
      /\ \A k \in RefundIds : /\ refund'[k].payment = refund[k].payment
                              /\ refund'[k].status = refund[k].status
      /\ \A k \in RefundIds \ {i} : refund'[k] = refund[k]
      /\ payment' \in [PaymentIds -> {"CAPTURED", "REFUNDED"}]
      /\ payout' \in [PaymentIds -> PayoutStatus]
  BY <1>2, CommittedRow
<1>4. /\ UNCHANGED given /\ provider' = provider /\ heard' = heard
      /\ mocked' = mocked /\ driven' = driven /\ faults' \in 0..MaxFaults
      /\ overlapped' = overlapped /\ tx' = [tx EXCEPT ![w] = NoTx]
      /\ Return(w)
  BY DEF Commit, EndTx, given, external, IInv, TypeOK
<1>5. RowsInv /\ RowsOfMocks /\ TxInv
  BY Halves
<1>6. refund[i].payment \in PaymentIds /\ refund[i].payment # NoPayment
  BY <1>2, AtCommit
<1>7. mocked \/ provider[i] = "processed"
  BY <1>1, <1>2, <1>5 DEF TxInv, ReversalsAreDue
<1>8. RowTypes'
  <2>1. book'.balance \in [Holders -> Int]
    BY CommittedBook
  <2> QED
    BY <1>3, <1>4, <1>5, <2>1 DEF RowsInv, RowTypes
<1>9. RowsOfMocks' /\ RowsStand
  BY <1>3, <1>4, <1>5 DEF RowsOfMocks, RowsStand
<1>10. EmptyRows' /\ OneAtPaystack'
  BY <1>3, <1>4, <1>5, <1>6 DEF RowsInv, EmptyRows, OneAtPaystack
<1>11. ProcessedByPaystack'
  BY <1>3, <1>4, <1>5, <1>7 DEF RowsInv, ProcessedByPaystack
<1>12. RowsInv'
  BY <1>8, <1>10, <1>11, CommittedBooks DEF RowsInv
<1>13. OthersStay(w) /\ pc'[w] \notin Reversals
  BY <1>1, <1>4, ReturnType DEF IInv, Reversals
<1>14. /\ tx' \in [Workers -> Txs]
       /\ \A v \in Workers \ {w} : tx'[v] = tx[v]
  <2>1. NoTx \in Txs
    BY DEF NoTx, Txs
  <2> QED
    BY <1>4, <2>1 DEF IInv, TypeOK
<1>15. \A v \in Workers : pc'[v] \in Reversals =>
         v # w /\ pc[v] = pc'[v] /\ job'[v] = job[v] /\ tx'[v] = tx[v]
  BY <1>13, <1>14 DEF OthersStay
<1>16. ReversalsAreDue'
  BY <1>4, <1>5, <1>15 DEF TxInv, ReversalsAreDue
<1>17. LookUpsStand'
  BY <1>3, <1>4, <1>5, <1>15 DEF TxInv, LookUpsStand, Reversals
<1>18. AloneUnlessOverlapped'
  <2> SUFFICES ASSUME NEW v \in Workers, pc'[v] \in Reversals,
                      NEW k, k = job'[v].refund, k \notin overlapped
               PROVE  k \notin Reversed' /\ Reversing(k)' = {v}
    BY <1>4 DEF AloneUnlessOverlapped, Reversing
  <2>1. v # w /\ pc[v] \in Reversals /\ job[v].refund = k
    BY <1>15
  <2>2. k \notin Reversed /\ Reversing(k) = {v}
    BY <1>5, <2>1 DEF TxInv, AloneUnlessOverlapped
  <2>3. k # i
    BY <1>1, <1>2, <2>1, <2>2 DEF Reversing
  <2>4. \A u \in Reversing(k)' : u \in Reversing(k)
    BY <1>15 DEF Reversing
  <2>5. v \in Reversing(k)'
    BY DEF Reversing
  <2> QED
    BY <1>3, <2>2, <2>3, <2>4, <2>5
<1>19. TxInv'
  BY <1>4, <1>5, <1>14, <1>16, <1>17, <1>18 DEF TxInv
<1> QED
  BY <1>1, <1>4, <1>9, <1>12, <1>19, WorkerReturns

LEMMA BeginReconciliationKeeps ==
  ASSUME IInv, NEW c \in Reconcilers, NEW i \in RefundIds,
         BeginReconciliation(c, i)
  PROVE  IInv' /\ RowsStand
<1>1. RowsInv' /\ RowsOfMocks' /\ RowsStand /\ NothingReversed
  BY RowsUnchanged DEF BeginReconciliation, txVars
<1> DEFINE j == [payment |-> refund[i].payment, refund |-> i,
                 kind |-> "final"]
<1>2. refund[i].payment \in PaymentIds
  <2>1. refund[i].status = "PROCESSED"
    BY DEF BeginReconciliation, Reversible
  <2>2. refund[i].payment # NoPayment
    BY <2>1 DEF IInv, EmptyRows, NoRefund
  <2> QED
    BY <2>2, RefundRow DEF IInv
<1>3. j \in Jobs /\ j.refund = i /\ j.payment = refund[i].payment
  BY <1>2, RefundsAssumption DEF Jobs, RefundIds, Kinds
<1>4. c \in Workers /\ c \notin Handlers /\ "reverse" \in Pcs \ {"idle"}
  BY RefundsAssumption DEF Workers, Pcs
<1>5. Goto(c, "reverse") /\ job' = [job EXCEPT ![c] = j]
  BY DEF BeginReconciliation
<1> HIDE DEF j
<1>6. WorkersOK' /\ OthersStay(c) /\ pc'[c] = "reverse" /\ job'[c] = j
  BY <1>3, <1>4, <1>5, BeginType DEF IInv
<1>7. RowsKeepPayments /\ UNCHANGED given /\ faults' \in 0..MaxFaults
  BY <1>1, StandKeeps DEF BeginReconciliation, IInv, TypeOK
<1>8. /\ job'[c].refund \in RefundIds
      /\ refund'[job'[c].refund].payment = job'[c].payment
  BY <1>1, <1>3, <1>6 DEF RowsStand
<1>9. TxInv'
  BY <1>1, <1>4, <1>6, TxLeft
  DEF BeginReconciliation, QuietTx, txVars, Reversals
<1>10. AtHome(c, pc'[c])
  BY <1>4, <1>6 DEF AtHome
<1> QED
  BY <1>1, <1>4, <1>6, <1>7, <1>8, <1>9, <1>10, WorkerStep
-----------------------------------------------------------------------------
(* What happens without a worker.                                          *)
LEMMA PaystackSettlesKeeps ==
  ASSUME IInv, NEW i \in RefundIds, NEW outcome \in {"processed", "failed"},
         PaystackSettles(i, outcome)
  PROVE  IInv' /\ RowsStand
<1>1. /\ provider[i] = "pending"
      /\ provider' = [provider EXCEPT ![i] = outcome]
      /\ UNCHANGED <<rows, given, heard, workerVars, txVars, overlapped, faults>>
  BY DEF PaystackSettles, txVars
<1>2. refund[i].payment # NoPayment /\ ~mocked
  BY <1>1, Halves DEF IInv, EmptyRows, RowsOfMocks
<1>3. ~(refund[i].status = "PROCESSED" \/ refund[i].reversed)
  BY <1>1, <1>2 DEF IInv, ProcessedByPaystack
<1>4. \A k \in RefundIds \ {i} : refund[k].payment = refund[i].payment =>
        provider[k] \in {"none", "failed"}
  BY <1>1 DEF IInv, OneAtPaystack, TypeOK, ProviderStatus
<1>5. RowsInv' /\ RowsOfMocks' /\ RowsStand /\ NothingReversed
  BY <1>1, <1>2, <1>3, <1>4, ProviderMoves
<1> QED
  BY <1>1, <1>5, IdleStep

(* The driver's side changes neither the rows nor the ledger's accounts.   *)
LEMMA DriverSideKeeps ==
  ASSUME IInv,
         UNCHANGED <<payment, refund, given, external, workerVars, txVars, faults>>,
         payout' \in [PaymentIds -> PayoutStatus],
         book'.refs = book.refs, book'.balance \in [Holders -> Int],
         \A h \in LedgerAccounts : book'.balance[h] = book.balance[h]
  PROVE  IInv' /\ RowsStand
<1>1. /\ refund' = refund /\ payment' = payment /\ provider' = provider
      /\ heard' = heard /\ mocked' = mocked /\ driven' = driven
      /\ overlapped' = overlapped
  BY DEF given, external, txVars
<1>2. RowsInv /\ RowsOfMocks
  BY Halves
<1>3. /\ RowTypes' /\ RowsOfMocks' /\ RowsStand
      /\ ReversedStay /\ NothingReversed
  BY <1>1, <1>2
  DEF RowsInv, RowTypes, RowsOfMocks, RowsStand, NothingReversed, ReversedStay,
      ProviderStays
<1>4. EmptyRows' /\ ProcessedByPaystack' /\ OneAtPaystack'
  BY <1>1, <1>2 DEF RowsInv, EmptyRows, ProcessedByPaystack, OneAtPaystack
<1>5. ReversalsPost' /\ BooksFollowReversals'
  BY <1>1, <1>3, BooksKept DEF LedgerAccounts
<1>6. RowsInv'
  BY <1>3, <1>4, <1>5 DEF RowsInv
<1> QED
  BY <1>3, <1>6, IdleStep

LEMMA PayoutStepKeeps ==
  ASSUME IInv, NEW x \in PaymentIds, PayoutStep(x)
  PROVE  IInv' /\ RowsStand
<1>1. PICK to \in {"APPROVED", "PROCESSING"} :
        payout' = [payout EXCEPT ![x] = to]
  BY DEF PayoutStep, ReviewPayout, SendPayout, MovePayout
<1>2. /\ UNCHANGED <<payment, refund, given, external, workerVars, txVars, faults>>
      /\ book' = book
  BY DEF PayoutStep, ReviewPayout, SendPayout, MovePayout
<1>3. payout' \in [PaymentIds -> PayoutStatus]
  BY <1>1 DEF IInv, TypeOK, PayoutStatus
<1>4. book.balance \in [Holders -> Int]
  BY DEF IInv, TypeOK
<1> QED
  BY <1>2, <1>3, <1>4, DriverSideKeeps

LEMMA WalletMovesKeeps ==
  ASSUME IInv, NEW d \in Drivers, WalletMoves(d)
  PROVE  IInv' /\ RowsStand
<1>1. book.balance \in [Holders -> Int]
  BY DEF IInv, TypeOK
<1>2. PICK b \in {0, MaxWallet} : book' = [book EXCEPT !.balance[d] = b]
  BY DEF WalletMoves
<1>3. /\ b \in Int /\ book'.refs = book.refs
      /\ book'.balance = [book.balance EXCEPT ![d] = b]
  BY <1>2, RefundsAssumption
<1>4. UNCHANGED <<payment, payout, refund, given, external, workerVars, txVars,
                  faults>>
  BY DEF WalletMoves
<1>5. d \in Holders /\ \A h \in LedgerAccounts : h \in Holders /\ h # d
  BY DriversAssumption DEF Holders
<1>6. /\ book'.balance \in [Holders -> Int]
      /\ \A h \in LedgerAccounts : book'.balance[h] = book.balance[h]
  BY <1>1, <1>3, <1>5
<1>7. payout' \in [PaymentIds -> PayoutStatus]
  BY <1>4 DEF IInv, TypeOK
<1> QED
  BY <1>3, <1>4, <1>6, <1>7, DriverSideKeeps
-----------------------------------------------------------------------------
LEMMA NoneTaken ==
  ASSUME NEW n, n = 0
  PROVE  0 = -n
<1>1. n \in Int
  OBVIOUS
<1>2. -n = 0 - n
  BY ONLY <1>1
<1>3. 0 - n = 0
  OBVIOUS
<1> QED
  BY ONLY <1>2, <1>3, Zenon

LEMMA InitOK ==
  ASSUME Init
  PROVE  IInv
<1>1. /\ payment \in [PaymentIds -> {"CAPTURED", "REFUNDED"}]
      /\ driven \in [PaymentIds -> BOOLEAN] /\ mocked \in BOOLEAN
      /\ payout \in [PaymentIds -> PayoutStatus]
      /\ provider \in [RefundIds -> ProviderStatus]
      /\ heard \subseteq RefundIds \X Kinds
      /\ faults \in 0..MaxFaults
  BY RefundsAssumption DEF Init, ProviderStatus, PayoutStatus
<1>2. refund \in [RefundIds -> RefundRows]
  BY DEF Init, NoRefund, RefundRows, RefundStatus
<1>3. WorkersOK
  BY DEF Init, WorkersOK, Pcs
<1>4. /\ book.refs = {}
      /\ book.balance = [h \in Holders |-> IF h \in Drivers
                           THEN SumFunctionOnSet(Shares, DrivenBy(h)) ELSE 0]
  BY DEF Init, EmptyBook
<1>5. book.balance \in [Holders -> Int]
  <2>1. ASSUME NEW h \in Drivers
        PROVE  SumFunctionOnSet(Shares, DrivenBy(h)) \in Int
    <3>1. PICK S : S = DrivenBy(h)
      OBVIOUS
    <3>2. PICK w : w = Shares
      OBVIOUS
    <3>3. IsFiniteSet(S)
      BY <3>1, FS_Subset, RefundsAssumption DEF DrivenBy
    <3>4. \A x \in S : w[x] \in Int
      BY <3>1, <3>2, Shared DEF DrivenBy, Shares
    <3>5. SumFunctionOnSet(w, S) \in Int
      BY ONLY <3>3, <3>4, SumIsInt
    <3> QED
      BY <3>1, <3>2, <3>5
  <2> QED
    BY <1>4, <2>1
<1>6. TypeOK
  <2>1. tx \in [Workers -> Txs] /\ overlapped \subseteq RefundIds
    BY DEF Init, NoTx, Txs
  <2> QED
    BY <1>1, <1>2, <1>3, <1>5, <2>1 DEF TypeOK, WorkersOK
<1>7. /\ \A i \in RefundIds : refund[i] = NoRefund /\ provider[i] = "none"
      /\ \A w \in Workers : pc[w] = "idle"
  BY DEF Init
<1>8. \A i \in RefundIds : /\ refund[i].payment = NoPayment
                           /\ refund[i].status = "NONE"
                           /\ refund[i].reversed = FALSE
                           /\ refund[i].flagged = FALSE
  BY <1>7 DEF NoRefund
<1>9. Reversed = {} /\ ShareTaken = {}
  BY <1>8 DEF Reversed, ShareTaken
<1>10. EmptyRows /\ WorkIsOnRows /\ MocksStayHome
  BY <1>7, <1>8 DEF EmptyRows, WorkIsOnRows, MocksStayHome
<1>11. ProcessedByPaystack /\ OneAtPaystack
  BY <1>7, <1>8 DEF ProcessedByPaystack, OneAtPaystack
<1>12. ReversalsPost
  BY <1>4, <1>8, <1>9 DEF ReversalsPost
<1>13. BooksFollowReversals
  <2>1. /\ book.balance["cash_clearing"] = 0
        /\ book.balance["commission_revenue"] = 0
        /\ book.balance["driver_payable"] = 0
    BY <1>4, HoldersDiffer
  <2>2. /\ SumFunctionOnSet(GrossBack, {}) = 0
        /\ SumFunctionOnSet(CommissionBack, {}) = 0
        /\ SumFunctionOnSet(ShareBack, {}) = 0
    <3>1. PICK g : g = GrossBack
      OBVIOUS
    <3>2. PICK c : c = CommissionBack
      OBVIOUS
    <3>3. PICK s : s = ShareBack
      OBVIOUS
    <3>4. SumFunctionOnSet(g, {}) = 0
      BY ONLY SumOfNone
    <3>5. SumFunctionOnSet(c, {}) = 0
      BY ONLY SumOfNone
    <3>6. SumFunctionOnSet(s, {}) = 0
      BY ONLY SumOfNone
    <3> QED
      BY <3>1, <3>2, <3>3, <3>4, <3>5, <3>6
  <2>3. /\ SumFunctionOnSet(GrossBack, Reversed) = 0
        /\ SumFunctionOnSet(CommissionBack, Reversed) = 0
        /\ SumFunctionOnSet(ShareBack, ShareTaken) = 0
    BY <1>9, <2>2
  <2>4. /\ book.balance["cash_clearing"] = -SumFunctionOnSet(GrossBack, Reversed)
        /\ book.balance["commission_revenue"]
             = -SumFunctionOnSet(CommissionBack, Reversed)
        /\ book.balance["driver_payable"]
             = -SumFunctionOnSet(ShareBack, ShareTaken)
    BY <2>1, <2>3, NoneTaken
  <2> QED
    BY <1>9, <2>4 DEF BooksFollowReversals
<1>14. ReversalsAreDue /\ LookUpsStand /\ AloneUnlessOverlapped
  BY <1>7 DEF ReversalsAreDue, LookUpsStand, AloneUnlessOverlapped, Reversals
<1> QED
  BY <1>6, <1>10, <1>11, <1>12, <1>13, <1>14 DEF IInv

(* Every step keeps the invariant; only the creation of a row names the    *)
(* payment of one.                                                         *)
LEMMA StepOK ==
  ASSUME IInv, Next
  PROVE  /\ IInv'
         /\ RowsStand \/ \E r \in Requests : CreateRefund(r)
<1>1. CASE \E r \in Requests : RequestStep(r)
  <2>1. PICK r \in Requests : RequestStep(r)
    BY <1>1
  <2>2. ASSUME NEW x \in PaymentIds, RequestRefund(r, x)
        PROVE  IInv' /\ RowsStand
    BY <2>2, RequestRefundKeeps
  <2> QED
    BY <2>1, <2>2, CreateRefundKeeps, PaystackAcceptsKeeps,
       PaystackRefusesKeeps, FailRefundKeeps, StoreReferenceKeeps
    DEF RequestStep
<1>2. CASE \E h \in Handlers : HandlerStep(h)
  <2>1. PICK h \in Handlers : HandlerStep(h)
    BY <1>2
  <2>2. ASSUME NEW i \in RefundIds, NEW kind \in Kinds, BeginEvent(h, i, kind)
        PROVE  IInv' /\ RowsStand
    BY <2>2, BeginEventKeeps
  <2> QED
    BY <2>1, <2>2, UpdateRefundKeeps, MarkProcessedKeeps
    DEF HandlerStep
<1>3. CASE \E w \in Workers : WorkerFails(w)
  BY <1>3, WorkerFailsKeeps
<1>4. CASE \E c \in Reconcilers, i \in RefundIds : BeginReconciliation(c, i)
  BY <1>4, BeginReconciliationKeeps
<1>5. CASE \E i \in RefundIds, outcome \in {"processed", "failed"} :
             PaystackSettles(i, outcome)
  BY <1>5, PaystackSettlesKeeps
<1>6. CASE \E x \in PaymentIds : PayoutStep(x)
  BY <1>6, PayoutStepKeeps
<1>7. CASE \E d \in Drivers : WalletMoves(d)
  BY <1>7, WalletMovesKeeps
<1>8. CASE \E w \in Workers : ReversalStep(w)
  BY <1>8, ReadRefundKeeps, LookUpKeeps, RollBackKeeps, CommitKeeps
  DEF ReversalStep
<1> QED
  BY <1>1, <1>2, <1>3, <1>4, <1>5, <1>6, <1>7, <1>8 DEF Next

LEMMA StutterOK ==
  ASSUME IInv, UNCHANGED vars
  PROVE  IInv' /\ RowsStand
<1>1. RowsInv' /\ RowsOfMocks' /\ RowsStand /\ NothingReversed
  BY RowsUnchanged DEF vars, txVars
<1> QED
  BY <1>1, IdleStep DEF vars

(* The inductive invariant.                                                *)
THEOREM Invariance == Spec => []IInv
<1>1. IInv /\ [Next]_vars => IInv'
  BY StepOK, StutterOK
<1> QED
  BY InitOK, <1>1, PTL DEF Spec

(* Type correctness of the refund flow (requestRefund, handleRefundEvent,  *)
(* reverseFullRefundLedger).                                               *)
THEOREM TypeInvariant == Spec => []TypeOK
<1>1. IInv => TypeOK
  BY DEF IInv
<1> QED
  BY <1>1, Invariance, PTL

(* The books take a payment back only after Paystack has given the money   *)
(* back, or where refunds are mocked: however many requests, handlers and  *)
(* reconciliations run at once, fail and are repeated (handleRefundEvent,  *)
(* reverseFullRefundLedger, runManualReconciliation).                      *)
THEOREM ReversalsFollowPaystack == Spec => []ReversalFollowsPaystack
<1>1. IInv => ReversalFollowsPaystack
  BY DEF IInv, ProcessedByPaystack, ReversalFollowsPaystack, Reversed
<1> QED
  BY <1>1, Invariance, PTL

(* The ledger's accounts hold exactly what the reversals have taken back,  *)
(* however many of them are in their transactions at once: each reversed   *)
(* refund its gross amount and commission once, and the driver's share if  *)
(* it was taken.  It is taken or an admin is asked to settle it, and both  *)
(* only if reversals of that refund did overlap (reverseFullRefundLedger). *)
THEOREM TheBooksFollowReversals == Spec => []BooksFollowReversals
<1>1. IInv => BooksFollowReversals
  BY DEF IInv
<1> QED
  BY <1>1, Invariance, PTL

(* Once and once only, of any two refunds of a payment.  Where Paystack is *)
(* asked, that is OneAtPaystack: it gives the money back once.  Mocked     *)
(* refunds have nobody to refuse the second one, so there it takes that    *)
(* requests do not overlap: what requestRefund has read stands until it    *)
(* creates the row.                                                        *)
LEMMA CreatingStands ==
  ASSUME IInv, Next, \A q, r \in Requests : q = r,
         NEW r \in Requests, pc'[r] = "create"
  PROVE  \/ pc[r] = "create" /\ job'[r] = job[r]
         \/ \E x \in PaymentIds : RequestRefund(r, x) /\ job'[r].payment = x
<1>1. r \in Workers /\ pc \in [Workers -> Pcs] /\ DOMAIN job = Workers
      /\ r \notin Handlers
  BY RefundsAssumption DEF IInv, TypeOK, Workers
<1>2. ASSUME NEW w \in Workers, NEW at, Goto(w, at), at # "create"
      PROVE  r # w /\ pc'[r] = pc[r]
  BY <1>1, <1>2 DEF Goto
<1>3. ASSUME NEW w \in Workers, Finish(w)
      PROVE  r # w /\ pc'[r] = pc[r] /\ job'[r] = job[r]
  BY <1>1, <1>3 DEF Finish, Goto
<1>4. CASE RequestStep(r)
  <2>1. r \in Workers
    BY <1>1
  <2>2. ASSUME NEW x \in PaymentIds, RequestRefund(r, x)
        PROVE  job'[r].payment = x
    BY <1>1, <2>2 DEF RequestRefund, IInv, TypeOK
  <2>3. ~CreateRefund(r)
    BY <1>1, <1>2 DEF CreateRefund
  <2>4. ~(PaystackAccepts(r) \/ PaystackRefuses(r) \/ FailRefund(r)
          \/ StoreReference(r))
    BY <1>1, <1>2, <1>3
    DEF PaystackAccepts, PaystackRefuses, FailRefund, StoreReference
  <2> QED
    BY <1>4, <2>2, <2>3, <2>4 DEF RequestStep
<1>5. CASE \E h \in Handlers : HandlerStep(h)
  <2>1. PICK h \in Handlers : HandlerStep(h)
    BY <1>5
  <2>2. h \in Workers /\ h # r
    BY <1>1 DEF Workers
  <2>3. pc'[r] = pc[r]
    BY <1>1, <2>1, <2>2
    DEF HandlerStep, BeginEvent, UpdateRefund, MarkProcessed, Finish, Goto
  <2>4. job'[r] = job[r]
    BY <1>1, <2>1, <2>2
    DEF HandlerStep, BeginEvent, UpdateRefund, MarkProcessed, Finish
  <2> QED
    BY <2>3, <2>4
<1>6. CASE \E w \in Workers : WorkerFails(w)
  BY <1>3, <1>6 DEF WorkerFails
<1>7. CASE UNCHANGED workerVars
  BY <1>7 DEF workerVars
<1>8. CASE \E w \in Workers : ReversalStep(w)
  <2>1. PICK w \in Workers : ReversalStep(w)
    BY <1>8
  <2>2. Finish(w) \/ \E at \in {"look", "commit", "ack"} :
                       Goto(w, at) /\ job' = job
    BY <2>1
    DEF ReversalStep, ReadRefund, LookUp, RollBack, Commit, Return
  <2> QED
    BY <1>2, <1>3, <2>2
<1>9. CASE \E c \in Reconcilers, i \in RefundIds : BeginReconciliation(c, i)
  <2>1. PICK c \in Reconcilers, i \in RefundIds : BeginReconciliation(c, i)
    BY <1>9
  <2>2. c \in Workers /\ c # r
    BY RefundsAssumption DEF Workers
  <2> QED
    BY <1>1, <2>1, <2>2 DEF BeginReconciliation, Goto
<1>10. CASE \/ \E i \in RefundIds, outcome \in {"processed", "failed"} :
                 PaystackSettles(i, outcome)
            \/ \E x \in PaymentIds : PayoutStep(x)
            \/ \E d \in Drivers : WalletMoves(d)
  BY <1>7, <1>10
  DEF PaystackSettles, PayoutStep, ReviewPayout, SendPayout, MovePayout,
      WalletMoves
<1> QED
  BY <1>4, <1>5, <1>6, <1>8, <1>9, <1>10 DEF Next

LEMMA MocksAreGiven ==
  ASSUME Next
  PROVE  mocked' = mocked
BY DEF Next, RequestStep, HandlerStep, RequestRefund, CreateRefund,
       PaystackAccepts, PaystackRefuses, FailRefund, StoreReference,
       BeginEvent, UpdateRefund, MarkProcessed, WorkerFails,
       BeginReconciliation, ReversalStep, ReadRefund, LookUp, RollBack,
       Commit, PaystackSettles, PayoutStep, ReviewPayout, SendPayout,
       MovePayout, WalletMoves, given

LEMMA OneRowStep ==
  ASSUME \A q, r \in Requests : q = r, IInv, OneRowPerMock, Next
  PROVE  OneRowPerMock'
<1> SUFFICES ASSUME mocked
             PROVE  /\ \A i, k \in RefundIds :
                         /\ refund'[i].payment = refund'[k].payment
                         /\ refund'[i].payment # NoPayment
                         => i = k
                    /\ \A r \in Requests : pc'[r] = "create" =>
                         \A k \in RefundIds :
                           refund'[k].payment # job'[r].payment
  BY MocksAreGiven DEF OneRowPerMock, RefundsOf
<1>1. /\ \A i, k \in RefundIds :
           /\ refund[i].payment = refund[k].payment
           /\ refund[i].payment # NoPayment
           => i = k
      /\ \A r \in Requests : pc[r] = "create" =>
           \A k \in RefundIds : refund[k].payment # job[r].payment
  BY DEF OneRowPerMock, RefundsOf
<1>2. CASE \E r \in Requests : CreateRefund(r)
  <2>1. PICK r \in Requests : CreateRefund(r)
    BY <1>2
  <2>2. PICK i \in RefundIds :
          /\ refund' = [refund EXCEPT ![i] =
               [NoRefund EXCEPT !.payment = job[r].payment,
                  !.status = IF mocked THEN "PROCESSED" ELSE "PROCESSING"]]
    BY <2>1 DEF CreateRefund
  <2>3. /\ refund'[i].payment = job[r].payment
        /\ \A k \in RefundIds \ {i} : refund'[k] = refund[k]
    BY <2>2 DEF NoRefund, IInv, TypeOK
  <2>4. \A k \in RefundIds : refund[k].payment # job[r].payment
    BY <1>1, <2>1 DEF CreateRefund
  <2>5. pc'[r] # "create"
    BY <2>1 DEF CreateRefund, Goto, IInv, TypeOK, Workers
  <2> QED
    BY <1>1, <2>3, <2>4, <2>5
<1>3. CASE RowsStand
  <2>1. ASSUME NEW r \in Requests, pc'[r] = "create", NEW k \in RefundIds,
               refund'[k].payment = job'[r].payment
        PROVE  FALSE
    <3>1. refund[k].payment = job'[r].payment
      BY <1>3, <2>1 DEF RowsStand
    <3>2. CASE pc[r] = "create" /\ job'[r] = job[r]
      BY <1>1, <3>1, <3>2
    <3>3. CASE \E x \in PaymentIds : RequestRefund(r, x) /\ job'[r].payment = x
      <4>1. PICK x \in PaymentIds : RequestRefund(r, x) /\ job'[r].payment = x
        BY <3>3
      <4>2. refund[k].payment = x /\ x # NoPayment
        BY <3>1, <4>1, RefundsAssumption
      <4>3. refund[k].status = "PROCESSED"
        BY <4>2 DEF IInv, MocksStayHome
      <4>4. k \in Outstanding(x)
        BY <4>2, <4>3 DEF Outstanding, RefundsOf
      <4> QED
        BY <4>1, <4>4 DEF RequestRefund
    <3> QED
      BY <2>1, <3>2, <3>3, CreatingStands
  <2> QED
    BY <1>1, <1>3, <2>1 DEF RowsStand
<1> QED
  BY <1>2, <1>3, StepOK

LEMMA OnceOfEither ==
  ASSUME IInv, mocked => OneRowPerMock
  PROVE  ReversedOnce
<1> SUFFICES ASSUME NEW i \in Reversed, NEW k \in Reversed,
                    refund[i].payment = refund[k].payment
             PROVE  i = k
  BY DEF ReversedOnce
<1>1. i \in RefundIds /\ k \in RefundIds /\ refund[i].reversed /\ refund[k].reversed
  BY DEF Reversed
<1>2. refund[i].payment # NoPayment
  BY <1>1 DEF IInv, EmptyRows, NoRefund
<1>3. CASE mocked
  BY <1>1, <1>2, <1>3 DEF OneRowPerMock
<1>4. CASE ~mocked
  BY <1>1, <1>4 DEF IInv, ProcessedByPaystack, OneAtPaystack
<1> QED
  BY <1>3, <1>4

(* A payment is taken back from the books at most once, however many rows  *)
(* its refunds have and whatever fails, is lost or is repeated, as long as *)
(* Paystack is asked (requestRefund, handleRefundEvent, runManual-         *)
(* Reconciliation).                                                        *)
THEOREM PaystackRefundsReverseOnce == Spec => [](~mocked => ReversedOnce)
<1>1. IInv => (~mocked => ReversedOnce)
  BY OnceOfEither
<1> QED
  BY <1>1, Invariance, PTL

(* And where refunds are mocked, if no two requests overlap.               *)
THEOREM RefundsReverseOnce ==
  ASSUME \A q, r \in Requests : q = r
  PROVE  Spec => []ReversedOnce
<1>1. Init => OneRowPerMock
  <2>1. ASSUME Init PROVE OneRowPerMock
    BY <2>1 DEF Init, OneRowPerMock, NoRefund, Workers
  <2> QED
    BY <2>1
<1>2. IInv /\ OneRowPerMock /\ [Next]_vars => OneRowPerMock'
  <2>1. ASSUME IInv, OneRowPerMock, UNCHANGED vars
        PROVE  OneRowPerMock'
    BY <2>1 DEF OneRowPerMock, RefundsOf, vars, rows, given, workerVars
  <2> QED
    BY <2>1, OneRowStep
<1>3. IInv /\ OneRowPerMock => ReversedOnce
  BY OnceOfEither
<1> QED
  BY <1>1, <1>2, <1>3, Invariance, PTL DEF Spec
-----------------------------------------------------------------------------
(* Refunds implements Settlement.                                          *)

(* What the reversals have taken out of the clearing account.              *)
Taken == IF mocked THEN 0 ELSE -book.balance["cash_clearing"]

PromiseVars == <<Returned, TakenBack, Taken>>

(* A step that reverses nothing, and in which Paystack settles nothing.    *)
LEMMA QuietStep ==
  ASSUME ReversedStay, mocked' = mocked,
         book'.balance["cash_clearing"] = book.balance["cash_clearing"],
         \A i \in RefundIds :
           /\ provider'[i] = "processed" <=> provider[i] = "processed"
           /\ provider[i] = "processed" =>
                refund'[i].payment = refund[i].payment
  PROVE  UNCHANGED PromiseVars
<1>1. \A x \in PaymentIds :
        (\E i \in RefundsOf(x) : provider[i] = "processed")'
          <=> \E i \in RefundsOf(x) : provider[i] = "processed"
  BY DEF RefundsOf
<1>2. \A i \in RefundIds :
        /\ refund'[i].reversed <=> refund[i].reversed
        /\ refund[i].reversed => refund'[i].payment = refund[i].payment
  BY DEF ReversedStay
<1>3. \A x \in PaymentIds :
        (\E i \in RefundsOf(x) : refund[i].reversed)'
          <=> \E i \in RefundsOf(x) : refund[i].reversed
  BY <1>2 DEF RefundsOf
<1>4. Returned' = Returned /\ TakenBack' = TakenBack
  BY <1>1, <1>3 DEF Returned, TakenBack
<1> QED
  BY <1>4 DEF PromiseVars, Taken

(* Nothing that the promise is about changes.                              *)
LEMMA RowsLeftAlone ==
  ASSUME UNCHANGED <<refund, mocked, provider>>,
         book'.balance["cash_clearing"] = book.balance["cash_clearing"]
  PROVE  UNCHANGED PromiseVars
<1>1. ReversedStay
  BY DEF ReversedStay
<1> QED
  BY <1>1, QuietStep

LEMMA StatusIsQuiet ==
  ASSUME IInv, NEW i \in RefundIds, NEW s \in RefundStatus, NEW b \in BOOLEAN,
         \/ refund' = [refund EXCEPT ![i].status = s]
         \/ refund' = [refund EXCEPT ![i].known = b],
         UNCHANGED <<book, mocked, provider>>
  PROVE  UNCHANGED PromiseVars
<1>1. /\ ReversedStay /\ refund'[i].payment = refund[i].payment
      /\ \A k \in RefundIds \ {i} : refund'[k] = refund[k]
  BY RowWritten DEF IInv
<1> QED
  BY <1>1, QuietStep

LEMMA CreateIsQuiet ==
  ASSUME IInv, NEW r \in Requests, CreateRefund(r)
  PROVE  UNCHANGED PromiseVars
<1>1. PICK i \in RefundIds :
        /\ refund[i] = NoRefund
        /\ refund' = [refund EXCEPT ![i] =
             [NoRefund EXCEPT !.payment = job[r].payment,
                !.status = IF mocked THEN "PROCESSED" ELSE "PROCESSING"]]
  BY DEF CreateRefund
<1>2. UNCHANGED <<book, mocked, provider>>
  BY DEF CreateRefund, given, external
<1> DEFINE new == [NoRefund EXCEPT !.payment = job[r].payment,
                     !.status = IF mocked THEN "PROCESSED" ELSE "PROCESSING"]
<1>3. new.reversed = FALSE /\ new.flagged = FALSE
  BY DEF NoRefund
<1>4. refund' = [refund EXCEPT ![i] = new]
  BY <1>1
<1> HIDE DEF new
<1>5. /\ refund'[i] = new
      /\ \A k \in RefundIds \ {i} : refund'[k] = refund[k]
  BY <1>4 DEF IInv, TypeOK
<1>6. /\ refund[i].payment = NoPayment /\ refund[i].reversed = FALSE
      /\ refund[i].flagged = FALSE
  BY <1>1 DEF NoRefund
<1>7. provider[i] = "none"
  BY <1>6 DEF IInv, EmptyRows
<1>8. ReversedStay
  BY <1>3, <1>5, <1>6 DEF ReversedStay
<1> QED
  BY <1>2, <1>5, <1>7, <1>8, QuietStep

(* Paystack takes a refund, or settles it.                                 *)
LEMMA PaystackMoves ==
  ASSUME IInv, NEW i \in RefundIds, provider[i] # "processed",
         NEW s, provider' = [provider EXCEPT ![i] = s],
         UNCHANGED <<refund, book, mocked>>
  PROVE  [Promise!Next]_PromiseVars
<1>1. /\ provider'[i] = s
      /\ \A k \in RefundIds \ {i} : provider'[k] = provider[k]
  BY DEF IInv, TypeOK
<1>2. CASE s # "processed"
  <2>1. ReversedStay
    BY DEF ReversedStay
  <2>2. UNCHANGED PromiseVars
    BY <1>1, <1>2, <2>1, QuietStep
  <2> QED
    BY <2>2
<1>3. CASE s = "processed"
  <2>1. PICK x : x = refund[i].payment
    OBVIOUS
  <2>2. \A y \in PaymentIds : y # x =>
          ((\E k \in RefundsOf(y) : provider[k] = "processed")'
             <=> \E k \in RefundsOf(y) : provider[k] = "processed")
    BY <1>1, <2>1 DEF RefundsOf
  <2>3. (\E k \in RefundsOf(x) : provider[k] = "processed")'
    BY <1>1, <1>3, <2>1 DEF RefundsOf
  <2>4. TakenBack' = TakenBack /\ Taken' = Taken
    BY DEF TakenBack, Taken, RefundsOf
  <2>5. Returned' = Returned \/ (x \in PaymentIds /\ Returned' = Returned \cup {x})
    BY <2>2, <2>3 DEF Returned
  <2>6. CASE Returned' = Returned
    BY <2>4, <2>6 DEF PromiseVars
  <2>7. CASE /\ x \in PaymentIds /\ Returned' = Returned \cup {x}
             /\ x \notin Returned
    <3>1. Promise!Settle(x)
      BY <2>4, <2>7 DEF Promise!Settle, Taken
    <3> QED
      BY <2>7, <3>1 DEF Promise!Next
  <2> QED
    BY <2>5, <2>6, <2>7
<1> QED
  BY <1>2, <1>3

(* The first reversal of a refund to commit takes the whole payment out of *)
(* clearing; no other refund of the payment was reversed, because Paystack *)
(* gives a payment back once.  A later one changes nothing there.          *)
LEMMA CommitEnters ==
  ASSUME IInv, NEW w \in Workers, Commit(w)
  PROVE  [Promise!Next]_PromiseVars
<1>1. UNCHANGED <<mocked, provider, heard, driven>>
  BY DEF Commit, given, external
<1>2. PICK i : i = job[w].refund
  OBVIOUS
<1>3. PICK x : x = job[w].payment
  OBVIOUS
<1>4. i \in RefundIds /\ x \in PaymentIds /\ refund[i].payment = x
  BY <1>2, <1>3, AtCommit
<1>5. /\ Reversed' = Reversed \cup {i}
      /\ \A k \in RefundIds : refund'[k].payment = refund[k].payment
  BY <1>2, CommittedRow
<1>6. \A k \in RefundIds : refund'[k].reversed <=> refund[k].reversed \/ k = i
  BY <1>5 DEF Reversed
<1>7. \A y \in PaymentIds : RefundsOf(y)' = RefundsOf(y)
  BY <1>5 DEF RefundsOf
<1>8. Returned' = Returned
  BY <1>1, <1>7 DEF Returned
<1>9. book'.balance["cash_clearing"] = book.balance["cash_clearing"]
        - (IF i \in Reversed THEN 0 ELSE Amount[x])
  BY <1>2, <1>3, CommittedBook
<1>10. book.balance["cash_clearing"] \in Int /\ Amount[x] \in Int
  BY <1>4, HoldersDiffer, Shared DEF IInv, TypeOK
<1>11. CASE mocked
  <2>1. /\ Returned = {} /\ TakenBack = {} /\ Taken = 0
        /\ Returned' = {} /\ TakenBack' = {} /\ Taken' = 0
    BY <1>1, <1>11 DEF Returned, TakenBack, Taken
  <2> QED
    BY <2>1 DEF PromiseVars
<1>12. CASE i \in Reversed
  <2>1. \A k \in RefundIds : refund'[k].reversed <=> refund[k].reversed
    BY <1>6, <1>12 DEF Reversed
  <2>2. \A y \in PaymentIds :
          (\E k \in RefundsOf(y) : refund[k].reversed)'
            <=> \E k \in RefundsOf(y) : refund[k].reversed
    BY <1>5, <2>1 DEF RefundsOf
  <2>3. TakenBack' = TakenBack
    BY <1>1, <2>2 DEF TakenBack
  <2>4. Taken' = Taken
    BY <1>1, <1>9, <1>10, <1>12 DEF Taken
  <2> QED
    BY <1>8, <2>3, <2>4 DEF PromiseVars
<1>13. CASE ~mocked /\ i \notin Reversed
  <2>1. TakenBack' = TakenBack \cup {x}
    <3>1. \A y \in PaymentIds :
            (\E k \in RefundsOf(y) : refund[k].reversed)'
              <=> y = x \/ \E k \in RefundsOf(y) : refund[k].reversed
      BY <1>4, <1>5, <1>6 DEF RefundsOf
    <3> QED
      BY <1>1, <1>4, <1>13, <3>1 DEF TakenBack
  <2>2. provider[i] = "processed" /\ ~refund[i].reversed
    <3>1. pc[w] \in Reversals
      BY AtCommit DEF Reversals
    <3> QED
      BY <1>2, <1>4, <1>13, <3>1 DEF IInv, ReversalsAreDue, Reversed
  <2>3. x \in Returned
    BY <1>4, <1>13, <2>2 DEF Returned, RefundsOf
  <2>4. x \notin TakenBack
    <3>1. ASSUME NEW k \in RefundsOf(x), refund[k].reversed
          PROVE  FALSE
      <4>1. k \in RefundIds /\ refund[k].payment = refund[i].payment
        BY <1>4, <3>1 DEF RefundsOf
      <4>2. provider[k] = "processed"
        BY <1>13, <3>1, <4>1 DEF IInv, ProcessedByPaystack
      <4>3. k = i
        BY <1>4, <2>2, <4>1, <4>2 DEF IInv, OneAtPaystack
      <4> QED
        BY <2>2, <3>1, <4>3
    <3> QED
      BY <3>1 DEF TakenBack
  <2>5. Taken' = Taken + Amount[x]
    <3>1. book'.balance["cash_clearing"]
            = book.balance["cash_clearing"] - Amount[x]
      BY <1>9, <1>13
    <3>2. /\ Taken = -book.balance["cash_clearing"]
          /\ Taken' = -book'.balance["cash_clearing"]
      BY <1>1, <1>13 DEF Taken
    <3> QED
      BY <1>10, <3>1, <3>2
  <2>6. Promise!Enter(x)
    BY <1>8, <2>1, <2>3, <2>4, <2>5 DEF Promise!Enter, Taken
  <2> QED
    BY <1>4, <2>6 DEF Promise!Next
<1> QED
  BY <1>11, <1>12, <1>13

LEMMA PromiseByRequest ==
  ASSUME IInv, NEW r \in Requests, RequestStep(r)
  PROVE  [Promise!Next]_PromiseVars
<1>1. r \in Workers
  BY DEF Workers
<1>2. CASE CreateRefund(r)
  BY <1>2, CreateIsQuiet
<1>3. CASE PaystackAccepts(r)
  <2>1. /\ job[r].refund \in RefundIds
        /\ refund[job[r].refund].payment = job[r].payment
    BY <1>1, <1>3, WorkRow DEF PaystackAccepts
  <2>2. PICK i \in RefundIds : i = job[r].refund
    BY <2>1
  <2>3. provider[i] # "processed"
    BY <1>3, <2>1, <2>2 DEF PaystackAccepts, RefundsOf
  <2>4. /\ provider' = [provider EXCEPT ![i] = "pending"]
        /\ UNCHANGED <<refund, book, mocked>>
    BY <1>3, <2>2 DEF PaystackAccepts, rows, given
  <2> QED
    BY <2>3, <2>4, PaystackMoves
<1>4. CASE FailRefund(r) \/ StoreReference(r)
  <2>1. PICK i \in RefundIds : i = job[r].refund
    BY <1>1, <1>4, WorkRow DEF FailRefund, StoreReference
  <2>2. /\ \/ refund' = [refund EXCEPT ![i].status = "FAILED"]
           \/ refund' = [refund EXCEPT ![i].known = TRUE]
        /\ UNCHANGED <<book, mocked, provider>>
    BY <1>4, <2>1 DEF FailRefund, StoreReference, given, external
  <2>3. "FAILED" \in RefundStatus
    BY DEF RefundStatus
  <2>4. UNCHANGED PromiseVars
    BY <2>2, <2>3, StatusIsQuiet
  <2> QED
    BY <2>4
<1>5. CASE (\E x \in PaymentIds : RequestRefund(r, x)) \/ PaystackRefuses(r)
  BY <1>5, RowsLeftAlone DEF RequestRefund, PaystackRefuses, rows, given, external
<1> QED
  BY <1>2, <1>3, <1>4, <1>5 DEF RequestStep

LEMMA PromiseByHandler ==
  ASSUME IInv, NEW h \in Handlers, HandlerStep(h)
  PROVE  [Promise!Next]_PromiseVars
<1>1. h \in Workers
  BY DEF Workers
<1>2. CASE UpdateRefund(h)
  <2>1. PICK i \in RefundIds : i = job[h].refund
    BY <1>1, <1>2, WorkRow DEF UpdateRefund
  <2>2. PICK s : s = AnnouncedStatus(i, job[h].kind)
    OBVIOUS
  <2>3. job[h].kind \in Kinds
    BY <1>1, <1>2, WorkRow DEF UpdateRefund
  <2>4. s \in RefundStatus
    BY <2>2, <2>3 DEF AnnouncedStatus, RefundStatus, Kinds
  <2>5. /\ refund' = [refund EXCEPT ![i].status = s]
        /\ UNCHANGED <<book, mocked, provider>>
    BY <1>2, <2>1, <2>2 DEF UpdateRefund, given, external
  <2>6. UNCHANGED PromiseVars
    BY <2>4, <2>5, StatusIsQuiet
  <2> QED
    BY <2>6
<1>3. CASE \/ \E i \in RefundIds, kind \in Kinds : BeginEvent(h, i, kind)
           \/ MarkProcessed(h)
  BY <1>3, RowsLeftAlone DEF BeginEvent, MarkProcessed, rows, given, external
<1> QED
  BY <1>2, <1>3 DEF HandlerStep

LEMMA PromiseByReversal ==
  ASSUME IInv, NEW w \in Workers, ReversalStep(w)
  PROVE  [Promise!Next]_PromiseVars
<1>1. CASE ReadRefund(w) \/ LookUp(w) \/ RollBack(w)
  BY <1>1, RowsLeftAlone
  DEF ReadRefund, LookUp, RollBack, rows, given, external
<1> QED
  BY <1>1, CommitEnters DEF ReversalStep

LEMMA PromiseStep ==
  ASSUME IInv, [Next]_vars
  PROVE  [Promise!Next]_PromiseVars
<1>1. ASSUME NEW w \in Workers, WorkerFails(w)
      PROVE  UNCHANGED PromiseVars
  BY <1>1, RowsLeftAlone DEF WorkerFails, rows, given, external
<1>2. ASSUME NEW c \in Reconcilers, NEW i \in RefundIds,
             BeginReconciliation(c, i)
      PROVE  UNCHANGED PromiseVars
  BY <1>2, RowsLeftAlone DEF BeginReconciliation, rows, given, external
<1>3. ASSUME NEW i \in RefundIds, NEW outcome \in {"processed", "failed"},
             PaystackSettles(i, outcome)
      PROVE  [Promise!Next]_PromiseVars
  BY <1>3, PaystackMoves DEF PaystackSettles, rows, given
<1>4. ASSUME NEW x \in PaymentIds, PayoutStep(x)
      PROVE  UNCHANGED PromiseVars
  BY <1>4, RowsLeftAlone
  DEF PayoutStep, ReviewPayout, SendPayout, MovePayout, given,
      external
<1>5. ASSUME NEW d \in Drivers, WalletMoves(d)
      PROVE  UNCHANGED PromiseVars
  <2>1. UNCHANGED <<refund, mocked, provider>>
    BY <1>5 DEF WalletMoves, given, external
  <2>2. PICK b : book' = [book EXCEPT !.balance[d] = b]
    BY <1>5 DEF WalletMoves
  <2>3. book'.balance = [book.balance EXCEPT ![d] = b]
    BY <2>2
  <2>4. book'.balance["cash_clearing"] = book.balance["cash_clearing"]
    BY <2>3, HoldersDiffer DEF IInv, TypeOK
  <2> QED
    BY <2>1, <2>4, RowsLeftAlone
<1>6. CASE UNCHANGED vars
  BY <1>6, RowsLeftAlone DEF vars, rows, given, external
<1> QED
  BY <1>1, <1>2, <1>3, <1>4, <1>5, <1>6, PromiseByRequest, PromiseByHandler,
     PromiseByReversal DEF Next

LEMMA PromiseInit ==
  ASSUME Init PROVE Promise!Init
<1>1. /\ \A i \in RefundIds : refund[i].reversed = FALSE
      /\ book.balance["cash_clearing"] = 0
  BY HoldersDiffer DEF Init, NoRefund, EmptyBook
<1>2. Returned \subseteq PaymentIds /\ TakenBack = {}
  BY <1>1 DEF Returned, TakenBack, RefundsOf
<1>3. Taken = 0
  BY <1>1, NoneTaken DEF Taken
<1> QED
  BY <1>2, <1>3 DEF Promise!Init, Taken

(* The reversal of refunds implements Settlement: a payment leaves the     *)
(* clearing account only after Paystack has given it back, in one step,    *)
(* all of it and once, however many rows its refunds have and whatever is  *)
(* asked for twice, lost, cut short, announced late or reconciled.         *)
THEOREM RefundsKeepPromise == Spec => RefundPromise
<1>1. Init => Promise!Init
  BY PromiseInit
<1>2. IInv /\ [Next]_vars
        => [Promise!Next]_<<Returned, TakenBack,
                            IF mocked THEN 0 ELSE -book.balance["cash_clearing"]>>
  BY PromiseStep DEF PromiseVars, Taken
<1> QED
  BY <1>1, <1>2, Invariance, PTL DEF Spec, RefundPromise, Promise!Spec
=============================================================================
