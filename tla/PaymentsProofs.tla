--------------------------- MODULE PaymentsProofs ---------------------------
(***************************************************************************)
(* Proofs about Payments, for any number of trips, drivers and concurrent  *)
(* handlers, any fares, and any bound on faults and crashes.               *)
(***************************************************************************)
EXTENDS Payments, MoneyProofs

LEMMA SharesAreInt ==
  ASSUME NEW t \in Trips
  PROVE  /\ Gross[t] \in Int
         /\ DriverShare(Gross[t]) \in Int
         /\ CommissionShare(Gross[t]) \in Int
<1>1. Gross[t] \in Nat
  BY PaymentsAssumption
<1>2. DriverShare(Gross[t]) \in Nat /\ CommissionShare(Gross[t]) \in Nat
  BY <1>1, SplitIsExact
<1> QED
  BY <1>1, <1>2

LEMMA CaptureGrossFacts ==
  ASSUME NEW b, b.balance \in [Holders -> Int], NEW t \in Trips
  PROVE  /\ CaptureGross(b, t).refs
              = b.refs \cup {Ref(t, "captured"), Ref(t, "commission")}
         /\ CaptureGross(b, t).balance \in [Holders -> Int]
<1> DEFINE c == Post(b, Ref(t, "captured"), "cash_clearing", Gross[t])
<1>1. "cash_clearing" \in Holders /\ "commission_revenue" \in Holders
  BY DEF Holders, LedgerAccounts
<1>2. /\ c.refs = b.refs \cup {Ref(t, "captured")}
      /\ c.balance \in [Holders -> Int]
  BY <1>1, SharesAreInt, PostFacts
<1> HIDE DEF c
<1>3. LET d == Post(c, Ref(t, "commission"), "commission_revenue",
                    CommissionShare(Gross[t]))
      IN  /\ d.refs = c.refs \cup {Ref(t, "commission")}
          /\ d.balance \in [Holders -> Int]
  BY <1>1, <1>2, SharesAreInt, PostFacts
<1> QED
  BY <1>2, <1>3 DEF CaptureGross, c

LEMMA CaptureEarningFacts ==
  ASSUME NEW b, b.balance \in [Holders -> Int],
         NEW t \in Trips
  PROVE  /\ CaptureEarning(b, t).refs
              = b.refs \cup {Ref(t, "driver-earning"), Ref(t, "driver-payable")}
         /\ CaptureEarning(b, t).balance \in [Holders -> Int]
<1> DEFINE c == Post(b, Ref(t, "driver-earning"), DriverOf[t],
                     DriverShare(Gross[t]))
<1>1. "driver_payable" \in Holders /\ DriverOf[t] \in Holders
  BY PaymentsAssumption DEF Holders, LedgerAccounts
<1>2. /\ c.refs = b.refs \cup {Ref(t, "driver-earning")}
      /\ c.balance \in [Holders -> Int]
  BY <1>1, SharesAreInt, PostFacts
<1> HIDE DEF c
<1>3. LET d == Post(c, Ref(t, "driver-payable"), "driver_payable",
                    DriverShare(Gross[t]))
      IN  /\ d.refs = c.refs \cup {Ref(t, "driver-payable")}
          /\ d.balance \in [Holders -> Int]
  BY <1>1, <1>2, SharesAreInt, PostFacts
<1> QED
  BY <1>2, <1>3 DEF CaptureEarning, c

LEMMA CapturePayoutFacts ==
  ASSUME NEW b, b.balance \in [Holders -> Int], NEW t \in Trips
  PROVE  /\ CapturePayout(b, t).refs
              = b.refs \cup {PayoutRef(t, payouts[t] + 1)}
         /\ CapturePayout(b, t).balance \in [Holders -> Int]
<1>1. "payout_clearing" \in Holders
  BY DEF Holders, LedgerAccounts
<1> QED
  BY <1>1, SharesAreInt, PostFacts DEF CapturePayout

(* The rows of the payment table.                                          *)
Rows == [status : PaymentStatus, provider : Providers, confirmed : BOOLEAN]

(* The postings a capture makes.                                           *)
CaptureRefs == {"captured", "commission", "driver-earning", "driver-payable"}

(* capturePaymentForTrip as a whole: what it may change, and that its      *)
(* postings come all together.                                             *)
LEMMA CaptureEffect ==
  ASSUME book.balance \in [Holders -> Int],
         payouts \in [Trips -> Nat],
         payment \in [Trips -> Rows],
         NEW t \in Trips, Capture(t)
  PROVE  /\ book'.balance \in [Holders -> Int]
         /\ payouts' \in [Trips -> Nat]
         /\ payment' \in [Trips -> Rows]
         /\ \A u \in Trips :
              /\ payment'[u].status = IF u = t /\ Capturable(t)
                                      THEN "CAPTURED" ELSE payment[u].status
              /\ payment'[u].provider = payment[u].provider
              /\ payment'[u].confirmed = payment[u].confirmed
         /\ \A u \in Trips, name \in CaptureRefs :
              Ref(u, name) \in book'.refs <=>
                \/ Ref(u, name) \in book.refs
                \/ u = t /\ Capturable(t)
<1>1. ASSUME Capturable(t)
      PROVE  /\ payment' \in [Trips -> Rows]
             /\ \A u \in Trips :
                  /\ payment'[u].status = IF u = t THEN "CAPTURED"
                                          ELSE payment[u].status
                  /\ payment'[u].provider = payment[u].provider
                  /\ payment'[u].confirmed = payment[u].confirmed
  <2>1. payment' = [payment EXCEPT ![t].status = "CAPTURED"]
    BY <1>1 DEF Capture
  <2>2. "CAPTURED" \in PaymentStatus
    BY DEF PaymentStatus
  <2>3. payment' \in [Trips -> Rows]
    BY <2>1, <2>2 DEF Rows
  <2>4. \A u \in Trips :
          /\ payment'[u].status = IF u = t THEN "CAPTURED"
                                  ELSE payment[u].status
          /\ payment'[u].provider = payment[u].provider
          /\ payment'[u].confirmed = payment[u].confirmed
    BY <2>1 DEF Rows
  <2> QED
    BY <2>3, <2>4
<1>2. CASE Capturable(t)
  <2>1. /\ book' = CapturePayout(CaptureEarning(CaptureGross(book, t), t), t)
        /\ payouts' = [payouts EXCEPT ![t] = @ + 1]
    BY <1>2 DEF Capture
  <2> DEFINE g == CaptureGross(book, t)
             e == CaptureEarning(g, t)
  <2>2. /\ g.refs = book.refs \cup {Ref(t, "captured"), Ref(t, "commission")}
        /\ g.balance \in [Holders -> Int]
    BY CaptureGrossFacts
  <2> HIDE DEF g
  <2>3. /\ e.refs = g.refs \cup
                      {Ref(t, "driver-earning"), Ref(t, "driver-payable")}
        /\ e.balance \in [Holders -> Int]
    BY <1>2, <2>2, CaptureEarningFacts
  <2> HIDE DEF e
  <2>4. /\ book'.refs = e.refs \cup {PayoutRef(t, payouts[t] + 1)}
        /\ book'.balance \in [Holders -> Int]
    BY <2>1, <2>3, CapturePayoutFacts DEF e, g
  <2>5. book'.refs = book.refs \cup
          {Ref(t, "captured"), Ref(t, "commission"), Ref(t, "driver-earning"),
           Ref(t, "driver-payable"), PayoutRef(t, payouts[t] + 1)}
    BY <2>2, <2>3, <2>4
  <2>6. \A u \in Trips, name \in CaptureRefs :
          Ref(u, name) \in book'.refs <=>
            Ref(u, name) \in book.refs \/ u = t
    BY <1>2, <2>5 DEF Ref, PayoutRef, CaptureRefs
  <2>7. payouts' \in [Trips -> Nat]
    BY <2>1
  <2> QED
    BY <1>1, <1>2, <2>4, <2>6, <2>7
<1>3. CASE ~Capturable(t)
  BY <1>3 DEF Capture, payVars
<1> QED
  BY <1>2, <1>3
-----------------------------------------------------------------------------
(* Type correctness.                                                       *)

LEMMA TypeInit ==
  ASSUME Init PROVE TypeOK
<1> USE PaymentsAssumption DEF Init
<1>1. book.balance \in [Holders -> Int]
  BY DEF EmptyBook
<1>2. payment \in [Trips -> [status : PaymentStatus, provider : Providers,
                            confirmed : BOOLEAN]]
  BY DEF PaymentStatus, Providers
<1>3. event \in [Trips -> [ChargeEvents ->
                   [status : EventStatus, processed : BOOLEAN]]]
  BY DEF EventStatus
<1>4. tripPc \in [Trips -> TripPcs] /\ hpc \in [Handlers -> HandlerPcs]
  BY DEF TripPcs, HandlerPcs
<1> QED
  BY <1>1, <1>2, <1>3, <1>4 DEF TypeOK

(* The rows of the provider_event table, and an update of one of them.     *)
EventRows == [status : EventStatus, processed : BOOLEAN]

LEMMA EventStatusUpdate ==
  ASSUME NEW e \in [Trips -> [ChargeEvents -> EventRows]],
         NEW t \in Trips, NEW k \in ChargeEvents, NEW s \in EventStatus
  PROVE  /\ [e EXCEPT ![t][k].status = s]
              \in [Trips -> [ChargeEvents -> EventRows]]
         /\ \A u \in Trips, l \in ChargeEvents :
              u # t \/ l # k => [e EXCEPT ![t][k].status = s][u][l] = e[u][l]
<1>1. [e[t][k] EXCEPT !.status = s] \in EventRows
  BY DEF EventRows
<1>2. [e[t] EXCEPT ![k] = [e[t][k] EXCEPT !.status = s]]
         \in [ChargeEvents -> EventRows]
  BY <1>1
<1> QED
  BY <1>1, <1>2

(* A whole cell of a table kept per trip and event is replaced.            *)
LEMMA CellUpdate ==
  ASSUME NEW V, NEW e \in [Trips -> [ChargeEvents -> V]],
         NEW t \in Trips, NEW k \in ChargeEvents, NEW r \in V
  PROVE  /\ [e EXCEPT ![t][k] = r] \in [Trips -> [ChargeEvents -> V]]
         /\ \A u \in Trips, l \in ChargeEvents :
              u # t \/ l # k => [e EXCEPT ![t][k] = r][u][l] = e[u][l]
  OBVIOUS

(* The first postings of a payment.                                        *)
LEMMA ClearingPost ==
  ASSUME book.balance \in [Holders -> Int], NEW t \in Trips, NEW name
  PROVE  LET b == Post(book, Ref(t, name), "cash_clearing", Gross[t])
         IN  /\ b.balance \in [Holders -> Int]
             /\ b.refs = book.refs \cup {Ref(t, name)}
<1>1. "cash_clearing" \in Holders
  BY DEF Holders, LedgerAccounts
<1> QED
  BY <1>1, SharesAreInt, PostFacts

LEMMA TypeTripStep ==
  ASSUME TypeOK, NEW t \in Trips, TripStep(t)
  PROVE  TypeOK'
<1> USE DEF TypeOK, TripPcs, vars, payVars, handlerVars
<1>1. ASSUME NEW p \in Providers, InitiatePayment(t, p) PROVE TypeOK'
  <2>1. payment' \in [Trips -> [status : PaymentStatus, provider : Providers,
                               confirmed : BOOLEAN]]
    <3>1. /\ payment \in [Trips -> Rows]
          /\ "PENDING" \in PaymentStatus
          /\ payment' = [payment EXCEPT ![t].status = "PENDING",
                                        ![t].provider = p]
      BY <1>1 DEF InitiatePayment, PaymentStatus, Rows
    <3> QED
      BY ONLY <3>1, t \in Trips, p \in Providers DEF Rows
  <2>2. book'.balance \in [Holders -> Int]
    BY <1>1, ClearingPost DEF InitiatePayment
  <2> QED
    BY <1>1, <2>1, <2>2 DEF InitiatePayment
<1>2. CASE DriverAccept(t)
  BY <1>2 DEF DriverAccept
<1>3. CASE AcceptDispatch(t)
  BY <1>3 DEF AcceptDispatch
<1>4. CASE Authorize(t)
  <2>1. payment' \in [Trips -> [status : PaymentStatus, provider : Providers,
                               confirmed : BOOLEAN]]
    <3>1. /\ payment \in [Trips -> Rows]
          /\ "AUTHORIZED" \in PaymentStatus
          /\ \/ payment' = [payment EXCEPT ![t].status = "AUTHORIZED"]
             \/ payment' = payment
      BY <1>4 DEF Authorize, PaymentStatus, Rows
    <3> QED
      BY ONLY <3>1, t \in Trips DEF Rows
  <2>2. book'.balance \in [Holders -> Int]
    BY <1>4, ClearingPost DEF Authorize
  <2>3. tripPc' \in [Trips -> TripPcs]
    BY <1>4 DEF Authorize
  <2> QED
    BY <1>4, <2>1, <2>2, <2>3 DEF Authorize
<1>5. CASE CompleteTrip(t)
  BY <1>5 DEF CompleteTrip
<1>6. CASE CaptureOnComplete(t)
  BY <1>6, CaptureEffect DEF CaptureOnComplete, Rows
<1>7. CASE RequestCrash(t)
  <2>1. crashes' \in 0..MaxCrashes
    BY <1>7, PaymentsAssumption DEF RequestCrash
  <2>2. tripPc' \in [Trips -> TripPcs]
    BY <1>7 DEF RequestCrash
  <2> QED
    BY <1>7, <2>1, <2>2 DEF RequestCrash
<1>8. ASSUME NEW k \in Outcomes, ChargeAttempt(t, k) PROVE TypeOK'
  BY <1>8, PaymentsAssumption DEF ChargeAttempt
<1> QED
  BY <1>1, <1>2, <1>3, <1>4, <1>5, <1>6, <1>7, <1>8 DEF TripStep

LEMMA TypeStartStep ==
  ASSUME TypeOK, NEW h \in Handlers, NEW t \in Trips, NEW k \in ChargeEvents,
         StartStep(h, t, k)
  PROVE  TypeOK'
<1> USE DEF TypeOK, payVars, handlerVars
<1>1. ASSUME NEW pc \in HandlerPcs \ {"idle"},
             NEW source \in {"webhook", "retry"}, Start(h, t, k, source, pc)
      PROVE  /\ hpc' \in [Handlers -> HandlerPcs]
             /\ job' \in [Handlers -> Jobs \cup {NoJob}]
             /\ \A g \in Handlers : hpc'[g] = "idle" <=> job'[g] = NoJob
  BY <1>1, PaymentsAssumption DEF Start, Jobs, PaymentStatus
<1>2. {"begin", "deadletter"} \subseteq HandlerPcs \ {"idle"}
  BY DEF HandlerPcs
<1>3. CASE ReceiveWebhook(h, t, k)
  <2> DEFINE s == IF event[t][k].status = "NONE" THEN "PENDING"
                  ELSE event[t][k].status
  <2>1. event[t][k].status \in EventStatus /\ s \in EventStatus
    BY DEF EventStatus
  <2>2. event' = [event EXCEPT ![t][k].status = s]
    BY <1>3 DEF ReceiveWebhook
  <2> HIDE DEF s
  <2>3. event' \in [Trips -> [ChargeEvents ->
                      [status : EventStatus, processed : BOOLEAN]]]
    BY <2>1, <2>2, EventStatusUpdate DEF EventRows
  <2>4. CASE Start(h, t, k, "webhook", "begin") /\ UNCHANGED acked
    BY <1>1, <1>2, <1>3, <2>3, <2>4 DEF ReceiveWebhook
  <2>5. CASE acked' = [acked EXCEPT ![t][k] = TRUE] /\ UNCHANGED handlerVars
    BY <1>3, <2>3, <2>5 DEF ReceiveWebhook
  <2> QED
    BY <1>3, <2>4, <2>5 DEF ReceiveWebhook
<1>4. CASE SchedulerRetry(h, t, k)
  BY <1>1, <1>2, <1>4 DEF SchedulerRetry
<1>5. CASE AdminRetry(h, t, k)
  BY <1>1, <1>2, <1>5 DEF AdminRetry
<1>6. CASE AdminDeadLetter(h, t, k)
  BY <1>1, <1>2, <1>6 DEF AdminDeadLetter
<1> QED
  BY <1>3, <1>4, <1>5, <1>6 DEF StartStep

LEMMA TypeHandlerStep ==
  ASSUME TypeOK, NEW h \in Handlers, HandlerStep(h)
  PROVE  TypeOK'
<1> USE DEF TypeOK, payVars, handlerVars
<1>1. ASSUME hpc[h] # "idle"
      PROVE  /\ job[h] \in Jobs
             /\ job[h].trip \in Trips
             /\ job[h].kind \in ChargeEvents
             /\ job[h].seen \in PaymentStatus
  BY <1>1 DEF Jobs
<1>2. ASSUME NEW pc \in HandlerPcs \ {"idle"}, Goto(h, pc),
             hpc[h] # "idle", UNCHANGED job
      PROVE  /\ hpc' \in [Handlers -> HandlerPcs]
             /\ \A g \in Handlers : hpc'[g] = "idle" <=> job'[g] = NoJob
  BY <1>2 DEF Goto
<1>3. ASSUME Finish(h)
      PROVE  /\ hpc' \in [Handlers -> HandlerPcs]
             /\ job' \in [Handlers -> Jobs \cup {NoJob}]
             /\ \A g \in Handlers : hpc'[g] = "idle" <=> job'[g] = NoJob
  BY <1>3 DEF Finish, Goto, HandlerPcs
<1>4. ASSUME hpc[h] # "idle", NEW s \in EventStatus,
             event' = [event EXCEPT ![job[h].trip][job[h].kind].status = s]
      PROVE  event' \in [Trips -> [ChargeEvents ->
                           [status : EventStatus, processed : BOOLEAN]]]
  <2> DEFINE t == job[h].trip
             k == job[h].kind
  <2>1. /\ t \in Trips /\ k \in ChargeEvents
        /\ event' = [event EXCEPT ![t][k].status = s]
    BY <1>1, <1>4
  <2> HIDE DEF t, k
  <2> QED
    BY <2>1, EventStatusUpdate DEF EventRows
<1>5. ASSUME hpc[h] # "idle", Acknowledge(h)
      PROVE  acked' \in [Trips -> [ChargeEvents -> BOOLEAN]]
  <2> DEFINE t == job[h].trip
             k == job[h].kind
  <2>1. /\ t \in Trips /\ k \in ChargeEvents
        /\ acked' = acked \/ acked' = [acked EXCEPT ![t][k] = TRUE]
    BY <1>1, <1>5 DEF Acknowledge
  <2> HIDE DEF t, k
  <2>2. [acked EXCEPT ![t][k] = TRUE] \in [Trips -> [ChargeEvents -> BOOLEAN]]
    BY <2>1, CellUpdate
  <2> QED
    BY <2>1, <2>2
<1>6. {"PENDING", "PROCESSED", "FAILED", "DEAD_LETTER"} \subseteq EventStatus
  BY DEF EventStatus
<1>7. HandlerPcs \ {"idle"} =
        {"begin", "read", "write", "trip", "capture", "done", "failing",
         "deadletter"}
  BY DEF HandlerPcs
<1>8. CASE WriteDeadLetter(h)
  BY <1>3, <1>4, <1>6, <1>8 DEF WriteDeadLetter
<1>9. CASE Begin(h)
  BY <1>2, <1>4, <1>6, <1>7, <1>9 DEF Begin
<1>10. CASE ReadPayment(h)
  <2>1. payment[job[h].trip].status \in PaymentStatus
    BY <1>1, <1>10 DEF ReadPayment
  <2>2. job' \in [Handlers -> Jobs \cup {NoJob}] /\ job'[h] # NoJob
    BY <1>1, <1>10, <2>1, PaymentsAssumption DEF ReadPayment, Jobs
  <2>3. /\ hpc' \in [Handlers -> HandlerPcs]
        /\ \A g \in Handlers : hpc'[g] = "idle" <=> job'[g] = NoJob
    BY <1>7, <1>10, <2>2 DEF ReadPayment, Goto
  <2> QED
    BY <1>10, <2>2, <2>3 DEF ReadPayment
<1>11. CASE WriteConfirmation(h)
  <2>1. payment' \in [Trips -> [status : PaymentStatus, provider : Providers,
                               confirmed : BOOLEAN]]
    <3> DEFINE t == job[h].trip
               s == IF job[h].seen = "PENDING" THEN "AUTHORIZED"
                    ELSE job[h].seen
    <3>1. /\ t \in Trips /\ s \in PaymentStatus
          /\ payment \in [Trips -> Rows]
          /\ payment' = [payment EXCEPT ![t].confirmed = TRUE,
                                        ![t].status = s]
      BY <1>1, <1>11 DEF WriteConfirmation, PaymentStatus, Rows
    <3> HIDE DEF t, s
    <3> DEFINE row == [payment[t] EXCEPT !.confirmed = TRUE, !.status = s]
    <3>2. row \in Rows
      BY ONLY <3>1 DEF Rows
    <3>3. payment' = [payment EXCEPT ![t] = row]
      BY <3>1
    <3> HIDE DEF row
    <3>4. payment' \in [Trips -> Rows]
      BY ONLY <3>1, <3>2, <3>3
    <3> QED
      BY <3>4 DEF Rows
  <2> QED
    BY <1>2, <1>7, <1>11, <2>1 DEF WriteConfirmation
<1>12. CASE ReadTrip(h)
  BY <1>2, <1>7, <1>12 DEF ReadTrip
<1>13. CASE CaptureOnCharge(h)
  BY <1>1, <1>2, <1>7, <1>13, CaptureEffect DEF CaptureOnCharge, Rows
<1>14. CASE WriteFailure(h)
  <2>1. payment' \in [Trips -> [status : PaymentStatus, provider : Providers,
                               confirmed : BOOLEAN]]
    BY <1>1, <1>14 DEF WriteFailure, PaymentStatus
  <2> QED
    BY <1>2, <1>7, <1>14, <2>1 DEF WriteFailure
<1>15. CASE MarkProcessed(h)
  <2>1. event' \in [Trips -> [ChargeEvents ->
                      [status : EventStatus, processed : BOOLEAN]]]
    <3> DEFINE t == job[h].trip
               k == job[h].kind
               r == [status |-> "PROCESSED", processed |-> TRUE]
    <3>1. /\ t \in Trips /\ k \in ChargeEvents /\ r \in EventRows
          /\ event' = [event EXCEPT ![t][k] = r]
      BY <1>1, <1>6, <1>15 DEF MarkProcessed, EventRows
    <3> HIDE DEF t, k, r
    <3> QED
      BY <3>1, CellUpdate DEF EventRows
  <2> QED
    BY <1>3, <1>5, <1>15, <2>1 DEF MarkProcessed
<1>16. CASE HandlerThrows(h)
  <2>1. faults' \in 0..MaxFaults
    BY <1>16, PaymentsAssumption DEF HandlerThrows
  <2> QED
    BY <1>2, <1>7, <1>16, <2>1 DEF HandlerThrows
<1>17. CASE MarkFailed(h)
  BY <1>3, <1>4, <1>5, <1>6, <1>17 DEF MarkFailed
<1>18. CASE HandlerCrash(h)
  BY <1>3, <1>18, PaymentsAssumption DEF HandlerCrash
<1> QED
  BY <1>8, <1>9, <1>10, <1>11, <1>12, <1>13, <1>14, <1>15, <1>16, <1>17, <1>18
     DEF HandlerStep

(* Every value stays in the set its column or its code path allows: no     *)
(* status outside the enum, integer balances, a busy handler has its job.  *)
THEOREM TypeInvariant == Spec => []TypeOK
<1>1. TypeOK /\ [Next]_vars => TypeOK'
  <2> SUFFICES ASSUME TypeOK, [Next]_vars PROVE TypeOK'
    OBVIOUS
  <2>1. CASE UNCHANGED vars
    BY <2>1 DEF vars, TypeOK
  <2> QED
    BY <2>1, TypeTripStep, TypeStartStep, TypeHandlerStep DEF Next
<1> QED
  BY <1>1, TypeInit, PTL DEF Spec
-----------------------------------------------------------------------------
(* The inductive invariant.                                                *)

LEMMA InvInit ==
  ASSUME Init PROVE IInv
<1>1. TypeOK
  BY TypeInit
<1>2. \A t \in Trips, name \in CaptureRefs : ~Posted(t, name)
  BY DEF Init, EmptyBook, Posted
<1>3. \A t \in Trips : payment[t].status = "NONE" /\ ~payment[t].confirmed
  BY DEF Init
<1>4. WorkIsAnnounced
  BY <1>2, <1>3 DEF Init, WorkIsAnnounced, CaptureRefs
<1>5. HandlersKnow
  BY DEF Init, HandlersKnow
<1>6. CaptureIsPosted
  BY <1>2, <1>3 DEF CaptureIsPosted, CaptureRefs
<1>7. CaptureIsEarned
  BY <1>2 DEF CaptureIsEarned, CaptureRefs
<1> QED
  BY <1>1, <1>4, <1>5, <1>6, <1>7 DEF IInv

(* A step that posts nothing a capture posts, and leaves the payments,     *)
(* the charges and the events alone: only the handlers are left to check.  *)
LEMMA QuietStep ==
  ASSUME IInv, TypeOK', UNCHANGED <<payment, book, charges, event>>,
         \A t \in Trips : TripCompleted(t) => TripCompleted(t)',
         HandlersKnow'
  PROVE  IInv'
<1>1. WorkIsAnnounced'
  BY DEF IInv, WorkIsAnnounced, Posted
<1>2. CaptureIsPosted'
  BY DEF IInv, CaptureIsPosted, Posted
<1>3. CaptureIsEarned'
  BY DEF IInv, CaptureIsEarned, Posted
<1> QED
  BY <1>1, <1>2, <1>3 DEF IInv

(* A step of the trip leaves what the handlers know true.                  *)
LEMMA KnowledgeKept ==
  ASSUME IInv, UNCHANGED <<hpc, job>>,
         \A t \in Trips : /\ charges[t] \subseteq charges'[t]
                          /\ TripCompleted(t) => TripCompleted(t)'
  PROVE  HandlersKnow'
<1>1. \A h \in Handlers : hpc[h] # "idle" => job[h].trip \in Trips
  BY DEF IInv, TypeOK, Jobs
<1> QED
  BY <1>1 DEF IInv, HandlersKnow

(* capturePaymentForTrip, called for a completed trip, keeps the ledger's  *)
(* promises: the postings come together, and a Paystack payment is only    *)
(* captured when it is confirmed, that is, announced.                      *)
LEMMA CaptureKeeps ==
  ASSUME IInv, TypeOK', NEW t \in Trips, TripCompleted(t), Capture(t),
         UNCHANGED <<charges, event>>,
         \A u \in Trips : TripCompleted(u) => TripCompleted(u)',
         HandlersKnow'
  PROVE  IInv'
<1>1. /\ book.balance \in [Holders -> Int]
      /\ payouts \in [Trips -> Nat]
      /\ payment \in [Trips -> Rows]
  BY DEF IInv, TypeOK, Rows
<1>2. \A u \in Trips :
        /\ payment'[u].status = IF u = t /\ Capturable(t)
                                THEN "CAPTURED" ELSE payment[u].status
        /\ payment'[u].provider = payment[u].provider
        /\ payment'[u].confirmed = payment[u].confirmed
  BY <1>1, CaptureEffect
<1>3. \A u \in Trips, name \in CaptureRefs :
        Posted(u, name)' <=>
          \/ Posted(u, name)
          \/ u = t /\ Capturable(t)
  BY <1>1, CaptureEffect DEF Posted
<1>4. Capturable(t) =>
        /\ payment[t].status # "NONE"
        /\ payment[t].provider = "paystack" => "charge.success" \in charges[t]
  BY DEF Capturable, IInv, WorkIsAnnounced
<1>5. WorkIsAnnounced'
  BY <1>2, <1>3, <1>4 DEF IInv, WorkIsAnnounced, CaptureRefs
<1>6. CaptureIsPosted'
  BY <1>2, <1>3 DEF IInv, CaptureIsPosted, CaptureRefs
<1>7. CaptureIsEarned'
  BY <1>2, <1>3, <1>4 DEF IInv, CaptureIsEarned, CaptureRefs
<1> QED
  BY <1>5, <1>6, <1>7 DEF IInv

(* A posting under another name is none of a capture's.                    *)
LEMMA ClearingKeepsCaptures ==
  ASSUME book.balance \in [Holders -> Int], NEW t \in Trips,
         NEW n \in {"pending", "authorized"},
         book' = Post(book, Ref(t, n), "cash_clearing", Gross[t])
  PROVE  \A u \in Trips, name \in CaptureRefs :
           Posted(u, name)' <=> Posted(u, name)
<1>1. book'.refs = book.refs \cup {Ref(t, n)}
  BY ClearingPost
<1> QED
  BY <1>1 DEF Posted, Ref, CaptureRefs

LEMMA InvTripStep ==
  ASSUME IInv, TypeOK', NEW t \in Trips, TripStep(t)
  PROVE  IInv'
<1> USE DEF payVars, handlerVars
<1>1. ASSUME NEW p \in Providers, InitiatePayment(t, p) PROVE IInv'
  <2>1. \A u \in Trips, name \in CaptureRefs :
          Posted(u, name)' <=> Posted(u, name)
    BY <1>1, ClearingKeepsCaptures DEF InitiatePayment, IInv, TypeOK
  <2>2. /\ payment[t].status = "NONE"
        /\ payment'[t].status = "PENDING"
        /\ payment'[t].confirmed = payment[t].confirmed
        /\ \A u \in Trips \ {t} : payment'[u] = payment[u]
    BY <1>1 DEF InitiatePayment, IInv, TypeOK
  <2>3. WorkIsAnnounced'
    BY <1>1, <2>1, <2>2
       DEF InitiatePayment, IInv, WorkIsAnnounced, CaptureRefs
  <2>4. HandlersKnow'
    BY <1>1, KnowledgeKept DEF InitiatePayment, TripCompleted
  <2>5. CaptureIsPosted'
    BY <2>1, <2>2 DEF IInv, CaptureIsPosted, CaptureRefs
  <2>6. ~Posted(t, "captured")
    BY <2>2 DEF IInv, WorkIsAnnounced
  <2>7. CaptureIsEarned'
    BY <1>1, <2>1, <2>2, <2>6
       DEF InitiatePayment, IInv, CaptureIsEarned, CaptureRefs, TripCompleted
  <2> QED
    BY <2>3, <2>4, <2>5, <2>7 DEF IInv
<1>2. CASE DriverAccept(t)
  <2>1. \A u \in Trips : TripCompleted(u) => TripCompleted(u)'
    BY <1>2 DEF DriverAccept, TripCompleted, IInv, TypeOK
  <2> QED
    BY <1>2, <2>1, QuietStep, KnowledgeKept DEF DriverAccept
<1>3. CASE AcceptDispatch(t)
  <2>1. \A u \in Trips : TripCompleted(u) => TripCompleted(u)'
    BY <1>3 DEF AcceptDispatch, TripCompleted, IInv, TypeOK
  <2> QED
    BY <1>3, <2>1, QuietStep, KnowledgeKept DEF AcceptDispatch
<1>4. CASE Authorize(t)
  <2>1. \A u \in Trips : TripCompleted(u) => TripCompleted(u)'
    BY <1>4 DEF Authorize, TripCompleted, IInv, TypeOK
  <2>2. HandlersKnow'
    BY <1>4, <2>1, KnowledgeKept DEF Authorize
  <2>3. CASE payment[t].status # "PENDING"
    BY <1>4, <2>1, <2>2, <2>3, QuietStep DEF Authorize
  <2>4. CASE payment[t].status = "PENDING"
    <3>1. \A u \in Trips, name \in CaptureRefs :
            Posted(u, name)' <=> Posted(u, name)
      BY <1>4, <2>4, ClearingKeepsCaptures DEF Authorize, IInv, TypeOK
    <3>2. /\ payment'[t].status = "AUTHORIZED"
          /\ \A u \in Trips \ {t} : payment'[u] = payment[u]
          /\ \A u \in Trips : /\ payment'[u].confirmed = payment[u].confirmed
                              /\ payment'[u].provider = payment[u].provider
      <4>1. /\ payment \in [Trips -> Rows]
            /\ payment' = [payment EXCEPT ![t].status = "AUTHORIZED"]
        BY <1>4, <2>4 DEF Authorize, IInv, TypeOK, Rows
      <4> QED
        BY ONLY <4>1, t \in Trips DEF Rows
    <3>3. UNCHANGED <<charges, event>>
      BY <1>4 DEF Authorize
    <3>4. WorkIsAnnounced'
      BY <3>1, <3>2, <3>3 DEF IInv, WorkIsAnnounced, CaptureRefs
    <3>5. CaptureIsPosted'
      BY <3>1, <3>2 DEF IInv, CaptureIsPosted, CaptureRefs
    <3>6. CaptureIsEarned'
      BY <2>1, <3>1, <3>2, <3>3 DEF IInv, CaptureIsEarned, CaptureRefs
    <3> QED
      BY <2>2, <3>4, <3>5, <3>6 DEF IInv
  <2> QED
    BY <2>3, <2>4
<1>5. CASE CompleteTrip(t)
  <2>1. \A u \in Trips : TripCompleted(u) => TripCompleted(u)'
    BY <1>5 DEF CompleteTrip, TripCompleted, IInv, TypeOK
  <2> QED
    BY <1>5, <2>1, QuietStep, KnowledgeKept DEF CompleteTrip
<1>6. CASE CaptureOnComplete(t)
  <2>1. /\ TripCompleted(t)
        /\ \A u \in Trips : TripCompleted(u) => TripCompleted(u)'
    BY <1>6 DEF CaptureOnComplete, TripCompleted, IInv, TypeOK
  <2>2. HandlersKnow'
    BY <1>6, <2>1, KnowledgeKept DEF CaptureOnComplete
  <2> QED
    BY <1>6, <2>1, <2>2, CaptureKeeps DEF CaptureOnComplete
<1>7. CASE RequestCrash(t)
  <2>1. \A u \in Trips : TripCompleted(u) => TripCompleted(u)'
    BY <1>7 DEF RequestCrash, TripCompleted, IInv, TypeOK
  <2> QED
    BY <1>7, <2>1, QuietStep, KnowledgeKept DEF RequestCrash
<1>8. ASSUME NEW k \in Outcomes, ChargeAttempt(t, k) PROVE IInv'
  <2>1. /\ payment[t].status # "NONE"
        /\ \A u \in Trips : charges[u] \subseteq charges'[u]
        /\ \A u \in Trips \ {t} : charges'[u] = charges[u]
        /\ UNCHANGED <<payment, book, event, tripPc, hpc, job>>
    BY <1>8 DEF ChargeAttempt, IInv, TypeOK
  <2>2. \A u \in Trips, name \in CaptureRefs :
          Posted(u, name)' <=> Posted(u, name)
    BY <2>1 DEF Posted
  <2>3. WorkIsAnnounced'
    BY <2>1, <2>2 DEF IInv, WorkIsAnnounced, CaptureRefs
  <2>4. HandlersKnow'
    BY <2>1, KnowledgeKept DEF TripCompleted
  <2>5. CaptureIsPosted'
    BY <2>1, <2>2 DEF IInv, CaptureIsPosted, CaptureRefs
  <2>6. CaptureIsEarned'
    BY <2>1, <2>2 DEF IInv, CaptureIsEarned, CaptureRefs, TripCompleted
  <2> QED
    BY <2>3, <2>4, <2>5, <2>6 DEF IInv
<1> QED
  BY <1>1, <1>2, <1>3, <1>4, <1>5, <1>6, <1>7, <1>8 DEF TripStep

LEMMA InvStartStep ==
  ASSUME IInv, TypeOK', NEW h \in Handlers, NEW t \in Trips,
         NEW k \in ChargeEvents, StartStep(h, t, k)
  PROVE  IInv'
<1> USE DEF payVars, handlerVars
<1>1. \A u \in Trips : TripCompleted(u) => TripCompleted(u)'
  BY DEF StartStep, ReceiveWebhook, SchedulerRetry, AdminRetry,
         AdminDeadLetter, TripCompleted
<1>2. ASSUME NEW pc \in {"begin", "deadletter"}, NEW source,
             Start(h, t, k, source, pc), UNCHANGED charges,
             k \in charges[t]
      PROVE  HandlersKnow'
  <2>1. /\ job'[h].trip = t
        /\ job'[h].kind = k
        /\ hpc'[h] \in {"begin", "deadletter"}
        /\ \A g \in Handlers \ {h} : hpc'[g] = hpc[g] /\ job'[g] = job[g]
    BY <1>2 DEF Start, IInv, TypeOK
  <2>2. \A g \in Handlers : hpc[g] # "idle" => job[g].trip \in Trips
    BY DEF IInv, TypeOK, Jobs
  <2> QED
    BY <1>1, <1>2, <2>1, <2>2 DEF IInv, HandlersKnow
<1>3. event[t][k].status # "NONE" => k \in charges[t]
  BY DEF IInv, WorkIsAnnounced
<1>4. CASE ReceiveWebhook(h, t, k)
  <2>1. k \in charges[t] /\ UNCHANGED <<payment, tripPc, book, charges>>
    BY <1>4 DEF ReceiveWebhook
  <2>2. HandlersKnow'
    <3>1. CASE Start(h, t, k, "webhook", "begin")
      BY <1>2, <2>1, <3>1
    <3>2. CASE UNCHANGED handlerVars
      BY <1>1, <2>1, <3>2, KnowledgeKept
    <3> QED
      BY <1>4, <3>1, <3>2 DEF ReceiveWebhook
  <2>3. \A u \in Trips, l \in ChargeEvents :
          u # t \/ l # k => event'[u][l] = event[u][l]
    BY <1>4 DEF ReceiveWebhook, IInv, TypeOK
  <2>4. WorkIsAnnounced'
    BY <2>1, <2>3 DEF IInv, WorkIsAnnounced, Posted
  <2>5. CaptureIsPosted' /\ CaptureIsEarned'
    BY <1>1, <2>1 DEF IInv, CaptureIsPosted, CaptureIsEarned, Posted
  <2> QED
    BY <2>2, <2>4, <2>5 DEF IInv
<1>5. CASE SchedulerRetry(h, t, k)
  BY <1>1, <1>2, <1>3, <1>5, QuietStep DEF SchedulerRetry
<1>6. CASE AdminRetry(h, t, k)
  BY <1>1, <1>2, <1>3, <1>6, QuietStep DEF AdminRetry, CanRetry
<1>7. CASE AdminDeadLetter(h, t, k)
  BY <1>1, <1>2, <1>3, <1>7, QuietStep DEF AdminDeadLetter
<1> QED
  BY <1>4, <1>5, <1>6, <1>7 DEF StartStep

(* A step of handler h that touches nothing but handlers and events: what  *)
(* h must know afterwards is all that is left to check.                    *)
LEMMA HandlerKnows ==
  ASSUME IInv, NEW h \in Handlers,
         \A g \in Handlers \ {h} : hpc'[g] = hpc[g] /\ job'[g] = job[g],
         UNCHANGED <<charges, tripPc>>,
         hpc'[h] # "idle" =>
           /\ job'[h].kind \in charges[job'[h].trip]
           /\ hpc'[h] = "write" => job'[h].seen \in {"PENDING", "AUTHORIZED"}
           /\ hpc'[h] \in {"trip", "capture"} => job'[h].kind = "charge.success"
           /\ hpc'[h] = "capture" => TripCompleted(job'[h].trip)
  PROVE  HandlersKnow'
  BY DEF IInv, HandlersKnow, TripCompleted

(* A step that leaves payments, charges and the ledger alone and only      *)
(* touches the row of an announced event.                                  *)
LEMMA EventStep ==
  ASSUME IInv, TypeOK', NEW h \in Handlers, hpc[h] # "idle",
         UNCHANGED <<payment, book, charges, tripPc>>,
         \A u \in Trips, l \in ChargeEvents :
           u # job[h].trip \/ l # job[h].kind => event'[u][l] = event[u][l],
         HandlersKnow'
  PROVE  IInv'
<1>1. job[h].kind \in charges[job[h].trip]
  BY DEF IInv, HandlersKnow
<1>2. WorkIsAnnounced'
  BY <1>1 DEF IInv, WorkIsAnnounced, Posted
<1>3. CaptureIsPosted' /\ CaptureIsEarned'
  BY DEF IInv, CaptureIsPosted, CaptureIsEarned, Posted, TripCompleted
<1> QED
  BY <1>2, <1>3 DEF IInv

LEMMA InvHandlerStep ==
  ASSUME IInv, TypeOK', NEW h \in Handlers, HandlerStep(h)
  PROVE  IInv'
<1> USE DEF payVars
<1> DEFINE Others == \A g \in Handlers \ {h} :
                       hpc'[g] = hpc[g] /\ job'[g] = job[g]
<1>1. ASSUME Finish(h)
      PROVE  Others /\ hpc'[h] = "idle"
  BY <1>1 DEF Finish, Goto, IInv, TypeOK
<1>2. ASSUME NEW pc, Goto(h, pc), UNCHANGED job
      PROVE  Others /\ hpc'[h] = pc /\ job'[h] = job[h]
  BY <1>2 DEF Goto, IInv, TypeOK
<1> HIDE DEF Others
<1>3. ASSUME hpc[h] # "idle"
      PROVE  /\ job[h].kind \in charges[job[h].trip]
             /\ job[h].trip \in Trips
             /\ job[h].kind \in ChargeEvents
             /\ hpc[h] = "write" => job[h].seen \in {"PENDING", "AUTHORIZED"}
             /\ hpc[h] \in {"trip", "capture"} => job[h].kind = "charge.success"
             /\ hpc[h] = "capture" => TripCompleted(job[h].trip)
  BY <1>3 DEF IInv, HandlersKnow, TypeOK, Jobs
<1>4. ASSUME Others, hpc'[h] = "idle", UNCHANGED <<charges, tripPc>>
      PROVE  HandlersKnow'
  BY <1>4, HandlerKnows DEF Others
<1>5. ASSUME Others, UNCHANGED <<charges, tripPc>>,
             hpc[h] # "idle", job'[h] = job[h],
             hpc'[h] \in {"read", "done", "failing"}
      PROVE  HandlersKnow'
  BY <1>3, <1>5, HandlerKnows DEF Others
<1>6. ASSUME UNCHANGED tripPc
      PROVE  \A u \in Trips : TripCompleted(u) => TripCompleted(u)'
  BY <1>6 DEF TripCompleted
<1>7. ASSUME NEW s,
             event' = [event EXCEPT ![job[h].trip][job[h].kind].status = s]
      PROVE  \A u \in Trips, l \in ChargeEvents :
               u # job[h].trip \/ l # job[h].kind => event'[u][l] = event[u][l]
  BY <1>7 DEF IInv, TypeOK
<1>8. CASE WriteDeadLetter(h)
  BY <1>1, <1>4, <1>7, <1>8, EventStep DEF WriteDeadLetter
<1>9. CASE Begin(h)
  BY <1>2, <1>5, <1>7, <1>9, EventStep DEF Begin
<1>10. CASE ReadPayment(h)
  <2> DEFINE status == payment[job[h].trip].status
  <2>1. /\ job'[h].trip = job[h].trip
        /\ job'[h].kind = job[h].kind
        /\ job'[h].seen = status
        /\ hpc'[h] = IF status \in {"CAPTURED", "FAILED"} THEN "done"
                     ELSE "write"
        /\ Others
    BY <1>3, <1>10 DEF ReadPayment, Goto, IInv, TypeOK, Others, Jobs
  <2>2. status \in PaymentStatus /\ status # "NONE"
    BY <1>3, <1>10 DEF ReadPayment, IInv, TypeOK, WorkIsAnnounced
  <2> HIDE DEF status
  <2>3. HandlersKnow'
    BY <1>3, <1>10, <2>1, <2>2, HandlerKnows
       DEF ReadPayment, Others, PaymentStatus
  <2> QED
    BY <1>6, <1>10, <2>3, QuietStep DEF ReadPayment
<1>11. CASE WriteConfirmation(h)
  <2> DEFINE t == job[h].trip
  <2>1. /\ t \in Trips
        /\ payment \in [Trips -> Rows]
        /\ "charge.success" \in charges[t]
    BY <1>3, <1>11 DEF WriteConfirmation, IInv, TypeOK, Rows
  <2>2. payment' = [payment EXCEPT ![t].confirmed = TRUE,
                                 ![t].status = "AUTHORIZED"]
    BY <1>3, <1>11 DEF WriteConfirmation
  <2> HIDE DEF t
  <2>3. /\ payment'[t].status = "AUTHORIZED"
        /\ \A u \in Trips \ {t} : payment'[u] = payment[u]
        /\ \A u \in Trips :
             /\ payment'[u].provider = payment[u].provider
             /\ payment'[u].confirmed => payment[u].confirmed \/ u = t
    BY ONLY <2>1, <2>2 DEF Rows
  <2>4. UNCHANGED <<book, charges, event, tripPc>>
    BY <1>11 DEF WriteConfirmation
  <2>5. HandlersKnow'
    BY <1>2, <1>3, <1>11, HandlerKnows DEF WriteConfirmation, Others
  <2>6. WorkIsAnnounced'
    BY <2>1, <2>3, <2>4 DEF IInv, WorkIsAnnounced, Posted
  <2>7. CaptureIsPosted'
    BY <2>3, <2>4 DEF IInv, CaptureIsPosted, Posted
  <2>8. CaptureIsEarned'
    BY <2>3, <2>4 DEF IInv, CaptureIsEarned, Posted, TripCompleted
  <2> QED
    BY <2>5, <2>6, <2>7, <2>8 DEF IInv
<1>12. CASE ReadTrip(h)
  <2>1. HandlersKnow'
    BY <1>2, <1>3, <1>12, HandlerKnows DEF ReadTrip, Others, TripCompleted
  <2> QED
    BY <1>6, <1>12, <2>1, QuietStep DEF ReadTrip
<1>13. CASE CaptureOnCharge(h)
  <2>1. HandlersKnow'
    BY <1>2, <1>5, <1>13 DEF CaptureOnCharge
  <2> QED
    BY <1>3, <1>6, <1>13, <2>1, CaptureKeeps DEF CaptureOnCharge
<1>14. CASE WriteFailure(h)
  <2> DEFINE t == job[h].trip
  <2>1. /\ t \in Trips
        /\ payment \in [Trips -> Rows]
        /\ "charge.failed" \in charges[t]
    BY <1>3, <1>14 DEF WriteFailure, IInv, TypeOK, Rows
  <2>2. payment' = [payment EXCEPT ![t].status = "FAILED"]
    BY <1>3, <1>14 DEF WriteFailure
  <2> HIDE DEF t
  <2>3. /\ payment'[t].status = "FAILED"
        /\ \A u \in Trips \ {t} : payment'[u] = payment[u]
        /\ \A u \in Trips :
             /\ payment'[u].provider = payment[u].provider
             /\ payment'[u].confirmed => payment[u].confirmed
    BY ONLY <2>1, <2>2 DEF Rows
  <2>4. UNCHANGED <<book, charges, event, tripPc>>
    BY <1>14 DEF WriteFailure
  <2>5. HandlersKnow'
    BY <1>2, <1>5, <1>14 DEF WriteFailure
  <2>6. WorkIsAnnounced'
    BY <2>1, <2>3, <2>4 DEF IInv, WorkIsAnnounced, Posted
  <2>7. CaptureIsPosted'
    BY <2>3, <2>4 DEF IInv, CaptureIsPosted, Posted
  <2>8. CaptureIsEarned'
    BY <2>3, <2>4 DEF IInv, CaptureIsEarned, Posted, TripCompleted
  <2> QED
    BY <2>5, <2>6, <2>7, <2>8 DEF IInv
<1>15. CASE MarkProcessed(h)
  <2>1. \A u \in Trips, l \in ChargeEvents :
          u # job[h].trip \/ l # job[h].kind => event'[u][l] = event[u][l]
    BY <1>15 DEF MarkProcessed, IInv, TypeOK
  <2> QED
    BY <1>1, <1>4, <1>15, <2>1, EventStep DEF MarkProcessed
<1>16. CASE HandlerThrows(h)
  <2>1. HandlersKnow'
    BY <1>2, <1>5, <1>16 DEF HandlerThrows
  <2> QED
    BY <1>6, <1>16, <2>1, QuietStep DEF HandlerThrows
<1>17. CASE MarkFailed(h)
  BY <1>1, <1>4, <1>7, <1>17, EventStep DEF MarkFailed
<1>18. CASE HandlerCrash(h)
  <2>1. HandlersKnow'
    BY <1>1, <1>4, <1>18 DEF HandlerCrash
  <2> QED
    BY <1>6, <1>18, <2>1, QuietStep DEF HandlerCrash
<1> QED
  BY <1>8, <1>9, <1>10, <1>11, <1>12, <1>13, <1>14, <1>15, <1>16, <1>17, <1>18
     DEF HandlerStep

(* The invariant is inductive.                                             *)
THEOREM Invariance == Spec => []IInv
<1>1. IInv /\ [Next]_vars => IInv'
  <2> SUFFICES ASSUME IInv, [Next]_vars PROVE IInv'
    OBVIOUS
  <2>1. TypeOK'
    <3>1. TypeOK
      BY DEF IInv
    <3>2. CASE UNCHANGED vars
      BY <3>1, <3>2 DEF vars, TypeOK
    <3> QED
      BY <3>1, <3>2, TypeTripStep, TypeStartStep, TypeHandlerStep DEF Next
  <2>2. CASE UNCHANGED vars
    <3>1. HandlersKnow'
      BY <2>2, KnowledgeKept DEF vars, TripCompleted
    <3> QED
      BY <2>1, <2>2, <3>1, QuietStep DEF vars, TripCompleted
  <2> QED
    BY <2>1, <2>2, InvTripStep, InvStartStep, InvHandlerStep DEF Next
<1> QED
  BY <1>1, InvInit, PTL DEF Spec

(* A CAPTURED payment has its ledger postings, all of them, whatever the   *)
(* handlers' interleaving, faults and crashes: capturePaymentForTrip's     *)
(* transaction is the only way to CAPTURED.                                *)
THEOREM CapturesArePosted == Spec => []CaptureIsPosted
<1>1. IInv => CaptureIsPosted
  BY DEF IInv
<1> QED
  BY <1>1, Invariance, PTL

(* The ledger records a Paystack payment as captured only after Paystack   *)
(* has announced the charge and the trip has been completed.               *)
THEOREM CapturesAreEarned == Spec => []CaptureIsEarned
<1>1. IInv => CaptureIsEarned
  BY DEF IInv
<1> QED
  BY <1>1, Invariance, PTL
-----------------------------------------------------------------------------
(* The books.                                                              *)

(* The trips of a driver whose earning is on the books.                    *)
Earned(d) == {t \in Trips : DriverOf[t] = d /\ Posted(t, "driver-earning")}

(* What a capture of t that finds the payment capturable does to the       *)
(* balances: a first one pays the commission and the driver, every one     *)
(* makes a payout.                                                         *)
LEMMA CaptureMoves ==
  ASSUME IInv, PayoutsAreNumbered, NEW t \in Trips, Capturable(t), Capture(t)
  PROVE  LET first == ~Posted(t, "captured")
         IN  /\ book'.balance["commission_revenue"]
                  = book.balance["commission_revenue"]
                      + (IF first THEN CommissionShare(Gross[t]) ELSE 0)
             /\ book'.balance["driver_payable"]
                  = book.balance["driver_payable"]
                      + (IF first THEN Earning[t] ELSE 0)
             /\ book'.balance["payout_clearing"]
                  = book.balance["payout_clearing"] + Earning[t]
             /\ book'.balance[DriverOf[t]] = book.balance[DriverOf[t]]
                  + (IF first THEN Earning[t] ELSE 0)
             /\ \A d \in Drivers \ {DriverOf[t]} :
                  book'.balance[d] = book.balance[d]
             /\ book'.refs = book.refs \cup
                  {Ref(t, "captured"), Ref(t, "commission"),
                   Ref(t, "driver-earning"), Ref(t, "driver-payable"),
                   PayoutRef(t, payouts[t] + 1)}
<1> DEFINE e == Earning[t]
           c == CommissionShare(Gross[t])
           first == ~Posted(t, "captured")
           share == IF first THEN e ELSE 0
<1>1. PICK b1 : b1 = Post(book, Ref(t, "captured"), "cash_clearing", Gross[t])
  OBVIOUS
<1>2. PICK b2 : b2 = Post(b1, Ref(t, "commission"), "commission_revenue", c)
  OBVIOUS
<1>3. PICK b3 : b3 = Post(b2, Ref(t, "driver-earning"), DriverOf[t], e)
  OBVIOUS
<1>4. PICK b4 : b4 = Post(b3, Ref(t, "driver-payable"), "driver_payable", e)
  OBVIOUS
<1>5. book' = Post(b4, PayoutRef(t, payouts[t] + 1), "payout_clearing", e)
  BY <1>1, <1>2, <1>3, <1>4
     DEF Capture, CaptureGross, CaptureEarning, CapturePayout, Earning
<1>6. e \in Int /\ c \in Int /\ Gross[t] \in Int
  BY SharesAreInt DEF Earning
<1>7. /\ "cash_clearing" \in Holders
      /\ "commission_revenue" \in Holders
      /\ "driver_payable" \in Holders
      /\ "payout_clearing" \in Holders
      /\ DriverOf[t] \in Holders
      /\ DriverOf[t] \in Drivers
      /\ Drivers \subseteq Holders
      /\ \A d \in Drivers : d \notin {"cash_clearing", "commission_revenue",
                                      "driver_payable", "payout_clearing"}
  BY PaymentsAssumption, DriversAssumption DEF Holders, LedgerAccounts
<1>8. book.balance \in [Holders -> Int]
  BY DEF IInv, TypeOK
<1>9. PayoutRef(t, payouts[t] + 1) \notin book.refs
  <2>1. payouts[t] \in Nat
    BY DEF IInv, TypeOK
  <2> DEFINE r == PayoutRef(t, payouts[t] + 1)
  <2>2. r[1] = t /\ r[2] = "payout-pending" /\ r[3] = payouts[t] + 1
    BY DEF PayoutRef
  <2> HIDE DEF r
  <2>3. r \notin book.refs
    BY <2>1, <2>2 DEF PayoutsAreNumbered
  <2> QED
    BY <2>3 DEF r
<1>10. \A name \in CaptureRefs :
         Ref(t, name) \in book.refs <=> Posted(t, "captured")
  BY DEF IInv, CaptureIsPosted, Posted, CaptureRefs
<1> HIDE DEF e, c
<1>11. PostMoved(book, Ref(t, "captured"), "cash_clearing", Gross[t], b1)
  BY <1>1, <1>6, <1>7, <1>8, PostMoves
<1>12. PostMoved(b1, Ref(t, "commission"), "commission_revenue", c, b2)
  <2>1. b1.balance \in [Holders -> Int]
    BY <1>11 DEF PostMoved
  <2> QED
    BY <1>2, <1>6, <1>7, <2>1, PostMoves
<1>13. PostMoved(b2, Ref(t, "driver-earning"), DriverOf[t], e, b3)
  <2>1. b2.balance \in [Holders -> Int]
    BY <1>12 DEF PostMoved
  <2> QED
    BY <1>3, <1>6, <1>7, <2>1, PostMoves
<1>14. PostMoved(b3, Ref(t, "driver-payable"), "driver_payable", e, b4)
  <2>1. b3.balance \in [Holders -> Int]
    BY <1>13 DEF PostMoved
  <2> QED
    BY <1>4, <1>6, <1>7, <2>1, PostMoves
<1>15. PostMoved(b4, PayoutRef(t, payouts[t] + 1), "payout_clearing", e, book')
  <2>1. b4.balance \in [Holders -> Int]
    BY <1>14 DEF PostMoved
  <2> QED
    BY <1>5, <1>6, <1>7, <2>1, PostMoves
<1>16. /\ Ref(t, "commission") \notin b1.refs <=> first
       /\ Ref(t, "driver-earning") \notin b2.refs <=> first
       /\ Ref(t, "driver-payable") \notin b3.refs <=> first
       /\ PayoutRef(t, payouts[t] + 1) \notin b4.refs
  BY <1>9, <1>10, <1>11, <1>12, <1>13, <1>14
     DEF Ref, PayoutRef, CaptureRefs, PostMoved
<1>17. \A k \in Holders : book.balance[k] \in Int
  BY <1>8
<1> HIDE DEF first
<1>18. book'.balance["commission_revenue"]
         = book.balance["commission_revenue"] + (IF first THEN c ELSE 0)
  BY <1>7, <1>11, <1>12, <1>13, <1>14, <1>15, <1>16
     DEF PostMoved
<1>19. book'.balance["driver_payable"] = book.balance["driver_payable"] + share
  BY <1>7, <1>11, <1>12, <1>13, <1>14, <1>15, <1>16
     DEF PostMoved
<1>20. book'.balance["payout_clearing"] = book.balance["payout_clearing"] + e
  BY <1>7, <1>11, <1>12, <1>13, <1>14, <1>15, <1>16
     DEF PostMoved
<1>21. ASSUME NEW d \in Drivers \ {DriverOf[t]}
       PROVE  book'.balance[d] = book.balance[d]
  BY <1>7, <1>11, <1>12, <1>13, <1>14, <1>15
     DEF PostMoved
<1>22. book'.balance[DriverOf[t]] = book.balance[DriverOf[t]] + share
  BY <1>7, <1>11, <1>12, <1>13, <1>14, <1>15, <1>16
     DEF PostMoved
<1>23. book'.refs = book.refs \cup
         {Ref(t, "captured"), Ref(t, "commission"), Ref(t, "driver-earning"),
          Ref(t, "driver-payable"), PayoutRef(t, payouts[t] + 1)}
  BY <1>11, <1>12, <1>13, <1>14, <1>15 DEF PostMoved
<1> QED
  BY <1>18, <1>19, <1>20, <1>21, <1>22, <1>23 DEF first, e, c

(* The promises about the books, with the strengthening.                   *)
Books ==
  /\ PayoutsAreNumbered
  /\ WalletsAreWorthEarnings
  /\ BooksAgree

LEMMA AmountFacts ==
  /\ IsFiniteSet(Trips) /\ IsFiniteSet(Drivers)
  /\ \A t \in Trips : /\ Earning[t] \in Nat
                      /\ Gross[t] \in Nat
                      /\ CommissionShare(Gross[t]) + Earning[t] = Gross[t]
                      /\ CommissionShare(Gross[t]) \in Nat
                      /\ DriverOf[t] \in Drivers
<1>1. \A t \in Trips : Gross[t] \in Nat /\ DriverOf[t] \in Drivers
  BY PaymentsAssumption
<1>2. ASSUME NEW t \in Trips
      PROVE  /\ Earning[t] \in Nat
             /\ CommissionShare(Gross[t]) + Earning[t] = Gross[t]
             /\ CommissionShare(Gross[t]) \in Nat
  <2>1. Earning[t] = DriverShare(Gross[t])
    BY DEF Earning
  <2>2. /\ DriverShare(Gross[t]) \in Nat
        /\ CommissionShare(Gross[t]) \in Nat
        /\ DriverShare(Gross[t]) + CommissionShare(Gross[t]) = Gross[t]
    BY <1>1, SplitIsExact
  <2> QED
    BY <2>1, <2>2
<1> QED
  BY <1>1, <1>2, PaymentsAssumption, DriversAssumption

LEMMA WalletBalances ==
  ASSUME IInv
  PROVE  /\ \A d \in Drivers : book.balance[d] \in Int
         /\ \A h \in LedgerAccounts : book.balance[h] \in Int
  BY DEF IInv, TypeOK, Holders

(* Any step but a capture leaves the books as they are, except that cash   *)
(* clearing may move.                                                      *)
LEMMA QuietBooks ==
  ASSUME IInv, Books, UNCHANGED payouts,
         \A h \in Holders \ {"cash_clearing"} :
           book'.balance[h] = book.balance[h],
         \A t \in Trips, name \in CaptureRefs :
           Posted(t, name)' <=> Posted(t, name),
         PayoutsAreNumbered'
  PROVE  Books'
<1>1. /\ Captured' = Captured
      /\ \A d \in Drivers : Earned(d)' = Earned(d)
  BY DEF Captured, Earned, CaptureRefs
<1>2. \A d \in Drivers : book'.balance[d] = book.balance[d]
  BY DriversAssumption DEF Holders, LedgerAccounts
<1>3. \A h \in {"driver_payable", "commission_revenue", "payout_clearing"} :
        book'.balance[h] = book.balance[h]
  BY DEF Holders, LedgerAccounts
<1>4. WalletsAreWorthEarnings'
  <2> SUFFICES ASSUME NEW d \in Drivers
               PROVE  book'.balance[d] = SumFunctionOnSet(Earning, Earned(d)')
    BY DEF WalletsAreWorthEarnings, Earned
  <2>1. book.balance[d] = SumFunctionOnSet(Earning, Earned(d))
    BY DEF Books, WalletsAreWorthEarnings, Earned
  <2> QED
    BY <1>1, <1>2, <2>1
<1>5. SumFunctionOnSet(book'.balance, Drivers)
        = SumFunctionOnSet(book.balance, Drivers)
  BY <1>2, AmountFacts, WalletBalances, SumOfSame
<1>6. PaidOut' = PaidOut
  BY DEF PaidOut
<1>7. BooksAgree'
  <2>1. /\ book.balance["driver_payable"]
             = SumFunctionOnSet(book.balance, Drivers)
        /\ book.balance["commission_revenue"]
             + SumFunctionOnSet(book.balance, Drivers)
             = SumFunctionOnSet(Gross, Captured)
        /\ book.balance["payout_clearing"] = SumFunctionOnSet(PaidOut, Trips)
    BY DEF Books, BooksAgree, Captured
  <2>2. /\ book'.balance["driver_payable"]
             = SumFunctionOnSet(book'.balance, Drivers)
        /\ book'.balance["commission_revenue"]
             + SumFunctionOnSet(book'.balance, Drivers)
             = SumFunctionOnSet(Gross, Captured')
        /\ book'.balance["payout_clearing"]
             = SumFunctionOnSet(PaidOut', Trips)
    BY <1>1, <1>3, <1>5, <1>6, <2>1
  <2> QED
    BY <2>2 DEF BooksAgree, Captured
<1> QED
  BY <1>4, <1>7 DEF Books

(* A capture that goes through.                                            *)
LEMMA CaptureBooks ==
  ASSUME IInv, Books, NEW t \in Trips, Capturable(t), Capture(t)
  PROVE  Books'
<1> DEFINE first == ~Posted(t, "captured")
           d0 == DriverOf[t]
           e == Earning[t]
           c == CommissionShare(Gross[t])
           Bal == book.balance
           Sum(b) == SumFunctionOnSet(b, Drivers)
<1>1. /\ book.balance \in [Holders -> Int]
      /\ payouts \in [Trips -> Nat]
      /\ payment \in [Trips -> Rows]
  BY DEF IInv, TypeOK, Rows
<1>2. /\ book'.balance["commission_revenue"]
           = Bal["commission_revenue"] + (IF first THEN c ELSE 0)
      /\ book'.balance["driver_payable"]
           = Bal["driver_payable"] + (IF first THEN e ELSE 0)
      /\ book'.balance["payout_clearing"] = Bal["payout_clearing"] + e
      /\ book'.balance[d0] = Bal[d0] + (IF first THEN e ELSE 0)
      /\ \A d \in Drivers \ {d0} : book'.balance[d] = Bal[d]
  BY CaptureMoves DEF Books
<1>3. /\ payouts' = [payouts EXCEPT ![t] = @ + 1]
      /\ book' = CapturePayout(CaptureEarning(CaptureGross(book, t), t), t)
  BY DEF Capture
<1>4. \A u \in Trips, name \in CaptureRefs :
        Posted(u, name)' <=> Posted(u, name) \/ u = t
  BY <1>1, CaptureEffect DEF Posted
<1>5. Posted(t, "driver-earning") <=> Posted(t, "captured")
  BY DEF IInv, CaptureIsPosted
<1>6. /\ Captured' = Captured \cup {t} /\ (t \in Captured <=> ~first)
      /\ Earned(d0)' = Earned(d0) \cup {t} /\ (t \in Earned(d0) <=> ~first)
      /\ \A d \in Drivers \ {d0} : Earned(d)' = Earned(d)
  BY <1>4, <1>5 DEF Captured, Earned, CaptureRefs
<1>7. /\ IsFiniteSet(Captured) /\ Captured \subseteq Trips
      /\ \A d \in Drivers : IsFiniteSet(Earned(d)) /\ Earned(d) \subseteq Trips
  BY AmountFacts, FS_Subset DEF Captured, Earned
<1>8. /\ e \in Nat /\ c \in Nat /\ Gross[t] \in Nat /\ c + e = Gross[t]
      /\ d0 \in Drivers
  BY AmountFacts
<1>9. /\ \A d \in Drivers : Bal[d] \in Int
      /\ \A h \in LedgerAccounts : Bal[h] \in Int
  BY WalletBalances
<1>10. WalletsAreWorthEarnings'
  <2>1. \A d \in Drivers : Bal[d] = SumFunctionOnSet(Earning, Earned(d))
    BY DEF Books, WalletsAreWorthEarnings, Earned
  <2>2. \A d \in Drivers \ {d0} :
          book'.balance[d] = SumFunctionOnSet(Earning, Earned(d)')
    BY <1>2, <1>6, <2>1
  <2>3. ASSUME first
        PROVE  book'.balance[d0] = SumFunctionOnSet(Earning, Earned(d0)')
    <3> DEFINE S == Earned(d0)
    <3>1. IsFiniteSet(S) /\ t \notin S /\ S \subseteq Trips
      BY <1>6, <1>7, <1>8, <2>3
    <3> HIDE DEF S
    <3>2. \A x \in S \cup {t} : Earning[x] \in Int
      BY <3>1, AmountFacts
    <3>3. SumFunctionOnSet(Earning, S \cup {t})
            = Earning[t] + SumFunctionOnSet(Earning, S)
      BY <3>1, <3>2, SumGrows
    <3>4. Bal[d0] = SumFunctionOnSet(Earning, S) /\ Bal[d0] \in Int
      BY <1>8, <1>9, <2>1 DEF S
    <3>5. book'.balance[d0] = Bal[d0] + e
      BY <1>2, <2>3
    <3>6. Earned(d0)' = S \cup {t}
      BY <1>6 DEF S
    <3> HIDE DEF Bal
    <3> QED
      BY <1>8, <3>3, <3>4, <3>5, <3>6
  <2>4. ASSUME ~first
        PROVE  book'.balance[d0] = SumFunctionOnSet(Earning, Earned(d0)')
    <3>1. Earned(d0)' = Earned(d0)
      BY <1>6, <2>4
    <3>2. book'.balance[d0] = Bal[d0]
      BY <1>2, <1>8, <1>9, <2>4
    <3> QED
      BY <1>8, <2>1, <3>1, <3>2
  <2> QED
    BY <2>2, <2>3, <2>4 DEF WalletsAreWorthEarnings, Earned
<1>11. Sum(book'.balance) = Sum(Bal) + (IF first THEN e ELSE 0)
  <2>1. /\ book'.balance[d0] \in Int
        /\ book'.balance[d0] - Bal[d0] = IF first THEN e ELSE 0
    BY <1>2, <1>8, <1>9
  <2>2. Sum(book'.balance) = Sum(Bal) + (book'.balance[d0] - Bal[d0])
    <3> DEFINE v == book'.balance
    <3>1. /\ v[d0] \in Int
          /\ \A x \in Drivers : Bal[x] \in Int
          /\ \A x \in Drivers \ {d0} : v[x] = Bal[x]
          /\ d0 \in Drivers
          /\ IsFiniteSet(Drivers)
      BY <1>2, <1>8, <1>9, <2>1, AmountFacts
    <3> HIDE DEF v, Bal, d0
    <3>2. SumFunctionOnSet(v, Drivers)
            = SumFunctionOnSet(Bal, Drivers) + (v[d0] - Bal[d0])
      BY <3>1, SumChanges
    <3> QED
      BY <3>2 DEF v
  <2> QED
    BY <2>1, <2>2
<1>12. SumFunctionOnSet(Gross, Captured')
         = SumFunctionOnSet(Gross, Captured) + (IF first THEN Gross[t] ELSE 0)
  <2>1. \A x \in Captured \cup {t} : Gross[x] \in Int
    BY <1>7, AmountFacts
  <2>2. SumFunctionOnSet(Gross, Captured) \in Int
    BY <1>7, <2>1, SumIsInt
  <2>3. CASE first
    <3>1. SumFunctionOnSet(Gross, Captured \cup {t})
            = Gross[t] + SumFunctionOnSet(Gross, Captured)
      BY <1>6, <1>7, <2>1, <2>3, SumGrows
    <3> QED
      BY <1>6, <1>8, <2>2, <2>3, <3>1
  <2>4. CASE ~first
    <3>1. Captured' = Captured
      BY <1>6, <2>4
    <3> QED
      BY <2>2, <2>4, <3>1
  <2> QED
    BY <2>3, <2>4
<1>13. SumFunctionOnSet(PaidOut', Trips) = SumFunctionOnSet(PaidOut, Trips) + e
  <2>1. \A u \in Trips \ {t} : PaidOut'[u] = PaidOut[u]
    BY <1>1, <1>3 DEF PaidOut
  <2>2. \A u \in Trips : PaidOut[u] \in Int
    <3>1. \A n, m \in Nat : n * m \in Int
      OBVIOUS
    <3> QED
      BY <1>1, <3>1, AmountFacts DEF PaidOut
  <2>3. PaidOut'[t] \in Int /\ PaidOut'[t] - PaidOut[t] = e
    <3>1. \A n, m \in Nat : (n + 1) * m \in Int /\ (n + 1) * m - n * m = m
      OBVIOUS
    <3>2. payouts[t] \in Nat
      BY <1>1
    <3>3. PaidOut'[t] = (payouts[t] + 1) * e /\ PaidOut[t] = payouts[t] * e
      BY <1>1, <1>3 DEF PaidOut
    <3> QED
      BY <1>8, <3>1, <3>2, <3>3
  <2>4. SumFunctionOnSet(PaidOut', Trips)
          = SumFunctionOnSet(PaidOut, Trips) + (PaidOut'[t] - PaidOut[t])
    BY <2>1, <2>2, <2>3, AmountFacts, SumChanges
  <2> QED
    BY <2>3, <2>4
<1>14. BooksAgree'
  <2>1. /\ Bal["driver_payable"] = Sum(Bal)
        /\ Bal["commission_revenue"] + Sum(Bal)
             = SumFunctionOnSet(Gross, Captured)
        /\ Bal["payout_clearing"] = SumFunctionOnSet(PaidOut, Trips)
    BY DEF Books, BooksAgree, Captured
  <2>2. /\ Bal["driver_payable"] \in Int
        /\ Bal["commission_revenue"] \in Int
        /\ Bal["payout_clearing"] \in Int
    BY <1>9 DEF LedgerAccounts
  <2> HIDE DEF first, e, c, Bal, Sum
  <2>3. /\ book'.balance["driver_payable"] = Sum(book'.balance)
        /\ book'.balance["commission_revenue"] + Sum(book'.balance)
             = SumFunctionOnSet(Gross, Captured')
        /\ book'.balance["payout_clearing"]
             = SumFunctionOnSet(PaidOut', Trips)
    BY <1>2, <1>8, <1>11, <1>12, <1>13, <2>1, <2>2
  <2> QED
    BY <2>3 DEF BooksAgree, Captured, Sum
<1>15. PayoutsAreNumbered'
  <2> DEFINE n == payouts[t] + 1
  <2>1. book'.refs = book.refs \cup
          {Ref(t, "captured"), Ref(t, "commission"), Ref(t, "driver-earning"),
           Ref(t, "driver-payable"), PayoutRef(t, n)}
    BY CaptureMoves DEF Books
  <2>2. \A u \in Trips : payouts[u] \in Nat /\ payouts'[u] \in Nat
                         /\ payouts[u] <= payouts'[u]
    BY <1>1, <1>3
  <2>3. payouts'[t] = n
    BY <1>1, <1>3
  <2> SUFFICES ASSUME NEW r \in book'.refs, NEW u \in Trips,
                      r[1] = u, r[2] = "payout-pending"
               PROVE  r[3] \in 1..payouts'[u]
    BY DEF PayoutsAreNumbered
  <2>4. CASE r \in book.refs
    <3>1. r[3] \in 1..payouts[u]
      BY <2>4 DEF Books, PayoutsAreNumbered
    <3> QED
      BY <2>2, <3>1
  <2>5. CASE r = PayoutRef(t, n)
    BY <2>2, <2>3, <2>5 DEF PayoutRef
  <2>6. ASSUME NEW name \in CaptureRefs, r = Ref(t, name)
        PROVE  FALSE
    BY <2>6 DEF Ref, CaptureRefs
  <2> QED
    BY <2>1, <2>4, <2>5, <2>6 DEF CaptureRefs
<1> QED
  BY <1>10, <1>14, <1>15 DEF Books

(* The first postings of a payment only move cash clearing.                *)
LEMMA ClearingBooks ==
  ASSUME IInv, Books, NEW t \in Trips, NEW n \in {"pending", "authorized"},
         book' = Post(book, Ref(t, n), "cash_clearing", Gross[t]),
         UNCHANGED payouts
  PROVE  Books'
<1>1. book.balance \in [Holders -> Int]
  BY DEF IInv, TypeOK
<1>2. \A u \in Trips, name \in CaptureRefs :
        Posted(u, name)' <=> Posted(u, name)
  BY <1>1, ClearingKeepsCaptures
<1>3. "cash_clearing" \in Holders /\ Gross[t] \in Int
  BY SharesAreInt DEF Holders, LedgerAccounts
<1>4. PostMoved(book, Ref(t, n), "cash_clearing", Gross[t], book')
  BY <1>1, <1>3, PostMoves
<1>5. \A h \in Holders \ {"cash_clearing"} :
        book'.balance[h] = book.balance[h]
  BY <1>4 DEF PostMoved
<1>6. PayoutsAreNumbered'
  BY <1>4 DEF Books, PayoutsAreNumbered, PostMoved, Ref
<1> QED
  BY <1>2, <1>5, <1>6, QuietBooks

LEMMA StillBooks ==
  ASSUME IInv, Books, UNCHANGED <<book, payouts>>
  PROVE  Books'
<1>1. /\ \A h \in Holders \ {"cash_clearing"} :
           book'.balance[h] = book.balance[h]
      /\ \A t \in Trips, name \in CaptureRefs :
           Posted(t, name)' <=> Posted(t, name)
      /\ PayoutsAreNumbered'
  BY DEF Books, PayoutsAreNumbered, Posted
<1> QED
  BY <1>1, QuietBooks

(* Everything that touches the books, or leaves them alone.                *)
LEMMA BooksStep ==
  ASSUME IInv, Books, [Next]_vars
  PROVE  Books'
<1>1. ASSUME NEW t \in Trips, Capture(t) PROVE Books'
  <2>1. CASE Capturable(t)
    BY <1>1, <2>1, CaptureBooks
  <2>2. CASE ~Capturable(t)
    BY <1>1, <2>2, StillBooks DEF Capture, payVars
  <2> QED
    BY <2>1, <2>2
<1>2. ASSUME UNCHANGED payVars PROVE Books'
  BY <1>2, StillBooks DEF payVars
<1>3. ASSUME NEW t \in Trips, TripStep(t) PROVE Books'
  <2>1. ASSUME NEW p \in Providers, InitiatePayment(t, p) PROVE Books'
    BY <2>1, ClearingBooks DEF InitiatePayment
  <2>2. CASE DriverAccept(t)
    BY <1>2, <2>2 DEF DriverAccept
  <2>3. CASE AcceptDispatch(t)
    BY <1>2, <2>3 DEF AcceptDispatch
  <2>4. CASE Authorize(t)
    BY <2>4, ClearingBooks, StillBooks DEF Authorize
  <2>5. CASE CompleteTrip(t)
    BY <1>2, <2>5 DEF CompleteTrip
  <2>6. CASE CaptureOnComplete(t)
    BY <1>1, <2>6 DEF CaptureOnComplete
  <2>7. CASE RequestCrash(t)
    BY <1>2, <2>7 DEF RequestCrash
  <2>8. ASSUME NEW k \in Outcomes, ChargeAttempt(t, k) PROVE Books'
    BY <1>2, <2>8 DEF ChargeAttempt
  <2> QED
    BY <1>3, <2>1, <2>2, <2>3, <2>4, <2>5, <2>6, <2>7, <2>8 DEF TripStep
<1>4. ASSUME NEW h \in Handlers, NEW t \in Trips, NEW k \in ChargeEvents,
             StartStep(h, t, k)
      PROVE  Books'
  BY <1>2, <1>4 DEF StartStep, ReceiveWebhook, SchedulerRetry, AdminRetry,
                    AdminDeadLetter
<1>5. ASSUME NEW h \in Handlers, HandlerStep(h) PROVE Books'
  <2>1. CASE CaptureOnCharge(h)
    <3>1. job[h].trip \in Trips
      BY <2>1 DEF CaptureOnCharge, IInv, TypeOK, Jobs
    <3> QED
      BY <1>1, <2>1, <3>1 DEF CaptureOnCharge
  <2>2. CASE ~CaptureOnCharge(h)
    <3>1. UNCHANGED <<book, payouts>>
      BY <1>5, <2>2
         DEF HandlerStep, WriteDeadLetter, Begin, ReadPayment,
             WriteConfirmation, ReadTrip, WriteFailure, MarkProcessed,
             HandlerThrows, MarkFailed, HandlerCrash, payVars
    <3> QED
      BY <3>1, StillBooks
  <2> QED
    BY <2>1, <2>2
<1>6. CASE UNCHANGED vars
  BY <1>2, <1>6 DEF vars, payVars
<1> QED
  BY <1>3, <1>4, <1>5, <1>6 DEF Next

LEMMA BooksInit ==
  ASSUME Init PROVE Books
<1>1. book.refs = {} /\ \A h \in Holders : book.balance[h] = 0
  BY DEF Init, EmptyBook
<1>2. /\ \A d \in Drivers : book.balance[d] = 0
      /\ \A h \in LedgerAccounts : book.balance[h] = 0
  BY <1>1 DEF Holders
<1>3. Captured = {} /\ \A d \in Drivers : Earned(d) = {}
  BY <1>1 DEF Captured, Earned, Posted
<1>4. /\ SumFunctionOnSet(Earning, {}) = 0
      /\ SumFunctionOnSet(Gross, {}) = 0
  BY SumOfNone
<1>5. PayoutsAreNumbered
  BY <1>1 DEF PayoutsAreNumbered
<1>6. WalletsAreWorthEarnings
  BY <1>2, <1>3, <1>4 DEF WalletsAreWorthEarnings, Earned
<1>7. SumFunctionOnSet(book.balance, Drivers) = 0
  BY <1>2, AmountFacts, SumOfZeros
<1>8. SumFunctionOnSet(PaidOut, Trips) = 0
  <2>1. \A t \in Trips : PaidOut[t] = 0
    BY AmountFacts DEF PaidOut, Init
  <2> QED
    BY <2>1, AmountFacts, SumOfZeros
<1>9. BooksAgree
  BY <1>2, <1>3, <1>4, <1>7, <1>8 DEF BooksAgree, Captured, LedgerAccounts
<1> QED
  BY <1>5, <1>6, <1>9 DEF Books

(* The wallets and the ledger accounts are worth what was captured, for    *)
(* any handlers, faults and crashes.                                       *)
LEMMA BooksInvariance == Spec => [](IInv /\ Books)
<1>1. IInv /\ Books /\ [Next]_vars => Books'
  BY BooksStep
<1> QED
  BY <1>1, BooksInit, Invariance, PTL DEF Spec

(* A driver's wallet is worth one share of every payment posted for one of *)
(* his trips, however often capturePaymentForTrip ran.                     *)
THEOREM WalletsAreWorthTheirTrips == Spec => []WalletsAreWorthEarnings
<1>1. Books => WalletsAreWorthEarnings
  BY DEF Books
<1> QED
  BY <1>1, BooksInvariance, PTL

(* Commission and earnings add up to the gross amounts captured, driver    *)
(* payable to the wallets, payout clearing to the payouts.                 *)
THEOREM TheBooksAgree == Spec => []BooksAgree
<1>1. Books => BooksAgree
  BY DEF Books
<1> QED
  BY <1>1, BooksInvariance, PTL
-----------------------------------------------------------------------------
(* What no step undoes.                                                    *)

(* A step of the trip takes back no posting, charge or confirmation, and   *)
(* fails no payment.                                                       *)
LEMMA StepOfTrip ==
  ASSUME IInv, NEW u \in Trips, TripStep(u)
  PROVE  \A t \in Trips :
           /\ Posted(t, "captured") => Posted(t, "captured")'
           /\ charges[t] \subseteq charges'[t]
           /\ payment[t].confirmed => payment'[t].confirmed
           /\ payment'[t].status = "FAILED" => payment[t].status = "FAILED"
<1> USE DEF payVars, handlerVars
<1>1. /\ book.balance \in [Holders -> Int]
      /\ payouts \in [Trips -> Nat]
      /\ payment \in [Trips -> Rows]
      /\ charges \in [Trips -> SUBSET ChargeEvents]
  BY DEF IInv, TypeOK, Rows
<1>2. ASSUME NEW p \in Providers, InitiatePayment(u, p)
      PROVE  /\ \A t \in Trips :
                  Posted(t, "captured") <=> Posted(t, "captured")'
             /\ UNCHANGED charges
             /\ payment' = [payment EXCEPT ![u].status = "PENDING",
                                           ![u].provider = p]
  BY <1>1, <1>2, ClearingKeepsCaptures DEF InitiatePayment, CaptureRefs
<1>3. ASSUME NEW p \in Providers, InitiatePayment(u, p)
      PROVE  \A t \in Trips :
               /\ payment'[t].confirmed = payment[t].confirmed
               /\ payment'[t].status \in {"PENDING", payment[t].status}
  BY ONLY <1>1, <1>2, <1>3, u \in Trips DEF Rows
<1>4. CASE \E p \in Providers : InitiatePayment(u, p)
  BY <1>2, <1>3, <1>4
<1>5. CASE Authorize(u)
  <2>1. \A t \in Trips : Posted(t, "captured") => Posted(t, "captured")'
    BY <1>1, <1>5, ClearingKeepsCaptures DEF Authorize, CaptureRefs, Posted
  <2>2. \/ payment' = payment
        \/ payment' = [payment EXCEPT ![u].status = "AUTHORIZED"]
    BY <1>5 DEF Authorize
  <2>3. \A t \in Trips :
          /\ payment'[t].confirmed = payment[t].confirmed
          /\ payment'[t].status \in {"AUTHORIZED", payment[t].status}
    BY ONLY <1>1, <2>2, u \in Trips DEF Rows
  <2> QED
    BY <1>5, <2>1, <2>3 DEF Authorize
<1>6. CASE CaptureOnComplete(u)
  <2>1. \A t \in Trips :
          /\ payment'[t].status \in {"CAPTURED", payment[t].status}
          /\ payment'[t].confirmed = payment[t].confirmed
    BY <1>1, <1>6, CaptureEffect DEF CaptureOnComplete
  <2>2. \A t \in Trips : Posted(t, "captured") => Posted(t, "captured")'
    BY <1>1, <1>6, CaptureEffect DEF CaptureOnComplete, CaptureRefs, Posted
  <2> QED
    BY <1>6, <2>1, <2>2 DEF CaptureOnComplete
<1>7. CASE \E k \in Outcomes : ChargeAttempt(u, k)
  BY <1>1, <1>7 DEF ChargeAttempt, Posted
<1>8. CASE DriverAccept(u) \/ AcceptDispatch(u) \/ CompleteTrip(u)
             \/ RequestCrash(u)
  BY <1>8 DEF DriverAccept, AcceptDispatch, CompleteTrip, RequestCrash, Posted
<1> QED
  BY <1>4, <1>5, <1>6, <1>7, <1>8 DEF TripStep

(* Nor does a handler, except that the failure handler fails a payment.    *)
LEMMA StepOfHandler ==
  ASSUME IInv, NEW h \in Handlers, HandlerStep(h)
  PROVE  /\ UNCHANGED <<charges, tripPc>>
         /\ \A t \in Trips :
              /\ Posted(t, "captured") => Posted(t, "captured")'
              /\ payment[t].confirmed => payment'[t].confirmed
              /\ payment'[t].status = "FAILED" =>
                   \/ payment[t].status = "FAILED"
                   \/ "charge.failed" \in charges[t]
<1> USE DEF payVars
<1>1. /\ book.balance \in [Holders -> Int]
      /\ payouts \in [Trips -> Nat]
      /\ payment \in [Trips -> Rows]
  BY DEF IInv, TypeOK, Rows
<1>2. ASSUME hpc[h] # "idle"
      PROVE  /\ job[h].trip \in Trips
             /\ job[h].kind \in charges[job[h].trip]
             /\ hpc[h] = "write" => job[h].seen \in {"PENDING", "AUTHORIZED"}
  BY <1>2 DEF IInv, HandlersKnow, TypeOK, Jobs
<1>3. CASE CaptureOnCharge(h)
  <2>1. job[h].trip \in Trips /\ Capture(job[h].trip)
    BY <1>2, <1>3 DEF CaptureOnCharge
  <2>2. \A t \in Trips :
          /\ payment'[t].status \in {"CAPTURED", payment[t].status}
          /\ payment'[t].confirmed = payment[t].confirmed
    BY <1>1, <2>1, CaptureEffect
  <2>3. \A t \in Trips : Posted(t, "captured") => Posted(t, "captured")'
    BY <1>1, <2>1, CaptureEffect DEF CaptureRefs, Posted
  <2> QED
    BY <1>3, <2>2, <2>3 DEF CaptureOnCharge
<1>4. CASE WriteConfirmation(h)
  <2> DEFINE t == job[h].trip
  <2>1. /\ t \in Trips
        /\ payment' = [payment EXCEPT ![t].confirmed = TRUE,
                                      ![t].status = "AUTHORIZED"]
    BY <1>2, <1>4 DEF WriteConfirmation
  <2> HIDE DEF t
  <2>2. \A u \in Trips :
          /\ payment[u].confirmed => payment'[u].confirmed
          /\ payment'[u].status \in {"AUTHORIZED", payment[u].status}
    BY ONLY <1>1, <2>1 DEF Rows
  <2> QED
    BY <1>4, <2>2 DEF WriteConfirmation, Posted
<1>5. CASE WriteFailure(h)
  <2> DEFINE t == job[h].trip
  <2>1. /\ t \in Trips
        /\ payment' = [payment EXCEPT ![t].status = "FAILED"]
        /\ "charge.failed" \in charges[t]
    BY <1>2, <1>5 DEF WriteFailure
  <2> HIDE DEF t
  <2>2. \A u \in Trips :
          /\ payment'[u].confirmed = payment[u].confirmed
          /\ u # t => payment'[u].status = payment[u].status
    BY ONLY <1>1, <2>1 DEF Rows
  <2> QED
    BY <1>5, <2>1, <2>2 DEF WriteFailure, Posted
<1>6. CASE UNCHANGED <<payment, book, charges, tripPc>>
  BY <1>6 DEF Posted
<1> QED
  BY <1>3, <1>4, <1>5, <1>6
     DEF HandlerStep, WriteDeadLetter, Begin, ReadPayment, ReadTrip,
         MarkProcessed, HandlerThrows, MarkFailed, HandlerCrash

(* A delivery or a retry starts a handler and writes the event's status.   *)
LEMMA StepOfStart ==
  ASSUME IInv, NEW h \in Handlers, NEW t \in Trips, NEW k \in ChargeEvents,
         StartStep(h, t, k)
  PROVE  /\ UNCHANGED <<payment, book, payouts, tripPc, charges, faults,
                        crashes>>
         /\ \A u \in Trips, l \in ChargeEvents :
              event'[u][l].processed = event[u][l].processed
         /\ hpc[h] = "idle"
         /\ \A g \in Handlers \ {h} : hpc'[g] = hpc[g] /\ job'[g] = job[g]
         /\ \/ hpc'[h] = "idle"
            \/ /\ hpc'[h] \in {"begin", "deadletter"}
               /\ job'[h].trip = t /\ job'[h].kind = k
<1> USE DEF payVars, handlerVars
<1>1. /\ event \in [Trips -> [ChargeEvents -> EventRows]]
      /\ hpc \in [Handlers -> HandlerPcs]
      /\ job \in [Handlers -> Jobs \cup {NoJob}]
  BY DEF IInv, TypeOK, EventRows
<1>2. ASSUME NEW source, NEW pc \in {"begin", "deadletter"},
             Start(h, t, k, source, pc)
      PROVE  /\ hpc[h] = "idle"
             /\ \A g \in Handlers \ {h} : hpc'[g] = hpc[g] /\ job'[g] = job[g]
             /\ hpc'[h] \in {"begin", "deadletter"}
             /\ job'[h].trip = t /\ job'[h].kind = k
  BY <1>1, <1>2 DEF Start
<1>3. CASE ReceiveWebhook(h, t, k)
  <2>1. \A u \in Trips, l \in ChargeEvents :
          event'[u][l].processed = event[u][l].processed
    BY <1>1, <1>3 DEF ReceiveWebhook, EventRows
  <2>2. CASE Start(h, t, k, "webhook", "begin")
    BY <1>2, <1>3, <2>1, <2>2 DEF ReceiveWebhook
  <2>3. CASE UNCHANGED handlerVars
    BY <1>3, <2>1, <2>3 DEF ReceiveWebhook
  <2> QED
    BY <1>3, <2>2, <2>3 DEF ReceiveWebhook
<1>4. CASE SchedulerRetry(h, t, k)
  BY <1>2, <1>4 DEF SchedulerRetry
<1>5. CASE AdminRetry(h, t, k)
  BY <1>2, <1>5 DEF AdminRetry
<1>6. CASE AdminDeadLetter(h, t, k)
  BY <1>2, <1>6 DEF AdminDeadLetter
<1> QED
  BY <1>3, <1>4, <1>5, <1>6 DEF StartStep

(* Where a step of handler h leaves it, and which event it processes.      *)
LEMMA StepMovesHandler ==
  ASSUME IInv, NEW h \in Handlers, HandlerStep(h)
  PROVE  /\ hpc[h] # "idle"
         /\ \A g \in Handlers \ {h} : hpc'[g] = hpc[g] /\ job'[g] = job[g]
         /\ hpc'[h] # "idle" => /\ job'[h].trip = job[h].trip
                                /\ job'[h].kind = job[h].kind
         /\ \A u \in Trips, l \in ChargeEvents :
              event'[u][l].processed # event[u][l].processed =>
                /\ MarkProcessed(h)
                /\ job[h].trip = u /\ job[h].kind = l
                /\ event'[u][l].processed
         /\ \/ hpc'[h] \notin {"trip", "capture", "done"}
            \/ WriteConfirmation(h)
            \/ ReadPayment(h)
            \/ ReadTrip(h)
            \/ CaptureOnCharge(h)
            \/ WriteFailure(h)
<1> USE DEF payVars
<1> DEFINE Others == \A g \in Handlers \ {h} :
                       hpc'[g] = hpc[g] /\ job'[g] = job[g]
           Same == hpc'[h] # "idle" => /\ job'[h].trip = job[h].trip
                                       /\ job'[h].kind = job[h].kind
           Flags == \A u \in Trips, l \in ChargeEvents :
                      event'[u][l].processed = event[u][l].processed
<1>1. /\ event \in [Trips -> [ChargeEvents -> EventRows]]
      /\ hpc \in [Handlers -> HandlerPcs]
      /\ job \in [Handlers -> Jobs \cup {NoJob}]
  BY DEF IInv, TypeOK, EventRows
<1>2. ASSUME NEW pc, Goto(h, pc), UNCHANGED job
      PROVE  Others /\ Same /\ hpc'[h] = pc
  BY <1>1, <1>2 DEF Goto
<1>3. ASSUME Finish(h) PROVE Others /\ Same /\ hpc'[h] = "idle"
  BY <1>1, <1>3 DEF Finish, Goto
<1>4. ASSUME UNCHANGED event PROVE Flags
  BY <1>4
<1>5. hpc[h] # "idle" => /\ job[h] \in Jobs
                         /\ job[h].trip \in Trips
                         /\ job[h].kind \in ChargeEvents
  BY DEF IInv, TypeOK, Jobs
<1>6. ASSUME hpc[h] # "idle", NEW s,
             event' = [event EXCEPT ![job[h].trip][job[h].kind].status = s]
      PROVE  Flags
  <2> DEFINE t == job[h].trip
             k == job[h].kind
  <2>1. t \in Trips /\ k \in ChargeEvents
        /\ event' = [event EXCEPT ![t][k].status = s]
    BY <1>5, <1>6
  <2> HIDE DEF t, k
  <2> QED
    BY ONLY <1>1, <2>1 DEF EventRows
<1> HIDE DEF Others, Same, Flags
<1>7. CASE WriteDeadLetter(h)
  <2>1. Others /\ Same /\ Flags /\ hpc[h] # "idle" /\ hpc'[h] = "idle"
    BY <1>3, <1>6, <1>7 DEF WriteDeadLetter
  <2> QED
    BY <2>1 DEF Others, Same, Flags
<1>8. CASE Begin(h)
  <2>1. Others /\ Same /\ Flags /\ hpc[h] # "idle" /\ hpc'[h] = "read"
    BY <1>2, <1>6, <1>8 DEF Begin
  <2> QED
    BY <2>1 DEF Others, Same, Flags
<1>9. CASE ReadPayment(h)
  <2>1. hpc[h] # "idle" /\ Flags /\ Others
    BY <1>1, <1>4, <1>9 DEF ReadPayment, Goto, Others
  <2>2. Same
    BY <1>1, <1>5, <1>9 DEF ReadPayment, Same, Jobs
  <2> QED
    BY <1>9, <2>1, <2>2 DEF Others, Same, Flags
<1>10. CASE WriteConfirmation(h) \/ ReadTrip(h) \/ CaptureOnCharge(h)
             \/ WriteFailure(h)
  <2>1. Others /\ Same /\ Flags /\ hpc[h] # "idle"
    BY <1>2, <1>4, <1>10
       DEF WriteConfirmation, ReadTrip, CaptureOnCharge, WriteFailure
  <2> QED
    BY <1>10, <2>1 DEF Others, Same, Flags
<1>11. CASE MarkProcessed(h)
  <2>1. Others /\ Same /\ hpc[h] # "idle" /\ hpc'[h] = "idle"
    BY <1>3, <1>11 DEF MarkProcessed
  <2> DEFINE t == job[h].trip
             k == job[h].kind
             r == [status |-> "PROCESSED", processed |-> TRUE]
  <2>2. t \in Trips /\ k \in ChargeEvents
        /\ event' = [event EXCEPT ![t][k] = r] /\ r.processed
    BY <1>5, <1>11, <2>1 DEF MarkProcessed
  <2> HIDE DEF t, k, r
  <2>3. \A u \in Trips, l \in ChargeEvents :
          event'[u][l].processed # event[u][l].processed =>
            u = t /\ l = k /\ event'[u][l].processed
    BY ONLY <1>1, <2>2
  <2> QED
    BY <1>11, <2>1, <2>3 DEF Others, Same, t, k
<1>12. CASE HandlerThrows(h)
  <2>1. Others /\ Same /\ Flags /\ hpc[h] # "idle" /\ hpc'[h] = "failing"
    BY <1>2, <1>4, <1>12 DEF HandlerThrows
  <2> QED
    BY <2>1 DEF Others, Same, Flags
<1>13. CASE MarkFailed(h)
  <2>1. Others /\ Same /\ Flags /\ hpc[h] # "idle" /\ hpc'[h] = "idle"
    BY <1>3, <1>6, <1>13 DEF MarkFailed
  <2> QED
    BY <2>1 DEF Others, Same, Flags
<1>14. CASE HandlerCrash(h)
  <2>1. Others /\ Same /\ Flags /\ hpc[h] # "idle" /\ hpc'[h] = "idle"
    BY <1>3, <1>4, <1>14 DEF HandlerCrash
  <2> QED
    BY <2>1 DEF Others, Same, Flags
<1> QED
  BY <1>7, <1>8, <1>9, <1>10, <1>11, <1>12, <1>13, <1>14 DEF HandlerStep
-----------------------------------------------------------------------------
(* No capture is lost.                                                     *)

(* A capture of a confirmed payment posts it, unless an announced failure  *)
(* has ended it.                                                           *)
LEMMA CaptureSettles ==
  ASSUME IInv, ChargesAreSettled, NEW t \in Trips, Capture(t),
         payment[t].confirmed, UNCHANGED charges
  PROVE  Settled(t)'
<1>1. /\ book.balance \in [Holders -> Int]
      /\ payouts \in [Trips -> Nat]
      /\ payment \in [Trips -> Rows]
  BY DEF IInv, TypeOK, Rows
<1>2. payment[t].status # "NONE"
  BY DEF IInv, WorkIsAnnounced
<1>3. CASE payment[t].status \in {"PENDING", "AUTHORIZED"}
  <2>1. Capturable(t)
    BY <1>3 DEF Capturable
  <2> QED
    BY <1>1, <2>1, CaptureEffect DEF Settled, Posted, CaptureRefs
<1>4. CASE payment[t].status = "CAPTURED"
  <2>1. Posted(t, "captured")
    BY <1>4 DEF IInv, CaptureIsPosted
  <2> QED
    BY <1>1, <2>1, CaptureEffect DEF Settled, Posted, CaptureRefs
<1>5. CASE payment[t].status = "FAILED"
  BY <1>5 DEF ChargesAreSettled, Settled
<1> QED
  BY <1>1, <1>2, <1>3, <1>4, <1>5 DEF Rows, PaymentStatus

LEMMA SettledByTrip ==
  ASSUME IInv, ChargesAreSettled, NEW u \in Trips, TripStep(u)
  PROVE  ChargesAreSettled'
<1>1. \A t \in Trips :
        /\ Posted(t, "captured") => Posted(t, "captured")'
        /\ charges[t] \subseteq charges'[t]
        /\ payment[t].confirmed => payment'[t].confirmed
        /\ payment'[t].status = "FAILED" => payment[t].status = "FAILED"
  BY StepOfTrip
<1>2. UNCHANGED <<event, hpc, job>>
  BY DEF TripStep, InitiatePayment, DriverAccept, AcceptDispatch, Authorize,
         CompleteTrip, CaptureOnComplete, RequestCrash, ChargeAttempt,
         handlerVars
<1>3. ASSUME NEW t \in Trips, Settled(t) PROVE Settled(t)'
  <2>1. CASE CaptureOnComplete(u) /\ t = u /\ payment[t].confirmed
    BY <2>1, CaptureSettles DEF CaptureOnComplete
  <2>2. CASE ~payment[t].confirmed
    BY <1>1, <1>3, <2>2 DEF Settled
  <2>3. CASE tripPc'[t] = "completed" => tripPc[t] = "completed"
    BY <1>1, <1>3, <2>3 DEF Settled
  <2>4. tripPc'[t] = "completed" =>
          tripPc[t] = "completed" \/ (CaptureOnComplete(u) /\ t = u)
    BY DEF TripStep, InitiatePayment, DriverAccept, AcceptDispatch,
           Authorize, CompleteTrip, CaptureOnComplete, RequestCrash,
           ChargeAttempt, IInv, TypeOK
  <2> QED
    BY <2>1, <2>2, <2>3, <2>4
<1>4. \A h \in Handlers : hpc[h] # "idle" => job[h].trip \in Trips
  BY DEF IInv, TypeOK, Jobs
<1> QED
  BY <1>1, <1>2, <1>3, <1>4 DEF ChargesAreSettled

LEMMA SettledByStart ==
  ASSUME IInv, ChargesAreSettled, NEW h \in Handlers, NEW t \in Trips,
         NEW k \in ChargeEvents, StartStep(h, t, k)
  PROVE  ChargesAreSettled'
<1>1. \A u \in Trips : Settled(u) => Settled(u)'
  BY StepOfStart DEF Settled, Posted
<1>2. \A g \in Handlers : hpc[g] # "idle" => job[g].trip \in Trips
  BY DEF IInv, TypeOK, Jobs
<1>3. "charge.success" \in ChargeEvents
  BY DEF ChargeEvents
<1> QED
  BY <1>1, <1>2, <1>3, StepOfStart DEF ChargesAreSettled

LEMMA SettledByHandler ==
  ASSUME IInv, ChargesAreSettled, NEW h \in Handlers, HandlerStep(h)
  PROVE  ChargesAreSettled'
<1>1. /\ UNCHANGED <<charges, tripPc>>
      /\ \A t \in Trips :
           /\ Posted(t, "captured") => Posted(t, "captured")'
           /\ payment[t].confirmed => payment'[t].confirmed
           /\ payment'[t].status = "FAILED" =>
                \/ payment[t].status = "FAILED"
                \/ "charge.failed" \in charges[t]
  BY StepOfHandler
<1>2. \A t \in Trips : Settled(t) => Settled(t)'
  BY <1>1 DEF Settled
<1>0. PICK t \in Trips : t = job[h].trip
  BY StepMovesHandler DEF IInv, TypeOK, Jobs
<1>3. /\ job[h].kind \in charges[t]
      /\ hpc[h] \in {"trip", "capture"} => payment[t].confirmed
      /\ hpc[h] = "done" /\ job[h].kind = "charge.success" => Settled(t)
      /\ hpc[h] = "capture" => TripCompleted(t)
  BY <1>0, StepMovesHandler DEF IInv, HandlersKnow, ChargesAreSettled
<1>4. ASSUME NEW u \in Trips, event'[u]["charge.success"].processed
      PROVE  Settled(u)'
  <2>1. \/ event[u]["charge.success"].processed
        \/ /\ hpc[h] = "done" /\ t = u /\ job[h].kind = "charge.success"
    <3>1. "charge.success" \in ChargeEvents
      BY DEF ChargeEvents
    <3>2. event'[u]["charge.success"].processed
              # event[u]["charge.success"].processed
            => /\ MarkProcessed(h)
               /\ job[h].trip = u /\ job[h].kind = "charge.success"
      BY <3>1, StepMovesHandler
    <3>3. MarkProcessed(h) => hpc[h] = "done"
      BY DEF MarkProcessed
    <3> QED
      BY <1>0, <1>4, <3>2, <3>3
  <2> QED
    BY <1>2, <1>3, <2>1 DEF ChargesAreSettled
<1>5. ASSUME NEW g \in Handlers \ {h}
      PROVE  /\ hpc'[g] \in {"trip", "capture"} =>
                  payment'[job'[g].trip].confirmed
             /\ hpc'[g] = "done" /\ job'[g].kind = "charge.success" =>
                  Settled(job[g].trip)'
  <2>1. hpc'[g] = hpc[g] /\ job'[g] = job[g]
    BY StepMovesHandler
  <2>2. hpc[g] = "idle" \/ job[g].trip \in Trips
    BY DEF IInv, TypeOK, Jobs
  <2>3. CASE job[g].trip \in Trips
    <3>1. PICK u \in Trips : u = job[g].trip
      BY <2>3
    <3> QED
      BY <1>1, <1>2, <2>1, <3>1 DEF ChargesAreSettled
  <2> QED
    BY <2>1, <2>2, <2>3
<1>6. /\ hpc'[h] \in {"trip", "capture"} => payment'[t].confirmed
      /\ hpc'[h] = "done" /\ job[h].kind = "charge.success" => Settled(t)'
  <2>1. CASE hpc'[h] \notin {"trip", "capture", "done"}
    BY <2>1
  <2>2. CASE WriteConfirmation(h)
    <3>1. hpc'[h] = "trip"
      BY <2>2 DEF WriteConfirmation, Goto, IInv, TypeOK
    <3>2. payment'[t].confirmed
      BY <1>0, <1>3, <2>2 DEF WriteConfirmation, IInv, TypeOK
    <3> QED
      BY <3>1, <3>2
  <2>3. CASE ReadPayment(h)
    <3>1. hpc'[h] = IF payment[t].status \in {"CAPTURED", "FAILED"} THEN "done"
                    ELSE "write"
      BY <1>0, <2>3 DEF ReadPayment, Goto, IInv, TypeOK
    <3>2. payment[t].status \in {"CAPTURED", "FAILED"} => Settled(t)
      BY <1>3 DEF Settled, ChargesAreSettled, IInv, CaptureIsPosted
    <3> QED
      BY <1>2, <1>3, <3>1, <3>2
  <2>4. CASE ReadTrip(h)
    <3>1. /\ hpc[h] = "trip"
          /\ hpc'[h] = IF TripCompleted(t) THEN "capture" ELSE "done"
      BY <1>0, <2>4 DEF ReadTrip, Goto, IInv, TypeOK
    <3>2. ~TripCompleted(t) => Settled(t)
      BY <1>3, <3>1 DEF Settled, TripCompleted
    <3> QED
      BY <1>1, <1>2, <1>3, <3>1, <3>2
  <2>5. CASE CaptureOnCharge(h)
    <3>1. hpc[h] = "capture" /\ Capture(t) /\ hpc'[h] = "done"
      BY <1>0, <2>5 DEF CaptureOnCharge, Goto, IInv, TypeOK
    <3>2. Settled(t)'
      BY <1>1, <1>3, <3>1, CaptureSettles
    <3> QED
      BY <3>1, <3>2
  <2>6. CASE WriteFailure(h)
    <3>1. job[h].kind = "charge.failed" /\ hpc'[h] = "done"
      BY <2>6 DEF WriteFailure, Goto, IInv, TypeOK
    <3> QED
      BY <3>1
  <2> QED
    BY <2>1, <2>2, <2>3, <2>4, <2>5, <2>6, StepMovesHandler
<1>7. /\ hpc'[h] \in {"trip", "capture"} => payment'[job'[h].trip].confirmed
      /\ hpc'[h] = "done" /\ job'[h].kind = "charge.success" =>
           Settled(job[h].trip)'
  <2>1. hpc'[h] # "idle" => job'[h].trip = t /\ job'[h].kind = job[h].kind
    BY <1>0, StepMovesHandler
  <2>2. job'[h].trip = t => (Settled(job[h].trip)' <=> Settled(t)')
    BY DEF Settled
  <2> QED
    BY <1>6, <2>1, <2>2
<1> QED
  BY <1>1, <1>4, <1>5, <1>7 DEF ChargesAreSettled
LEMMA SettledInit ==
  ASSUME Init PROVE ChargesAreSettled
  BY DEF Init, ChargesAreSettled, ChargeEvents

(* The webhook confirms and then looks at the trip, the completion         *)
(* commits and then looks for the confirmation: when both are over, the    *)
(* payment is posted, or an announced failure has ended it; for any number *)
(* of handlers, faults and crashes.                                        *)
THEOREM CapturesAreNotLost == Spec => []NoCaptureIsLost
<1>1. IInv /\ ChargesAreSettled /\ [Next]_vars => ChargesAreSettled'
  <2> SUFFICES ASSUME IInv, ChargesAreSettled, [Next]_vars
               PROVE  ChargesAreSettled'
    OBVIOUS
  <2>1. CASE UNCHANGED vars
    BY <2>1 DEF vars, ChargesAreSettled, Settled, Posted
  <2> QED
    BY <2>1, SettledByTrip, SettledByStart, SettledByHandler DEF Next
<1>2. ChargesAreSettled => NoCaptureIsLost
  BY DEF ChargesAreSettled, NoCaptureIsLost, Settled
<1> QED
  BY <1>1, <1>2, SettledInit, Invariance, PTL DEF Spec
-----------------------------------------------------------------------------
(* One payout per payment.                                                 *)

(* A capture uses up the chance to capture.                                *)
LEMMA CaptureSpends ==
  ASSUME IInv, NEW t \in Trips, Capture(t)
  PROVE  /\ \A u \in Trips :
              /\ payouts'[u] + CaptureChance(u)' = payouts[u] + CaptureChance(u)
              /\ payment'[u].provider = payment[u].provider
              /\ payment'[u].status = "NONE" <=> payment[u].status = "NONE"
         /\ payouts' \in [Trips -> Nat]
<1>1. /\ book.balance \in [Holders -> Int]
      /\ payouts \in [Trips -> Nat]
      /\ payment \in [Trips -> Rows]
  BY DEF IInv, TypeOK, Rows
<1>2. /\ \A u \in Trips :
           /\ payment'[u].status = IF u = t /\ Capturable(t)
                                   THEN "CAPTURED" ELSE payment[u].status
           /\ payment'[u].provider = payment[u].provider
           /\ payment'[u].confirmed = payment[u].confirmed
      /\ payouts' \in [Trips -> Nat]
  BY <1>1, CaptureEffect
<1>3. CASE Capturable(t)
  <2>1. payouts' = [payouts EXCEPT ![t] = @ + 1]
    BY <1>3 DEF Capture
  <2>2. Capturable(t) /\ ~Capturable(t)' /\ payment[t].status # "NONE"
    BY <1>2, <1>3 DEF Capturable
  <2>3. \A u \in Trips \ {t} : Capturable(u)' <=> Capturable(u)
    BY <1>2 DEF Capturable
  <2>4. payouts'[t] = payouts[t] + 1 /\ payouts[t] \in Nat
    BY <1>1, <2>1
  <2>5. \A u \in Trips \ {t} : payouts'[u] = payouts[u]
    BY <1>1, <2>1
  <2>6. CaptureChance(t) = 1 /\ CaptureChance(t)' = 0
    BY <2>2 DEF CaptureChance
  <2>7. \A u \in Trips \ {t} : CaptureChance(u)' = CaptureChance(u)
    BY <2>3 DEF CaptureChance
  <2> QED
    BY <1>2, <2>2, <2>4, <2>5, <2>6, <2>7
<1>4. CASE ~Capturable(t)
  <2>1. UNCHANGED <<payment, payouts>>
    BY <1>4 DEF Capture, payVars
  <2> QED
    BY <1>2, <2>1 DEF CaptureChance, Capturable
<1> QED
  BY <1>3, <1>4

(* What a step may do to the budget: nothing, or spend.                    *)
LEMMA BudgetKept ==
  ASSUME IInv, IInv', PayoutBudget, NEW t \in Trips,
         payouts'[t] + CaptureChance(t)' <= payouts[t] + CaptureChance(t),
         MayConfirm(t)' => MayConfirm(t),
         faults <= faults', crashes <= crashes'
  PROVE  payouts'[t] + CaptureChance(t)' + ConfirmChance(t)'
           <= 1 + faults' + crashes'
<1>1. /\ payouts[t] \in Nat /\ payouts'[t] \in Nat
      /\ faults \in Nat /\ faults' \in Nat
      /\ crashes \in Nat /\ crashes' \in Nat
  BY PaymentsAssumption DEF IInv, TypeOK
<1>2. /\ CaptureChance(t) \in {0, 1} /\ CaptureChance(t)' \in {0, 1}
      /\ ConfirmChance(t) \in {0, 1} /\ ConfirmChance(t)' \in {0, 1}
  BY DEF CaptureChance, ConfirmChance
<1>3. ConfirmChance(t)' <= ConfirmChance(t)
  BY DEF ConfirmChance
<1>4. payouts[t] + CaptureChance(t) + ConfirmChance(t) <= 1 + faults + crashes
  BY DEF PayoutBudget
<1> QED
  BY <1>1, <1>2, <1>3, <1>4

LEMMA BudgetByTrip ==
  ASSUME IInv, IInv', PayoutBudget, NEW u \in Trips, TripStep(u)
  PROVE  PayoutBudget'
<1> USE DEF payVars, handlerVars
<1>1. UNCHANGED <<event, hpc, job, faults>>
  BY DEF TripStep, InitiatePayment, DriverAccept, AcceptDispatch, Authorize,
         CompleteTrip, CaptureOnComplete, RequestCrash, ChargeAttempt
<1>2. /\ payment \in [Trips -> Rows]
      /\ payouts \in [Trips -> Nat]
      /\ charges \in [Trips -> SUBSET ChargeEvents]
      /\ crashes \in Nat /\ faults \in Nat
  BY PaymentsAssumption DEF IInv, TypeOK, Rows
<1>3. ASSUME UNCHANGED <<payment, payouts, charges>>, crashes <= crashes'
      PROVE  PayoutBudget'
  <2>1. \A t \in Trips : /\ MayConfirm(t)' => MayConfirm(t)
                         /\ CaptureChance(t)' = CaptureChance(t)
    BY <1>1, <1>3 DEF MayConfirm, CaptureChance, Capturable
  <2>2. \A t \in Trips :
          payouts'[t] + CaptureChance(t)' <= payouts[t] + CaptureChance(t)
    BY <1>2, <1>3, <2>1 DEF CaptureChance
  <2>3. ASSUME NEW t \in Trips
        PROVE  payouts'[t] + CaptureChance(t)' + ConfirmChance(t)'
                 <= 1 + faults' + crashes'
    BY <1>1, <1>2, <1>3, <2>1, <2>2, BudgetKept
  <2> QED
    BY <1>1, <1>3, <2>3 DEF PayoutBudget
<1>4. ASSUME NEW p \in Providers, InitiatePayment(u, p) PROVE PayoutBudget'
  <2>1. /\ payment[u].status = "NONE"
        /\ payment' = [payment EXCEPT ![u].status = "PENDING",
                                      ![u].provider = p]
        /\ UNCHANGED <<charges, payouts, crashes>>
    BY <1>4 DEF InitiatePayment
  <2>2. /\ \A t \in Trips \ {u} : payment'[t] = payment[t]
        /\ payment'[u].status = "PENDING"
        /\ payment'[u].provider = p
        /\ payment'[u].confirmed = payment[u].confirmed
    BY ONLY <1>2, <2>1, u \in Trips, p \in Providers DEF Rows
  <2>3. charges[u] = {} /\ ~payment[u].confirmed
    BY <2>1 DEF IInv, WorkIsAnnounced
  <2>4. ASSUME NEW t \in Trips
        PROVE  payouts'[t] + CaptureChance(t)' + ConfirmChance(t)'
                 <= 1 + faults' + crashes'
    <3>1. CASE t # u
      <4>1. /\ MayConfirm(t)' => MayConfirm(t)
            /\ CaptureChance(t)' = CaptureChance(t)
        BY <1>1, <2>2, <3>1 DEF MayConfirm, CaptureChance, Capturable
      <4>2. payouts'[t] + CaptureChance(t)' <= payouts[t] + CaptureChance(t)
        BY <1>2, <2>1, <4>1 DEF CaptureChance
      <4> QED
        BY <1>1, <1>2, <2>1, <4>1, <4>2, BudgetKept
    <3>2. CASE t = u
      <4>1. /\ ~event[u]["charge.success"].processed
            /\ \A h \in Handlers : hpc[h] # "idle" => job[h].trip # u
        BY <2>3 DEF PayoutBudget, ChargeEvents, IInv, HandlersKnow
      <4>2. MayConfirm(u) /\ ~Capturable(u)
        BY <2>1, <4>1 DEF MayConfirm, Capturable
      <4>3. ConfirmChance(u) = 1 /\ CaptureChance(u) = 0
        BY <4>2 DEF ConfirmChance, CaptureChance
      <4>4. payouts[u] + CaptureChance(u) + ConfirmChance(u)
              <= 1 + faults + crashes
        BY DEF PayoutBudget
      <4>5. ~(Capturable(u)' /\ MayConfirm(u)')
        BY <2>2, <2>3 DEF Capturable, MayConfirm
      <4>6. CaptureChance(u)' + ConfirmChance(u)' <= 1
        BY <4>5 DEF CaptureChance, ConfirmChance
      <4>7. CaptureChance(u)' \in Nat /\ ConfirmChance(u)' \in Nat
        BY DEF CaptureChance, ConfirmChance
      <4>8. payouts'[u] = payouts[u] /\ payouts[u] \in Nat
        BY <1>2, <2>1
      <4> QED
        BY <1>1, <1>2, <2>1, <3>2, <4>3, <4>4, <4>6, <4>7, <4>8
    <3> QED
      BY <3>1, <3>2
  <2> QED
    BY <1>1, <2>1, <2>2, <2>3, <2>4 DEF PayoutBudget
<1>5. CASE Authorize(u)
  <2>1. /\ \/ payment' = payment
           \/ /\ payment[u].status = "PENDING"
              /\ payment' = [payment EXCEPT ![u].status = "AUTHORIZED"]
        /\ UNCHANGED <<charges, payouts, crashes>>
    BY <1>5 DEF Authorize
  <2>2. /\ \A t \in Trips :
             /\ payment'[t].provider = payment[t].provider
             /\ payment'[t].confirmed = payment[t].confirmed
             /\ \/ payment'[t].status = payment[t].status
                \/ /\ payment[t].status = "PENDING"
                   /\ payment'[t].status = "AUTHORIZED"
    BY ONLY <1>2, <2>1, u \in Trips DEF Rows
  <2>3. \A t \in Trips : /\ MayConfirm(t)' => MayConfirm(t)
                         /\ CaptureChance(t)' = CaptureChance(t)
    BY <1>1, <2>2 DEF MayConfirm, CaptureChance, Capturable
  <2>4. \A t \in Trips :
          payouts'[t] + CaptureChance(t)' <= payouts[t] + CaptureChance(t)
    BY <1>2, <2>1, <2>3 DEF CaptureChance
  <2>5. ASSUME NEW t \in Trips
        PROVE  payouts'[t] + CaptureChance(t)' + ConfirmChance(t)'
                 <= 1 + faults' + crashes'
    BY <1>1, <1>2, <2>1, <2>3, <2>4, BudgetKept
  <2> QED
    BY <1>1, <2>1, <2>2, <2>5 DEF PayoutBudget
<1>6. CASE CaptureOnComplete(u)
  <2>1. Capture(u) /\ UNCHANGED <<charges, crashes>>
    BY <1>6 DEF CaptureOnComplete
  <2>2. \A t \in Trips :
          /\ payouts'[t] + CaptureChance(t)' = payouts[t] + CaptureChance(t)
          /\ payment'[t].provider = payment[t].provider
          /\ payment'[t].status = "NONE" <=> payment[t].status = "NONE"
    BY <2>1, CaptureSpends
  <2>3. \A t \in Trips : MayConfirm(t)' => MayConfirm(t)
    BY <1>1, <2>2 DEF MayConfirm
  <2>4. ASSUME NEW t \in Trips
        PROVE  payouts'[t] + CaptureChance(t)' + ConfirmChance(t)'
                 <= 1 + faults' + crashes'
    <3>1. payouts'[t] + CaptureChance(t)' <= payouts[t] + CaptureChance(t)
      BY <1>2, <2>2 DEF CaptureChance
    <3> QED
      BY <1>1, <1>2, <2>1, <2>3, <3>1, BudgetKept
  <2> QED
    BY <1>1, <2>1, <2>2, <2>4 DEF PayoutBudget
<1>7. ASSUME NEW k \in Outcomes, ChargeAttempt(u, k) PROVE PayoutBudget'
  <2>1. /\ UNCHANGED <<payment, payouts, crashes>>
        /\ payment[u].provider = "paystack"
        /\ charges' = [charges EXCEPT ![u] = @ \cup {k}]
    BY <1>7 DEF ChargeAttempt
  <2>2. \A t \in Trips : /\ MayConfirm(t)' => MayConfirm(t)
                         /\ CaptureChance(t)' = CaptureChance(t)
    BY <1>1, <2>1 DEF MayConfirm, CaptureChance, Capturable
  <2>3. \A t \in Trips :
          payouts'[t] + CaptureChance(t)' <= payouts[t] + CaptureChance(t)
    BY <1>2, <2>1, <2>2 DEF CaptureChance
  <2>4. ASSUME NEW t \in Trips
        PROVE  payouts'[t] + CaptureChance(t)' + ConfirmChance(t)'
                 <= 1 + faults' + crashes'
    BY <1>1, <1>2, <2>1, <2>2, <2>3, BudgetKept
  <2>5. \A t \in Trips : /\ charges[t] \subseteq charges'[t]
                         /\ t # u => charges'[t] = charges[t]
    BY <1>2, <2>1
  <2> QED
    BY <1>1, <2>1, <2>4, <2>5 DEF PayoutBudget
<1>8. CASE RequestCrash(u)
  BY <1>2, <1>3, <1>8 DEF RequestCrash
<1>9. CASE DriverAccept(u) \/ AcceptDispatch(u) \/ CompleteTrip(u)
  BY <1>2, <1>3, <1>9 DEF DriverAccept, AcceptDispatch, CompleteTrip
<1> QED
  BY <1>4, <1>5, <1>6, <1>7, <1>8, <1>9 DEF TripStep

LEMMA BudgetByStart ==
  ASSUME IInv, IInv', PayoutBudget, NEW h \in Handlers, NEW t \in Trips,
         NEW k \in ChargeEvents, StartStep(h, t, k)
  PROVE  PayoutBudget'
<1>1. /\ UNCHANGED <<payment, book, payouts, tripPc, charges, faults, crashes>>
      /\ \A u \in Trips, l \in ChargeEvents :
           event'[u][l].processed = event[u][l].processed
      /\ hpc[h] = "idle"
      /\ \A g \in Handlers \ {h} : hpc'[g] = hpc[g] /\ job'[g] = job[g]
      /\ \/ hpc'[h] = "idle"
         \/ /\ hpc'[h] \in {"begin", "deadletter"}
            /\ job'[h].trip = t /\ job'[h].kind = k
  BY StepOfStart
<1>2. /\ payouts \in [Trips -> Nat] /\ crashes \in Nat /\ faults \in Nat
  BY PaymentsAssumption DEF IInv, TypeOK
<1>3. \A u \in Trips : /\ MayConfirm(u)' => MayConfirm(u)
                       /\ CaptureChance(u)' = CaptureChance(u)
  BY <1>1 DEF MayConfirm, CaptureChance, Capturable, ChargeEvents
<1>4. \A u \in Trips :
        payouts'[u] + CaptureChance(u)' <= payouts[u] + CaptureChance(u)
  BY <1>1, <1>2, <1>3 DEF CaptureChance
<1>5. ASSUME NEW u \in Trips
      PROVE  payouts'[u] + CaptureChance(u)' + ConfirmChance(u)'
               <= 1 + faults' + crashes'
  BY <1>1, <1>2, <1>3, <1>4, BudgetKept
<1>6. hpc'[h] # "idle" => ~event[t][k].processed
  BY <1>1 DEF StartStep, ReceiveWebhook, SchedulerRetry, AdminRetry,
              AdminDeadLetter, CanRetry, handlerVars
<1>7. \A g \in Handlers : hpc[g] # "idle" =>
        job[g].trip \in Trips /\ job[g].kind \in ChargeEvents
  BY DEF IInv, TypeOK, Jobs
<1>8. \A g \in Handlers : hpc'[g] # "idle" =>
        ~event'[job'[g].trip][job'[g].kind].processed
  BY <1>1, <1>6, <1>7 DEF PayoutBudget
<1> QED
  BY <1>1, <1>5, <1>8 DEF PayoutBudget

(* The handler's step, when there is only one.                             *)
LEMMA BudgetByHandler ==
  ASSUME \A g1, g2 \in Handlers : g1 = g2,
         IInv, IInv', PayoutBudget, NEW h \in Handlers, HandlerStep(h)
  PROVE  PayoutBudget'
<1> USE DEF payVars
<1>1. PICK t \in Trips : t = job[h].trip
  BY StepMovesHandler DEF IInv, TypeOK, Jobs
<1>2. /\ hpc[h] # "idle"
      /\ hpc'[h] # "idle" => /\ job'[h].trip = t
                             /\ job'[h].kind = job[h].kind
      /\ \A u \in Trips, l \in ChargeEvents :
           event'[u][l].processed # event[u][l].processed =>
             /\ MarkProcessed(h)
             /\ t = u /\ job[h].kind = l
             /\ event'[u][l].processed
  BY <1>1, StepMovesHandler
<1>3. /\ payment \in [Trips -> Rows]
      /\ payouts \in [Trips -> Nat]
      /\ faults \in Nat /\ crashes \in Nat
      /\ job[h].kind \in charges[t]
      /\ job[h].kind \in ChargeEvents
      /\ ~event[t][job[h].kind].processed
      /\ hpc[h] \in {"trip", "capture"} => job[h].kind = "charge.success"
      /\ hpc[h] = "write" => job[h].seen \in {"PENDING", "AUTHORIZED"}
      /\ payment[t].provider = "paystack"
  BY <1>1, <1>2, PaymentsAssumption
     DEF IInv, HandlersKnow, TypeOK, Rows, Jobs, PayoutBudget
<1>4. UNCHANGED charges /\ hpc' \in [Handlers -> HandlerPcs]
  BY StepOfHandler DEF IInv, TypeOK
<1>5. /\ \A u \in Trips : payment'[u].provider = payment[u].provider
      /\ \A u \in Trips :
           payment'[u].status = "NONE" <=> payment[u].status = "NONE"
      /\ \A u \in Trips : \/ /\ WriteConfirmation(h) /\ u = t
                              /\ payouts'[u] = payouts[u]
                           \/ payouts'[u] + CaptureChance(u)'
                                <= payouts[u] + CaptureChance(u)
  <2>1. CASE CaptureOnCharge(h)
    <3>1. Capture(t)
      BY <1>1, <2>1 DEF CaptureOnCharge
    <3> QED
      BY <1>3, <3>1, CaptureSpends DEF CaptureChance
  <2>2. CASE WriteConfirmation(h)
    <3>1. /\ payment' = [payment EXCEPT ![t].confirmed = TRUE,
                                        ![t].status = "AUTHORIZED"]
          /\ UNCHANGED payouts
      BY <1>1, <1>3, <2>2 DEF WriteConfirmation
    <3>2. payment[t].status # "NONE"
      BY <1>3 DEF IInv, WorkIsAnnounced
    <3>3. /\ \A u \in Trips \ {t} : payment'[u] = payment[u]
          /\ payment'[t].provider = payment[t].provider
          /\ payment'[t].status = "AUTHORIZED"
      BY ONLY <1>3, <3>1, t \in Trips DEF Rows
    <3>4. \A u \in Trips \ {t} : CaptureChance(u)' = CaptureChance(u)
      BY <3>3 DEF CaptureChance, Capturable
    <3>5. \A u \in Trips : payouts[u] + CaptureChance(u) \in Int
      BY <1>3 DEF CaptureChance
    <3>6. \A u \in Trips \ {t} :
            payouts'[u] + CaptureChance(u)' <= payouts[u] + CaptureChance(u)
      BY <3>1, <3>4, <3>5
    <3>7. \A u \in Trips : payment'[u].provider = payment[u].provider
      BY <3>3
    <3>8. \A u \in Trips :
            payment'[u].status = "NONE" <=> payment[u].status = "NONE"
      BY <3>2, <3>3
    <3> QED
      BY <2>2, <3>1, <3>6, <3>7, <3>8
  <2>3. CASE WriteFailure(h)
    <3>1. /\ payment' = [payment EXCEPT ![t].status = "FAILED"]
          /\ UNCHANGED payouts
      BY <1>1, <2>3 DEF WriteFailure
    <3>2. payment[t].status # "NONE"
      BY <1>3 DEF IInv, WorkIsAnnounced
    <3>3. /\ \A u \in Trips \ {t} : payment'[u] = payment[u]
          /\ payment'[t].provider = payment[t].provider
          /\ payment'[t].status = "FAILED"
      BY ONLY <1>3, <3>1, t \in Trips DEF Rows
    <3>4. \A u \in Trips : Capturable(u)' => Capturable(u)
      BY <3>3 DEF Capturable
    <3>5. \A u \in Trips : CaptureChance(u)' <= CaptureChance(u)
      BY <3>4 DEF CaptureChance
    <3>6. \A u \in Trips : /\ payouts[u] \in Nat
                           /\ CaptureChance(u) \in Nat
                           /\ CaptureChance(u)' \in Nat
      BY <1>3 DEF CaptureChance
    <3> QED
      BY <3>1, <3>2, <3>3, <3>5, <3>6
  <2>4. CASE UNCHANGED <<payment, payouts>>
    <3>1. \A u \in Trips : CaptureChance(u)' = CaptureChance(u)
      BY <2>4 DEF CaptureChance, Capturable
    <3>2. \A u \in Trips : payouts[u] + CaptureChance(u) \in Int
      BY <1>3 DEF CaptureChance
    <3> QED
      BY <2>4, <3>1, <3>2
  <2> QED
    BY <2>1, <2>2, <2>3, <2>4
       DEF HandlerStep, WriteDeadLetter, Begin, ReadPayment, ReadTrip,
           MarkProcessed, HandlerThrows, MarkFailed, HandlerCrash
<1>6. \A u \in Trips : MayConfirm(u) <=>
        /\ payment[u].status = "NONE" \/ payment[u].provider = "paystack"
        /\ ~event[u]["charge.success"].processed
        /\ ~ /\ hpc[h] \in {"trip", "capture", "done"}
             /\ t = u /\ job[h].kind = "charge.success"
  BY <1>1 DEF MayConfirm
<1>7. \A u \in Trips : MayConfirm(u)' <=>
        /\ payment'[u].status = "NONE" \/ payment'[u].provider = "paystack"
        /\ ~event'[u]["charge.success"].processed
        /\ ~ /\ hpc'[h] \in {"trip", "capture", "done"}
             /\ t = u /\ job[h].kind = "charge.success"
  BY <1>2 DEF MayConfirm
<1>8. \A l \in ChargeEvents, u \in Trips :
        event[u][l].processed => event'[u][l].processed
  BY <1>2
<1>9. "charge.success" \in ChargeEvents
  BY DEF ChargeEvents
<1>10. ASSUME NEW u \in Trips
       PROVE  payouts'[u] + CaptureChance(u)' + ConfirmChance(u)'
                <= 1 + faults' + crashes'
  <2>1. CASE HandlerThrows(h) \/ HandlerCrash(h)
    <3>1. /\ UNCHANGED <<payment, payouts>>
          /\ \/ faults' = faults + 1 /\ crashes' = crashes
             \/ faults' = faults /\ crashes' = crashes + 1
      BY <1>3, <2>1 DEF HandlerThrows, HandlerCrash
    <3>2. CaptureChance(u)' = CaptureChance(u)
      BY <3>1 DEF CaptureChance, Capturable
    <3>3. payouts[u] + CaptureChance(u) + ConfirmChance(u)
            <= 1 + faults + crashes
      BY DEF PayoutBudget
    <3>4. /\ ConfirmChance(u) \in {0, 1} /\ ConfirmChance(u)' \in {0, 1}
          /\ CaptureChance(u) \in {0, 1} /\ payouts[u] \in Nat
      BY <1>3 DEF ConfirmChance, CaptureChance
    <3>5. payouts'[u] = payouts[u]
      BY <3>1
    <3>6. ConfirmChance(u)' <= ConfirmChance(u) + 1
      BY <3>4
    <3>8. /\ ConfirmChance(u) \in Nat /\ ConfirmChance(u)' \in Nat
          /\ CaptureChance(u) \in Nat /\ payouts[u] \in Nat
          /\ faults \in Nat /\ crashes \in Nat
      BY <1>3, <3>4
    <3>9. 1 + faults' + crashes' = 1 + faults + crashes + 1
      BY <3>1, <3>8
    <3>10. payouts[u] + CaptureChance(u) + ConfirmChance(u)'
             <= 1 + faults + crashes + 1
      BY ONLY <3>3, <3>6, <3>8
    <3> QED
      BY ONLY <3>2, <3>5, <3>9, <3>10
  <2>2. CASE ~HandlerThrows(h) /\ ~HandlerCrash(h)
    <3>1. UNCHANGED <<faults, crashes>>
      BY <2>2 DEF HandlerStep, WriteDeadLetter, Begin, ReadPayment,
              WriteConfirmation, ReadTrip, CaptureOnCharge, WriteFailure,
              MarkProcessed, MarkFailed
    <3>2. CASE WriteConfirmation(h) /\ u = t
      <4>1. /\ hpc[h] = "write" /\ hpc'[h] = "trip"
            /\ job[h].kind = "charge.success"
        BY <3>2 DEF WriteConfirmation, Goto, IInv, TypeOK
      <4>2. MayConfirm(t) /\ ~MayConfirm(t)'
        BY <1>3, <1>6, <1>7, <4>1
      <4>3. ConfirmChance(t) = 1 /\ ConfirmChance(t)' = 0
        BY <4>2 DEF ConfirmChance
      <4>4. payouts'[t] = payouts[t]
        BY <3>2 DEF WriteConfirmation
      <4>5. payouts[t] + CaptureChance(t) + ConfirmChance(t)
              <= 1 + faults + crashes
        BY DEF PayoutBudget
      <4>6. /\ CaptureChance(t) \in {0, 1} /\ CaptureChance(t)' \in {0, 1}
            /\ payouts[t] \in Nat
        BY <1>3 DEF CaptureChance
      <4> QED
        BY <1>3, <3>1, <3>2, <4>3, <4>4, <4>5, <4>6
    <3>3. CASE ~(WriteConfirmation(h) /\ u = t)
      <4>1. payouts'[u] + CaptureChance(u)' <= payouts[u] + CaptureChance(u)
        BY <1>5, <3>3
      <4>2. MayConfirm(u)' => MayConfirm(u)
        <5>1. /\ hpc[h] = "trip" => hpc'[h] \in {"capture", "done"}
              /\ hpc[h] = "capture" => hpc'[h] = "done"
              /\ hpc[h] = "done" => MarkProcessed(h)
          BY <2>2 DEF HandlerStep, WriteDeadLetter, Begin, ReadPayment,
              WriteConfirmation, ReadTrip, CaptureOnCharge, WriteFailure,
              MarkProcessed, MarkFailed, Goto, IInv, TypeOK
        <5>2. MarkProcessed(h) /\ job[h].kind = "charge.success" =>
                event'[t]["charge.success"].processed
          BY <1>1, <1>9 DEF MarkProcessed, IInv, TypeOK
        <5> QED
          BY <1>5, <1>6, <1>7, <1>8, <1>9, <5>1, <5>2
      <4> QED
        BY <1>3, <3>1, <4>1, <4>2, BudgetKept
    <3> QED
      BY <3>2, <3>3
  <2> QED
    BY <2>1, <2>2
<1>11. \A g \in Handlers : hpc'[g] # "idle" =>
         ~event'[job'[g].trip][job'[g].kind].processed
  <2>1. MarkProcessed(h) => hpc'[h] = "idle"
    BY DEF MarkProcessed, Finish, Goto, IInv, TypeOK
  <2>2. hpc'[h] # "idle" => ~event'[t][job[h].kind].processed
    BY <1>2, <1>3, <2>1
  <2> QED
    BY <1>2, <2>2
<1>12. \A u \in Trips, k \in ChargeEvents :
         event'[u][k].processed => k \in charges[u]
  BY <1>1, <1>2, <1>3 DEF PayoutBudget
<1> QED
  BY <1>4, <1>5, <1>10, <1>11, <1>12 DEF PayoutBudget

LEMMA BudgetInit ==
  ASSUME Init PROVE PayoutBudget
<1>1. \A t \in Trips : /\ CaptureChance(t) = 0 /\ payouts[t] = 0
                       /\ ConfirmChance(t) \in {0, 1}
  BY DEF Init, CaptureChance, Capturable, ConfirmChance
<1>2. \A t \in Trips :
        payouts[t] + CaptureChance(t) + ConfirmChance(t) <= 1 + faults + crashes
  <2>1. faults = 0 /\ crashes = 0
    BY DEF Init
  <2>2. \A t \in Trips : ConfirmChance(t) \in Nat /\ ConfirmChance(t) <= 1
    BY <1>1
  <2> QED
    BY ONLY <1>1, <2>1, <2>2
<1>3. \A t \in Trips : /\ charges[t] = {}
                       /\ \A k \in ChargeEvents : ~event[t][k].processed
  BY DEF Init
<1>4. \A h \in Handlers : hpc[h] = "idle"
  BY DEF Init
<1> QED
  BY <1>2, <1>3, <1>4 DEF PayoutBudget

(* When the handlers of provider events do not overlap, a payment pays out *)
(* once, and once more for each of its handlers that threw or died; the    *)
(* trip's own requests may come in between at any point.                   *)
THEOREM OnePayout ==
  ASSUME \A g1, g2 \in Handlers : g1 = g2
  PROVE  Spec => []OnePayoutPerPayment
<1>1. IInv /\ IInv' /\ PayoutBudget /\ [Next]_vars => PayoutBudget'
  <2> SUFFICES ASSUME IInv, IInv', PayoutBudget, [Next]_vars
               PROVE  PayoutBudget'
    OBVIOUS
  <2>1. CASE UNCHANGED vars
    BY <2>1 DEF vars, PayoutBudget, CaptureChance, ConfirmChance, MayConfirm,
                Capturable
  <2> QED
    BY <2>1, BudgetByTrip, BudgetByStart, BudgetByHandler DEF Next
<1>2. IInv /\ PayoutBudget => OnePayoutPerPayment
  <2> SUFFICES ASSUME IInv, PayoutBudget, NEW t \in Trips
               PROVE  payouts[t] <= 1 + faults + crashes
    BY DEF OnePayoutPerPayment
  <2>1. payouts[t] + CaptureChance(t) + ConfirmChance(t)
          <= 1 + faults + crashes
    BY DEF PayoutBudget
  <2>2. /\ CaptureChance(t) \in {0, 1} /\ ConfirmChance(t) \in {0, 1}
        /\ payouts[t] \in Nat /\ faults \in Nat /\ crashes \in Nat
    BY PaymentsAssumption DEF CaptureChance, ConfirmChance, IInv, TypeOK
  <2> QED
    BY <2>1, <2>2
<1> QED
  BY <1>1, <1>2, BudgetInit, Invariance, PTL DEF Spec
-----------------------------------------------------------------------------
(* Payments implements Settlement.                                         *)

(* What a step does to the trips that are due and to those on the books:   *)
(* it may add one trip to one of the two sets.                             *)
OneMore(S, T) == \E t \in Trips : T = S \cup {t}

PromiseFacts == /\ Due' = Due \/ OneMore(Due, Due')
                /\ Captured' = Captured \/ OneMore(Captured, Captured')
                /\ Due' = Due \/ Captured' = Captured

(* A step that concerns one trip, takes nothing back, and brings at most   *)
(* one of the two about.                                                   *)
LEMMA StepOfOne ==
  ASSUME NEW u \in Trips,
         \A t \in Trips \ {u} : /\ IsDue(t)' <=> IsDue(t)
                                /\ Posted(t, "captured")' <=> Posted(t, "captured"),
         IsDue(u) => IsDue(u)',
         Posted(u, "captured") => Posted(u, "captured")',
         \/ IsDue(u)' <=> IsDue(u)
         \/ Posted(u, "captured")' <=> Posted(u, "captured")
  PROVE  PromiseFacts
<1>1. Due' = Due \/ (IsDue(u)' /\ ~IsDue(u) /\ Due' = Due \cup {u})
  BY DEF Due
<1>2. \/ Captured' = Captured
      \/ /\ Posted(u, "captured")' /\ ~Posted(u, "captured")
         /\ Captured' = Captured \cup {u}
  BY DEF Captured
<1> QED
  BY <1>1, <1>2 DEF PromiseFacts, OneMore

LEMMA StepOfNone ==
  ASSUME \A t \in Trips : /\ IsDue(t)' <=> IsDue(t)
                          /\ Posted(t, "captured")' <=> Posted(t, "captured")
  PROVE  PromiseFacts
BY DEF PromiseFacts, Due, Captured

(* capturePaymentForTrip, called for a completed trip.                     *)
LEMMA CaptureEnters ==
  ASSUME IInv, NEW u \in Trips, TripCompleted(u), Capture(u),
         UNCHANGED charges, \A t \in Trips : TripCompleted(t)' <=> TripCompleted(t)
  PROVE  PromiseFacts
<1>1. /\ book.balance \in [Holders -> Int]
      /\ payouts \in [Trips -> Nat]
      /\ payment \in [Trips -> Rows]
  BY DEF IInv, TypeOK, Rows
<1>2. \A t \in Trips :
        /\ payment'[t].status = IF t = u /\ Capturable(u)
                                THEN "CAPTURED" ELSE payment[t].status
        /\ payment'[t].provider = payment[t].provider
  BY <1>1, CaptureEffect
<1>3. \A t \in Trips :
        Posted(t, "captured")' <=>
          Posted(t, "captured") \/ (t = u /\ Capturable(u))
  BY <1>1, CaptureEffect DEF Posted, CaptureRefs
<1>4. Capturable(u) => payment[u].status # "NONE"
  BY DEF Capturable
<1>5. \A t \in Trips : IsDue(t)' <=> IsDue(t)
  BY <1>2, <1>4 DEF IsDue
<1> QED
  BY <1>3, <1>5, StepOfOne

LEMMA PromiseByTrip ==
  ASSUME IInv, NEW u \in Trips, TripStep(u)
  PROVE  PromiseFacts
<1> USE DEF payVars, handlerVars
<1>1. /\ book.balance \in [Holders -> Int]
      /\ payment \in [Trips -> Rows]
      /\ charges \in [Trips -> SUBSET ChargeEvents]
      /\ tripPc \in [Trips -> TripPcs]
  BY DEF IInv, TypeOK, Rows
<1>2. ASSUME NEW p \in Providers, InitiatePayment(u, p)
      PROVE  PromiseFacts
  <2>1. /\ payment' = [payment EXCEPT ![u].status = "PENDING",
                                      ![u].provider = p]
        /\ payment[u].status = "NONE"
    BY <1>2 DEF InitiatePayment
  <2>2. \A t \in Trips : Posted(t, "captured")' <=> Posted(t, "captured")
    BY <1>1, <1>2, ClearingKeepsCaptures DEF InitiatePayment, CaptureRefs
  <2>3. \A t \in Trips \ {u} : payment'[t] = payment[t]
    BY <1>1, <2>1 DEF Rows
  <2>4. \A t \in Trips \ {u} : IsDue(t)' <=> IsDue(t)
    BY <1>2, <2>3 DEF InitiatePayment, IsDue, TripCompleted
  <2>5. ~IsDue(u)
    BY <2>1 DEF IsDue
  <2> QED
    BY <2>2, <2>4, <2>5, StepOfOne
<1>3. CASE Authorize(u)
  <2>1. \A t \in Trips : Posted(t, "captured")' <=> Posted(t, "captured")
    BY <1>1, <1>3, ClearingKeepsCaptures DEF Authorize, CaptureRefs, Posted
  <2>2. \/ payment' = payment
        \/ /\ payment' = [payment EXCEPT ![u].status = "AUTHORIZED"]
           /\ payment[u].status = "PENDING"
    BY <1>3 DEF Authorize
  <2>3. \A t \in Trips :
          /\ payment'[t].provider = payment[t].provider
          /\ payment'[t].status = "NONE" <=> payment[t].status = "NONE"
    BY ONLY <1>1, <2>2, u \in Trips DEF Rows
  <2>4. \A t \in Trips : TripCompleted(t)' <=> TripCompleted(t)
    BY <1>1, <1>3 DEF Authorize, TripCompleted
  <2>5. \A t \in Trips : IsDue(t)' <=> IsDue(t)
    BY <1>3, <2>3, <2>4 DEF Authorize, IsDue
  <2> QED
    BY <2>1, <2>5, StepOfNone
<1>4. CASE CaptureOnComplete(u)
  <2>1. TripCompleted(u) /\ Capture(u) /\ UNCHANGED charges
    BY <1>4 DEF CaptureOnComplete, TripCompleted
  <2>2. \A t \in Trips : TripCompleted(t)' <=> TripCompleted(t)
    BY <1>1, <1>4 DEF CaptureOnComplete, TripCompleted
  <2> QED
    BY <2>1, <2>2, CaptureEnters
<1>5. CASE \/ DriverAccept(u) \/ AcceptDispatch(u) \/ CompleteTrip(u)
           \/ RequestCrash(u)
  <2>1. UNCHANGED <<payment, book, charges>>
    BY <1>5 DEF DriverAccept, AcceptDispatch, CompleteTrip, RequestCrash
  <2>2. /\ \A t \in Trips \ {u} : tripPc'[t] = tripPc[t]
        /\ TripCompleted(u) => TripCompleted(u)'
    BY <1>1, <1>5 DEF DriverAccept, AcceptDispatch, CompleteTrip,
                      RequestCrash, TripCompleted
  <2>3. /\ \A t \in Trips \ {u} : IsDue(t)' <=> IsDue(t)
        /\ IsDue(u) => IsDue(u)'
        /\ \A t \in Trips : Posted(t, "captured")' <=> Posted(t, "captured")
    BY <2>1, <2>2 DEF IsDue, TripCompleted, Posted
  <2> QED
    BY <2>3, StepOfOne
<1>6. ASSUME NEW k \in Outcomes, ChargeAttempt(u, k)
      PROVE  PromiseFacts
  <2>1. UNCHANGED <<payment, book, tripPc>>
    BY <1>6 DEF ChargeAttempt
  <2>2. /\ \A t \in Trips \ {u} : charges'[t] = charges[t]
        /\ charges[u] \subseteq charges'[u]
    BY <1>1, <1>6 DEF ChargeAttempt
  <2>3. /\ \A t \in Trips \ {u} : IsDue(t)' <=> IsDue(t)
        /\ IsDue(u) => IsDue(u)'
        /\ \A t \in Trips : Posted(t, "captured")' <=> Posted(t, "captured")
    BY <2>1, <2>2 DEF IsDue, TripCompleted, Posted
  <2> QED
    BY <2>3, StepOfOne
<1> QED
  BY <1>2, <1>3, <1>4, <1>5, <1>6 DEF TripStep

LEMMA PromiseByHandler ==
  ASSUME IInv, NEW h \in Handlers, HandlerStep(h)
  PROVE  PromiseFacts
<1> USE DEF payVars
<1>1. /\ payment \in [Trips -> Rows]
      /\ UNCHANGED <<charges, tripPc>>
  BY StepOfHandler DEF IInv, TypeOK, Rows
<1>2. /\ job[h].trip \in Trips
      /\ hpc[h] = "write" => job[h].seen \in {"PENDING", "AUTHORIZED"}
      /\ hpc[h] = "capture" => TripCompleted(job[h].trip)
  BY StepMovesHandler DEF IInv, HandlersKnow, TypeOK, Jobs
<1>3. CASE CaptureOnCharge(h)
  BY <1>1, <1>2, <1>3, CaptureEnters DEF CaptureOnCharge, TripCompleted
<1>4. CASE WriteConfirmation(h) \/ WriteFailure(h)
  <2> PICK t \in Trips : t = job[h].trip
    BY <1>2
  <2>1. \/ payment' = [payment EXCEPT ![t].confirmed = TRUE,
                                      ![t].status = "AUTHORIZED"]
        \/ payment' = [payment EXCEPT ![t].status = "FAILED"]
    BY <1>2, <1>4 DEF WriteConfirmation, WriteFailure
  <2>2. /\ \A u \in Trips : payment'[u].provider = payment[u].provider
        /\ \A u \in Trips \ {t} : payment'[u].status = payment[u].status
        /\ payment'[t].status # "NONE"
    BY ONLY <1>1, <2>1, t \in Trips DEF Rows
  <2>3. /\ \A u \in Trips \ {t} : IsDue(u)' <=> IsDue(u)
        /\ IsDue(t) => IsDue(t)'
    BY <1>1, <2>2 DEF IsDue, TripCompleted
  <2>4. book' = book
    BY <1>4 DEF WriteConfirmation, WriteFailure
  <2> QED
    BY <2>3, <2>4, StepOfOne DEF Posted
<1>5. CASE UNCHANGED <<payment, book>>
  BY <1>1, <1>5, StepOfNone DEF IsDue, TripCompleted, Posted
<1> QED
  BY <1>3, <1>4, <1>5
     DEF HandlerStep, WriteDeadLetter, Begin, ReadPayment, ReadTrip,
         MarkProcessed, HandlerThrows, MarkFailed, HandlerCrash

LEMMA PromiseByNext ==
  ASSUME IInv, [Next]_vars
  PROVE  PromiseFacts
<1>1. ASSUME NEW h \in Handlers, NEW t \in Trips, NEW k \in ChargeEvents,
             StartStep(h, t, k)
      PROVE  PromiseFacts
  <2>1. UNCHANGED <<payment, book, tripPc, charges>>
    BY <1>1, StepOfStart
  <2> QED
    BY <2>1, StepOfNone DEF IsDue, TripCompleted, Posted
<1>2. CASE UNCHANGED vars
  BY <1>2, StepOfNone DEF vars, IsDue, TripCompleted, Posted
<1> QED
  BY <1>1, <1>2, PromiseByTrip, PromiseByHandler DEF Next

(* What is on the books was due, and is the commission and the earnings.   *)
Brought == book.balance["commission_revenue"] + book.balance["driver_payable"]

Reckoned ==
  /\ Captured \subseteq Due
  /\ Brought = SumFunctionOnSet(Gross, Captured)

LEMMA PromiseState ==
  ASSUME IInv, Books
  PROVE  Reckoned
<1>1. \A t \in Trips : Posted(t, "captured") => IsDue(t)
  BY DEF IInv, CaptureIsEarned, WorkIsAnnounced, IsDue
<1>2. Brought = SumFunctionOnSet(Gross, Captured)
  <2>1. SumFunctionOnSet(Gross, Captured) =
          book.balance["commission_revenue"] + book.balance["driver_payable"]
    BY DEF Books, BooksAgree, Captured
  <2> QED
    BY <2>1 DEF Brought
<1> QED
  BY <1>1, <1>2 DEF Reckoned, Captured, Due

LEMMA PromiseStep ==
  ASSUME IInv, Reckoned, Reckoned', [Next]_vars
  PROVE  [Promise!Next]_<<Due, Captured, Brought>>
<1>1. PromiseFacts
  BY PromiseByNext
<1>2. /\ Captured \subseteq Due /\ Captured' \subseteq Due'
      /\ Brought = SumFunctionOnSet(Gross, Captured)
      /\ Brought' = SumFunctionOnSet(Gross, Captured')
  BY DEF Reckoned
<1>3. CASE Due' = Due /\ Captured' = Captured
  BY <1>2, <1>3
<1>4. ASSUME NEW t \in Trips, t \notin Due, Due' = Due \cup {t},
             Captured' = Captured
      PROVE  Promise!Next
  BY <1>2, <1>4 DEF Promise!Next, Promise!Settle, Brought
<1>5. ASSUME NEW t \in Trips, t \notin Captured, Due' = Due,
             Captured' = Captured \cup {t}
      PROVE  Promise!Next
  <2>1. IsFiniteSet(Captured) /\ (\A u \in Captured \cup {t} : Gross[u] \in Int)
    BY FS_Subset, PaymentsAssumption, SharesAreInt DEF Captured
  <2>2. /\ SumFunctionOnSet(Gross, Captured \cup {t})
             = Gross[t] + SumFunctionOnSet(Gross, Captured)
        /\ SumFunctionOnSet(Gross, Captured) \in Int
    BY <1>5, <2>1, SumGrows, SumIsInt
  <2>3. Brought' = Brought + Gross[t]
    BY <1>2, <1>5, <2>1, <2>2
  <2> QED
    BY <1>2, <1>5, <2>3 DEF Promise!Next, Promise!Enter, Brought
<1>6. CASE Due' = Due /\ OneMore(Captured, Captured')
  BY <1>3, <1>5, <1>6 DEF OneMore
<1>7. CASE Captured' = Captured /\ OneMore(Due, Due')
  BY <1>3, <1>4, <1>7 DEF OneMore
<1> QED
  BY <1>1, <1>3, <1>6, <1>7 DEF PromiseFacts

LEMMA PromiseInit ==
  ASSUME Init PROVE Promise!Init
<1>1. Due \subseteq Trips
  BY DEF Due
<1>2. Captured = {}
  BY DEF Init, EmptyBook, Captured, Posted
<1>3. Brought = 0
  BY DEF Init, EmptyBook, Holders, LedgerAccounts, Brought
<1> QED
  BY <1>1, <1>2, <1>3 DEF Promise!Init, Brought

(* The capture of payments implements Settlement: a trip's gross amount    *)
(* goes to the commission and to what is owed to drivers once, in one step *)
(* and for good, after the trip was completed and, with Paystack, charged. *)
THEOREM CapturesKeepPromise == Spec => CapturePromise
<1>1. Init => Promise!Init
  BY PromiseInit
<1>2. IInv /\ Books => Reckoned
  BY PromiseState
<1>3. IInv /\ Reckoned /\ Reckoned' /\ [Next]_vars
        => [Promise!Next]_<<Due, Captured, book.balance["commission_revenue"]
                                           + book.balance["driver_payable"]>>
  BY PromiseStep DEF Brought
<1> QED
  BY <1>1, <1>2, <1>3, BooksInvariance, PTL DEF Spec, CapturePromise, Promise!Spec
=============================================================================
