----------------------------- MODULE TripsProofs -----------------------------
(***************************************************************************)
(* Proofs about Trips, for any number of rides, riders, drivers, quotes,   *)
(* concurrent requests and dispatches, and any number of upsets; and, from *)
(* "Shipments, which travel" on, about Shipments, for any number of        *)
(* requests, attempts at a code, upsets and overlaps.                      *)
(***************************************************************************)
EXTENDS Trips, Shipments, FiniteSetTheorems, TLAPS

(* How a request begins, goes on and ends.                                 *)
LEMMA BeginType ==
  ASSUME RequestsOK, NEW r \in Requests, NEW pc \in RequestPcs \ {"idle"},
         NEW what \in Reqs, Begin(r, pc, what)
  PROVE  RequestsOK'
BY TripsAssumption DEF Begin, RequestsOK

LEMMA GotoType ==
  ASSUME RequestsOK, NEW r \in Requests, rpc[r] # "idle",
         NEW pc \in RequestPcs \ {"idle"}, Goto(r, pc)
  PROVE  RequestsOK'
BY DEF Goto, RequestsOK

LEMMA EndType ==
  ASSUME RequestsOK, NEW r \in Requests, End(r)
  PROVE  RequestsOK'
BY DEF End, RequestsOK, RequestPcs

LEMMA RequestIsReq ==
  ASSUME NEW t \in TripIds PROVE Request(t) \in Reqs
BY DEF Request, Reqs, TripStatus

(* A request at work has something to work on.                             *)
LEMMA AtWork ==
  ASSUME RequestsOK, NEW r \in Requests, rpc[r] # "idle"
  PROVE  /\ req[r] \in Reqs
         /\ req[r].trip \in TripIds
         /\ req[r].next \in TripStatus
         /\ req[r].attempts \in Nat
<1>1. req[r] \in Reqs
  BY DEF RequestsOK
<1> QED
  BY <1>1 DEF Reqs

(* A dispatch that goes on under the same trip, or stops.                  *)
LEMMA ProceedType ==
  ASSUME DispatchesOK, NEW x \in Dispatchers, dpc[x] \notin {"idle", "wait"},
         NEW pc \in DispatchPcs \ {"idle"}, Proceed(x, pc),
         UNCHANGED <<lock, session>>
  PROVE  DispatchesOK'
BY DEF Proceed, DispatchesOK

LEMMA StopType ==
  ASSUME DispatchesOK, NEW x \in Dispatchers, dpc[x] # "wait", Stop(x),
         lock' \in [TripIds -> Dispatchers \cup {None}], UNCHANGED session
  PROVE  DispatchesOK'
BY TripsAssumption DEF Stop, DispatchesOK, DispatchPcs

LEMMA TypeInit ==
  ASSUME Init PROVE TypeOK
<1> USE DEF Init
<1>1. RowsOK
  BY DEF RowsOK, Rows, TripStatus
<1>2. RequestsOK
  BY DEF RequestsOK, RequestPcs
<1>3. DispatchesOK
  BY DEF DispatchesOK, DispatchPcs
<1> QED
  BY <1>1, <1>2, <1>3 DEF TypeOK
-----------------------------------------------------------------------------
(* Type correctness, one lemma per kind of step.                           *)

(* An update of one row of the trip table.                                 *)
LEMMA RowUpdate ==
  ASSUME RowsOK, NEW t \in TripIds, NEW row \in Rows,
         trip' = [trip EXCEPT ![t] = row], UNCHANGED <<quote, duty, verified>>
  PROVE  RowsOK'
BY DEF RowsOK

(* Several columns of a row are written at once.                           *)
LEMMA DriverAssigned ==
  ASSUME trip \in [TripIds -> Rows], NEW t \in TripIds,
         NEW d \in Drivers \cup {None}, NEW s \in TripStatus,
         trip' = [trip EXCEPT ![t].driver = d, ![t].status = s, ![t].pin = TRUE]
  PROVE  /\ trip' \in [TripIds -> Rows]
         /\ trip'[t].driver = d /\ trip'[t].status = s
         /\ \A u \in TripIds \ {t} : trip'[u] = trip[u]
<1> DEFINE row == [trip[t] EXCEPT !.driver = d, !.status = s, !.pin = TRUE]
<1>1. row \in Rows /\ row.driver = d /\ row.status = s
  BY DEF Rows
<1>2. trip' = [trip EXCEPT ![t] = row]
  OBVIOUS
<1> HIDE DEF row
<1>3. trip' \in [TripIds -> Rows]
  BY ONLY <1>1, <1>2, trip \in [TripIds -> Rows], t \in TripIds
<1>4. trip'[t] = row /\ \A u \in TripIds \ {t} : trip'[u] = trip[u]
  BY ONLY <1>2, trip \in [TripIds -> Rows], t \in TripIds
<1> QED
  BY <1>1, <1>3, <1>4

LEMMA RiderEntered ==
  ASSUME trip \in [TripIds -> Rows], NEW t \in TripIds,
         NEW p \in Riders \cup {None}, NEW s \in TripStatus,
         trip' = [trip EXCEPT ![t].status = s, ![t].rider = p]
  PROVE  trip' \in [TripIds -> Rows]
<1> DEFINE row == [trip[t] EXCEPT !.status = s, !.rider = p]
<1>1. row \in Rows
  BY DEF Rows
<1>2. trip' = [trip EXCEPT ![t] = row]
  OBVIOUS
<1> HIDE DEF row
<1> QED
  BY ONLY <1>1, <1>2, trip \in [TripIds -> Rows], t \in TripIds

LEMMA DriverReplaced ==
  ASSUME trip \in [TripIds -> Rows], NEW t \in TripIds,
         NEW d \in Drivers \cup {None}, NEW s \in TripStatus,
         trip' = [trip EXCEPT ![t].driver = d, ![t].status = s]
  PROVE  trip' \in [TripIds -> Rows]
<1> DEFINE row == [trip[t] EXCEPT !.driver = d, !.status = s]
<1>1. row \in Rows
  BY DEF Rows
<1>2. trip' = [trip EXCEPT ![t] = row]
  OBVIOUS
<1> HIDE DEF row
<1> QED
  BY ONLY <1>1, <1>2, trip \in [TripIds -> Rows], t \in TripIds

(* What is written about the PIN changes nothing else of the ride.         *)
SameRide ==
  \A u \in TripIds : /\ trip'[u].status = trip[u].status
                     /\ trip'[u].driver = trip[u].driver
                     /\ trip'[u].rider = trip[u].rider

LEMMA PinExpired ==
  ASSUME trip \in [TripIds -> Rows], NEW t \in TripIds,
         trip' = [trip EXCEPT ![t].pin = FALSE, ![t].attempts = 0]
  PROVE  /\ trip' \in [TripIds -> Rows]
         /\ SameRide
<1> DEFINE row == [trip[t] EXCEPT !.pin = FALSE, !.attempts = 0]
<1>1. /\ row \in Rows
      /\ row.status = trip[t].status /\ row.driver = trip[t].driver
      /\ row.rider = trip[t].rider
  BY DEF Rows
<1>2. trip' = [trip EXCEPT ![t] = row]
  OBVIOUS
<1> HIDE DEF row
<1>3. trip' \in [TripIds -> Rows]
  BY ONLY <1>1, <1>2, trip \in [TripIds -> Rows], t \in TripIds
<1>4. trip'[t] = row /\ \A u \in TripIds \ {t} : trip'[u] = trip[u]
  BY ONLY <1>2, trip \in [TripIds -> Rows], t \in TripIds
<1> QED
  BY <1>1, <1>3, <1>4 DEF SameRide

LEMMA WrongPinCounted ==
  ASSUME trip \in [TripIds -> Rows], NEW t \in TripIds,
         NEW n \in Nat, NEW b \in BOOLEAN,
         trip' = [trip EXCEPT ![t].attempts = n, ![t].flagged = b]
  PROVE  /\ trip' \in [TripIds -> Rows]
         /\ SameRide
<1> DEFINE row == [trip[t] EXCEPT !.attempts = n, !.flagged = b]
<1>1. /\ row \in Rows
      /\ row.status = trip[t].status /\ row.driver = trip[t].driver
      /\ row.rider = trip[t].rider
  BY DEF Rows
<1>2. trip' = [trip EXCEPT ![t] = row]
  OBVIOUS
<1> HIDE DEF row
<1>3. trip' \in [TripIds -> Rows]
  BY ONLY <1>1, <1>2, trip \in [TripIds -> Rows], t \in TripIds
<1>4. trip'[t] = row /\ \A u \in TripIds \ {t} : trip'[u] = trip[u]
  BY ONLY <1>2, trip \in [TripIds -> Rows], t \in TripIds
<1> QED
  BY <1>1, <1>3, <1>4 DEF SameRide

(* What a step leaves alone stays well-typed.                              *)
LEMMA OthersKept ==
  ASSUME TypeOK
  PROVE  /\ UNCHANGED rows => RowsOK'
         /\ UNCHANGED requestVars => RequestsOK'
         /\ UNCHANGED dispatchVars => DispatchesOK'
         /\ UNCHANGED bounds =>
              overrides' \in Nat /\ lapses' \in Nat /\ crashes' \in Nat
<1>1. ASSUME UNCHANGED rows PROVE RowsOK'
  BY <1>1 DEF TypeOK, RowsOK, rows
<1>2. ASSUME UNCHANGED requestVars PROVE RequestsOK'
  BY <1>2 DEF TypeOK, RequestsOK, requestVars
<1>3. ASSUME UNCHANGED dispatchVars PROVE DispatchesOK'
  BY <1>3 DEF TypeOK, DispatchesOK, dispatchVars
<1>4. ASSUME UNCHANGED bounds
      PROVE  overrides' \in Nat /\ lapses' \in Nat /\ crashes' \in Nat
  BY <1>4 DEF TypeOK, bounds
<1> QED
  BY <1>1, <1>2, <1>3, <1>4

LEMMA TypeStartRequest ==
  ASSUME TypeOK, NEW r \in Requests, StartRequest(r)
  PROVE  TypeOK'
<1>0. RequestsOK
  BY DEF TypeOK
<1>1. PICK t \in TripIds :
        \/ \E p \in Riders, q \in Quotes : Book(r, p, t, q)
        \/ \E next \in TripStatus : Transition(r, t, next)
        \/ \E d \in Drivers : DriverAccept(r, d, t) \/ AnswerDispatch(r, d, t)
  BY DEF StartRequest
<1>2. UNCHANGED <<rows, dispatchVars, bounds>>
  BY <1>1 DEF Book, Transition, DriverAccept, AnswerDispatch
<1>3. RequestsOK'
  <2>1. Request(t) \in Reqs
    BY RequestIsReq
  <2>2. ASSUME NEW p \in Riders, NEW q \in Quotes, Book(r, p, t, q)
        PROVE  RequestsOK'
    <3>1. [Request(t) EXCEPT !.rider = p, !.quote = q] \in Reqs
      BY <2>1 DEF Reqs
    <3> QED
      BY <1>0, <2>2, <3>1, BeginType DEF Book, RequestPcs
  <2>3. ASSUME NEW next \in TripStatus, Transition(r, t, next)
        PROVE  RequestsOK'
    <3>1. [Request(t) EXCEPT !.next = next] \in Reqs
      BY <2>1 DEF Reqs
    <3> QED
      BY <1>0, <2>3, <3>1, BeginType DEF Transition, RequestPcs
  <2>4. ASSUME NEW d \in Drivers,
               DriverAccept(r, d, t) \/ AnswerDispatch(r, d, t)
        PROVE  RequestsOK'
    <3>1. [Request(t) EXCEPT !.driver = d] \in Reqs
      BY <2>1 DEF Reqs
    <3> QED
      BY <1>0, <2>4, <3>1, BeginType DEF DriverAccept, AnswerDispatch, RequestPcs
  <2> QED
    BY <1>1, <2>2, <2>3, <2>4
<1> QED
  BY <1>2, <1>3, OthersKept DEF TypeOK

LEMMA TypeRequestStep ==
  ASSUME TypeOK, NEW r \in Requests, RequestStep(r)
  PROVE  TypeOK'
<1> DEFINE t == req[r].trip
<1>1. RowsOK /\ RequestsOK /\ DispatchesOK
  BY DEF TypeOK
<1>2. rpc[r] # "idle"
  BY DEF RequestStep, ReadQuote, ExpireQuote, CreateTrip, CheckPin, ExpirePin,
         CountWrongPin, ClearPin, WriteTransition, AcceptRead, AcceptWrite,
         TakeTrip, RefuseTrip, TellDispatch
<1>3. /\ req[r] \in Reqs
      /\ t \in TripIds
      /\ req[r].next \in TripStatus
      /\ req[r].attempts \in Nat
  BY <1>1, <1>2, AtWork
<1>4. trip[t] \in Rows /\ PinCleared(trip[t]) \in Rows
  <2>1. trip[t] \in Rows
    BY <1>1, <1>3 DEF RowsOK
  <2> QED
    BY <2>1 DEF Rows, PinCleared
<1>5. trip \in [TripIds -> Rows]
  BY <1>1 DEF RowsOK
<1> HIDE DEF t
<1>6. ASSUME NEW s \in TripStatus, trip' = [trip EXCEPT ![t].status = s]
      PROVE  trip' \in [TripIds -> Rows]
  BY ONLY <1>3, <1>5, <1>6, s \in TripStatus DEF Rows
<1>7. ASSUME trip' \in [TripIds -> Rows], UNCHANGED <<quote, duty, verified>>
      PROVE  RowsOK'
  BY <1>1, <1>7 DEF RowsOK
<1>8. ASSUME RowsOK', RequestsOK', UNCHANGED <<dispatchVars, bounds>>
      PROVE  TypeOK'
  BY <1>8, OthersKept DEF TypeOK
<1>9. CASE ReadQuote(r)
  <2>1. UNCHANGED <<rows, dispatchVars, bounds>>
    BY <1>9 DEF ReadQuote
  <2>2. \/ \E pc \in {"book", "expireQuote"} : Goto(r, pc)
        \/ End(r)
    BY <1>9 DEF ReadQuote
  <2>3. RequestsOK'
    BY <1>1, <1>2, <2>2, GotoType, EndType DEF RequestPcs
  <2> QED
    BY <1>8, <2>1, <2>3, OthersKept
<1>10. CASE ExpireQuote(r)
  <2>1. RowsOK'
    BY <1>1, <1>10 DEF ExpireQuote, RowsOK
  <2> QED
    BY <1>1, <1>8, <1>10, <2>1, EndType DEF ExpireQuote
<1>11. CASE CreateTrip(r)
  <2>1. /\ trip' = [trip EXCEPT ![t].status = "REQUESTED",
                               ![t].rider = req[r].rider]
        /\ req[r].rider \in Riders \cup {None}
        /\ "REQUESTED" \in TripStatus
    BY <1>3, <1>11 DEF CreateTrip, t, Reqs, TripStatus
  <2>2. trip' \in [TripIds -> Rows]
    BY <1>3, <1>5, <2>1, RiderEntered
  <2>3. RowsOK'
    BY <1>1, <1>11, <2>2 DEF CreateTrip, RowsOK
  <2> QED
    BY <1>1, <1>8, <1>11, <2>3, EndType DEF CreateTrip
<1>12. CASE CheckPin(r)
  <2>1. RowsOK'
    BY <1>1, <1>3, <1>12 DEF CheckPin, RowsOK
  <2>2. \/ End(r)
        \/ \E pc \in {"expirePin", "rightPin"} : Goto(r, pc)
        \/ /\ rpc' = [rpc EXCEPT ![r] = "wrongPin"]
           /\ req' = [req EXCEPT ![r].attempts = trip[t].attempts]
    BY <1>12 DEF CheckPin, t
  <2>3. ASSUME rpc' = [rpc EXCEPT ![r] = "wrongPin"],
               req' = [req EXCEPT ![r].attempts = trip[t].attempts]
        PROVE  RequestsOK'
    <3>1. [req[r] EXCEPT !.attempts = trip[t].attempts] \in Reqs
      BY <1>3, <1>4 DEF Reqs, Rows
    <3> QED
      BY <1>1, <2>3, <3>1, TripsAssumption DEF RequestsOK, RequestPcs
  <2>4. RequestsOK'
    BY <1>1, <1>2, <2>2, <2>3, GotoType, EndType DEF RequestPcs
  <2> QED
    BY <1>8, <1>12, <2>1, <2>4 DEF CheckPin
<1>13. CASE ExpirePin(r)
  <2>1. trip' = [trip EXCEPT ![t].pin = FALSE, ![t].attempts = 0]
    BY <1>13 DEF ExpirePin, t
  <2>2. trip' \in [TripIds -> Rows]
    BY ONLY <1>3, <1>5, <2>1, PinExpired
  <2> QED
    BY <1>1, <1>7, <1>8, <1>13, <2>2, EndType DEF ExpirePin
<1>14. CASE CountWrongPin(r)
  <2>1. PICK n \in Nat, b \in BOOLEAN :
          trip' = [trip EXCEPT ![t].attempts = n, ![t].flagged = b]
    <3>1. /\ req[r].attempts + 1 \in Nat
          /\ (trip[t].flagged \/ req[r].attempts + 1 >= MaxFailedPinAttempts)
               \in BOOLEAN
      BY <1>3
    <3>2. trip' = [trip EXCEPT ![t].attempts = req[r].attempts + 1,
                             ![t].flagged = trip[t].flagged \/
                               req[r].attempts + 1 >= MaxFailedPinAttempts]
      BY <1>14 DEF CountWrongPin, t
    <3> QED
      BY <3>1, <3>2
  <2>2. trip' \in [TripIds -> Rows]
    BY ONLY <1>3, <1>5, <2>1, n \in Nat, b \in BOOLEAN, WrongPinCounted
  <2> QED
    BY <1>1, <1>7, <1>8, <1>14, <2>2, EndType DEF CountWrongPin
<1>15. CASE ClearPin(r)
  <2>1. RowsOK'
    BY <1>1, <1>3, <1>4, <1>15, RowUpdate DEF ClearPin, t
  <2>2. RequestsOK'
    BY <1>1, <1>2, <1>15, GotoType DEF ClearPin, RequestPcs
  <2> QED
    BY <1>8, <1>15, <2>1, <2>2 DEF ClearPin
<1>16. CASE WriteTransition(r)
  <2>1. trip' \in [TripIds -> Rows]
    BY <1>3, <1>6, <1>16 DEF WriteTransition, t
  <2> QED
    BY <1>1, <1>7, <1>8, <1>16, <2>1, EndType DEF WriteTransition
<1>17. CASE AcceptRead(r)
  <2>1. UNCHANGED <<rows, dispatchVars, bounds>>
    BY <1>17 DEF AcceptRead
  <2>2. RequestsOK'
    BY <1>1, <1>2, <1>17, GotoType, EndType DEF AcceptRead, RequestPcs
  <2> QED
    BY <1>8, <2>1, <2>2, OthersKept
<1>18. CASE AcceptWrite(r)
  <2>1. /\ trip' = [trip EXCEPT ![t].driver = req[r].driver,
                               ![t].status = "DRIVER_ARRIVING",
                               ![t].pin = TRUE]
        /\ req[r].driver \in Drivers \cup {None}
        /\ "DRIVER_ARRIVING" \in TripStatus
    BY <1>3, <1>18 DEF AcceptWrite, t, Reqs, TripStatus
  <2>2. trip' \in [TripIds -> Rows]
    BY <1>3, <1>5, <2>1, DriverAssigned
  <2>3. RowsOK'
    BY <1>1, <1>18, <2>2 DEF AcceptWrite, RowsOK
  <2> QED
    BY <1>1, <1>8, <1>18, <2>3, EndType DEF AcceptWrite
<1>19. CASE TakeTrip(r)
  <2>1. trip' \in [TripIds -> Rows]
    BY <1>6, <1>19 DEF TakeTrip, t, TripStatus
  <2>2. RequestsOK'
    BY <1>1, <1>2, <1>19, GotoType DEF TakeTrip, RequestPcs
  <2> QED
    BY <1>7, <1>8, <1>19, <2>1, <2>2 DEF TakeTrip
<1>20. CASE RefuseTrip(r)
  <2>1. PinCleared([trip[t] EXCEPT !.status = "REQUESTED"]) \in Rows
    BY <1>4 DEF PinCleared, Rows, TripStatus
  <2>2. RowsOK'
    BY <1>1, <1>3, <1>20, <2>1, RowUpdate DEF RefuseTrip, t
  <2>3. RequestsOK'
    BY <1>1, <1>2, <1>20, GotoType DEF RefuseTrip, RequestPcs
  <2> QED
    BY <1>8, <1>20, <2>2, <2>3 DEF RefuseTrip
<1>21. CASE TellDispatch(r)
  <2>1. RowsOK' /\ RequestsOK'
    BY <1>1, <1>21, EndType, OthersKept DEF TellDispatch
  <2>2. DispatchesOK'
    <3>1. CASE UNCHANGED dispatchVars
      BY <3>1, OthersKept
    <3>2. ASSUME NEW x \in Dispatchers, session[t] = x,
                 NEW pc \in {"release", "expire", "ask"},
                 session' = [session EXCEPT ![t] = None],
                 Proceed(x, pc), UNCHANGED lock
          PROVE  DispatchesOK'
      BY <1>1, <1>3, <3>2, TripsAssumption
         DEF DispatchesOK, Proceed, DispatchPcs
    <3>3. UNCHANGED lock /\ rpc[r] \in {"tellTaken", "tellRefused"}
      BY <1>21 DEF TellDispatch
    <3>4. \/ UNCHANGED <<session, dpc, run>>
          \/ /\ session[t] # None
             /\ session' = [session EXCEPT ![t] = None]
             /\ \E pc \in {"release", "expire", "ask"} :
                  Proceed(session[t], pc)
      BY <1>21 DEF TellDispatch, t, Onward
    <3>5. session[t] \in Dispatchers \cup {None}
      BY <1>1, <1>3 DEF DispatchesOK
    <3> QED
      BY <3>1, <3>2, <3>3, <3>4, <3>5 DEF dispatchVars
  <2>3. overrides' \in Nat /\ lapses' \in Nat /\ crashes' \in Nat
    BY <1>21, OthersKept DEF TellDispatch
  <2> QED
    BY <2>1, <2>2, <2>3 DEF TypeOK
<1> QED
  BY <1>9, <1>10, <1>11, <1>12, <1>13, <1>14, <1>15, <1>16, <1>17, <1>18,
     <1>19, <1>20, <1>21 DEF RequestStep

LEMMA TypeDispatchStep ==
  ASSUME TypeOK, NEW x \in Dispatchers,
         \/ \E t \in TripIds : StartDispatch(x, t)
         \/ DispatchStep(x)
  PROVE  TypeOK'
<1> DEFINE t == run[x].trip
<1>1. RowsOK /\ RequestsOK /\ DispatchesOK
  BY DEF TypeOK
<1>2. trip \in [TripIds -> Rows]
  BY <1>1 DEF RowsOK
<1>3. ASSUME dpc[x] # "idle"
      PROVE  /\ run[x] \in Runs
             /\ t \in TripIds
             /\ run[x].todo \subseteq Drivers
  <2>1. run[x] \in Runs
    BY <1>1, <1>3 DEF DispatchesOK
  <2> QED
    BY <2>1 DEF Runs
<1> HIDE DEF t
<1>4. ASSUME RowsOK', DispatchesOK', UNCHANGED <<requestVars, bounds>>
      PROVE  TypeOK'
  BY <1>4, OthersKept DEF TypeOK
<1>5. ASSUME NEW u \in TripIds, StartDispatch(x, u) PROVE TypeOK'
  <2>1. [trip |-> u, todo |-> {}, asked |-> None] \in Runs
    BY DEF Runs
  <2>2. /\ dpc[x] = "idle"
        /\ lock' = [lock EXCEPT ![u] = x]
        /\ dpc' = [dpc EXCEPT ![x] = "check"]
        /\ UNCHANGED <<rows, requestVars, session, bounds>>
    BY <1>5 DEF StartDispatch, Acquire
  <2> DEFINE new == [trip |-> u, todo |-> {}, asked |-> None]
  <2>3. new \in Runs /\ new # None /\ run' = [run EXCEPT ![x] = new]
    BY <1>5, <2>1, TripsAssumption DEF StartDispatch
  <2> HIDE DEF new
  <2>4. lock' \in [TripIds -> Dispatchers \cup {None}]
    BY <1>1, <2>2 DEF DispatchesOK
  <2>5. DispatchesOK'
    <3>1. /\ dpc' \in [Dispatchers -> DispatchPcs]
          /\ run' \in [Dispatchers -> Runs \cup {None}]
          /\ \A y \in Dispatchers : dpc'[y] = "idle" <=> run'[y] = None
      BY <1>1, <2>2, <2>3 DEF DispatchesOK, DispatchPcs
    <3>2. \A v \in TripIds : session'[v] # None =>
            dpc'[session'[v]] = "wait" /\ run'[session'[v]].trip = v
      BY <1>1, <2>2, <2>3 DEF DispatchesOK
    <3> QED
      BY <1>1, <2>2, <2>4, <3>1, <3>2 DEF DispatchesOK
  <2> QED
    BY <1>4, <2>2, <2>5, OthersKept
<1>6. CASE CheckDispatch(x)
  <2>1. UNCHANGED <<rows, requestVars, lock, session, bounds>>
    BY <1>6 DEF CheckDispatch
  <2>2. ASSUME NEW near \in SUBSET Drivers,
               run' = [run EXCEPT ![x].todo = near],
               dpc' = [dpc EXCEPT ![x] = "ask"]
        PROVE  DispatchesOK'
    <3>1. dpc[x] = "check" /\ run[x] \in Runs
      BY <1>3, <1>6 DEF CheckDispatch
    <3>2. [run[x] EXCEPT !.todo = near] \in Runs
      BY <3>1 DEF Runs
    <3> QED
      BY <1>1, <2>1, <2>2, <3>1, <3>2, TripsAssumption
         DEF DispatchesOK, DispatchPcs
  <2>3. ASSUME Proceed(x, "release") PROVE DispatchesOK'
    BY <1>1, <1>6, <2>1, <2>3, ProceedType DEF CheckDispatch, DispatchPcs
  <2>4. \/ /\ \E near \in SUBSET {d \in Drivers : duty[d] = "AVAILABLE"} :
                run' = [run EXCEPT ![x].todo = near]
           /\ dpc' = [dpc EXCEPT ![x] = "ask"]
        \/ Proceed(x, "release")
    BY <1>6 DEF CheckDispatch
  <2>5. DispatchesOK'
    BY <2>2, <2>3, <2>4
  <2> QED
    BY <1>4, <2>1, <2>5, OthersKept
<1>7. CASE Ask(x)
  <2>1. PICK d \in run[x].todo :
          /\ trip' = [trip EXCEPT ![t].driver = d,
                                 ![t].status = "DRIVER_ASSIGNED",
                                 ![t].pin = TRUE]
          /\ run' = [run EXCEPT ![x] =
                       [run[x] EXCEPT !.todo = run[x].todo \ {d}, !.asked = d]]
    BY <1>7 DEF Ask, t
  <2>2. /\ dpc[x] = "ask" /\ dpc' = [dpc EXCEPT ![x] = "listen"]
        /\ UNCHANGED <<quote, duty, verified, requestVars, lock, session,
                      bounds>>
    BY <1>7 DEF Ask
  <2>3. /\ run[x] \in Runs /\ t \in TripIds /\ d \in Drivers
        /\ "DRIVER_ASSIGNED" \in TripStatus
    BY <1>3, <2>1, <2>2 DEF TripStatus
  <2>4. trip' \in [TripIds -> Rows]
    BY <1>2, <2>1, <2>3, DriverAssigned
  <2>5. RowsOK'
    BY <1>1, <2>2, <2>4 DEF RowsOK
  <2>6. DispatchesOK'
    <3> DEFINE next == [run[x] EXCEPT !.todo = run[x].todo \ {d}, !.asked = d]
    <3>1. next \in Runs
      BY <2>3 DEF Runs
    <3>2. run' = [run EXCEPT ![x] = next] /\ next # None
      BY <2>1, <3>1, TripsAssumption
    <3> HIDE DEF next
    <3> QED
      BY <1>1, <2>2, <3>1, <3>2 DEF DispatchesOK, DispatchPcs
  <2> QED
    BY <1>4, <2>2, <2>5, <2>6
<1>8. CASE Listen(x)
  <2>1. /\ dpc[x] = "listen"
        /\ UNCHANGED <<rows, requestVars, lock, bounds>>
        /\ \/ /\ session' = [session EXCEPT ![t] = x]
              /\ Proceed(x, "wait")
           \/ UNCHANGED session /\ Proceed(x, "release")
    BY <1>8 DEF Listen, t
  <2>2. CASE UNCHANGED session /\ Proceed(x, "release")
    <3>1. DispatchesOK'
      BY <1>1, <2>1, <2>2, ProceedType DEF DispatchPcs
    <3> QED
      BY <1>4, <2>1, <3>1, OthersKept
  <2>3. CASE session' = [session EXCEPT ![t] = x] /\ Proceed(x, "wait")
    <3>1. DispatchesOK'
      BY <1>1, <1>3, <2>1, <2>3 DEF DispatchesOK, DispatchPcs, Proceed, t
    <3> QED
      BY <1>4, <2>1, <3>1, OthersKept
  <2> QED
    BY <2>1, <2>2, <2>3
<1>9. CASE DecisionTimesOut(x)
  <2>1. PICK pc \in {"expire", "ask"} :
          /\ dpc[x] = "wait"
          /\ session' = [session EXCEPT ![t] = None]
          /\ Proceed(x, pc)
          /\ UNCHANGED <<rows, requestVars, lock, bounds>>
    BY <1>9 DEF DecisionTimesOut, Onward, t
  <2>2. DispatchesOK'
    BY <1>1, <1>3, <2>1 DEF DispatchesOK, DispatchPcs, Proceed, t
  <2> QED
    BY <1>4, <2>1, <2>2, OthersKept
<1>10. CASE ExpireTrip(x)
  <2>1. /\ dpc[x] = "expire"
        /\ trip' = [trip EXCEPT ![t] =
                      PinCleared([trip[t] EXCEPT !.status = "EXPIRED"])]
        /\ Proceed(x, "release")
        /\ UNCHANGED <<quote, duty, verified, requestVars, lock, session,
                      bounds>>
    BY <1>10 DEF ExpireTrip, t
  <2>2. trip[t] \in Rows /\ t \in TripIds
    BY <1>2, <1>3, <2>1
  <2>3. PinCleared([trip[t] EXCEPT !.status = "EXPIRED"]) \in Rows
    BY <2>2 DEF PinCleared, Rows, TripStatus
  <2>4. RowsOK'
    BY <1>1, <2>1, <2>2, <2>3, RowUpdate
  <2>5. DispatchesOK'
    BY <1>1, <2>1, ProceedType DEF DispatchPcs
  <2> QED
    BY <1>4, <2>1, <2>4, <2>5
<1>11. CASE ReleaseLock(x)
  <2>1. /\ dpc[x] = "release"
        /\ Proceed(x, "delete") \/ Stop(x)
        /\ UNCHANGED <<rows, requestVars, lock, session, bounds>>
    BY <1>11 DEF ReleaseLock
  <2>2. lock' \in [TripIds -> Dispatchers \cup {None}]
    BY <1>1, <2>1 DEF DispatchesOK
  <2>3. DispatchesOK'
    BY <1>1, <2>1, <2>2, ProceedType, StopType DEF DispatchPcs
  <2> QED
    BY <1>4, <2>1, <2>3, OthersKept
<1>12. CASE DeleteLock(x)
  <2>1. /\ dpc[x] = "delete"
        /\ lock' = [lock EXCEPT ![t] = None]
        /\ Stop(x)
        /\ UNCHANGED <<rows, requestVars, session, bounds>>
    BY <1>12 DEF DeleteLock, t
  <2>2. lock' \in [TripIds -> Dispatchers \cup {None}]
    BY <1>1, <1>3, <2>1 DEF DispatchesOK
  <2>3. DispatchesOK'
    BY <1>1, <2>1, <2>2, StopType
  <2> QED
    BY <1>4, <2>1, <2>3, OthersKept
<1> QED
  BY <1>5, <1>6, <1>7, <1>8, <1>9, <1>10, <1>11, <1>12 DEF DispatchStep

LEMMA TypeUpset ==
  ASSUME TypeOK,
         \/ \E r \in Requests : RequestThrows(r)
         \/ \E x \in Dispatchers : DispatchThrows(x)
         \/ ProcessCrash
         \/ \E t \in TripIds : LockLapses(t)
         \/ \E t \in TripIds, d \in Drivers : DispatchTask(t, d)
         \/ \E d \in Drivers : GoOnline(d)
  PROVE  TypeOK'
<1>1. RowsOK /\ RequestsOK /\ DispatchesOK
  BY DEF TypeOK
<1>2. overrides \in Nat /\ lapses \in Nat /\ crashes \in Nat
  BY DEF TypeOK
<1>3. ASSUME NEW r \in Requests, RequestThrows(r) PROVE TypeOK'
  BY <1>1, <1>2, <1>3, EndType, OthersKept DEF RequestThrows, TypeOK
<1>4. ASSUME NEW x \in Dispatchers, DispatchThrows(x) PROVE TypeOK'
  <2>1. /\ \/ dpc[x] \in {"ask", "expire"} /\ Proceed(x, "release")
           \/ dpc[x] \in {"release", "delete"} /\ Stop(x)
        /\ crashes' = crashes + 1
        /\ UNCHANGED <<rows, requestVars, lock, session, overrides, lapses>>
    BY <1>4 DEF DispatchThrows
  <2>2. lock' \in [TripIds -> Dispatchers \cup {None}]
    BY <1>1, <2>1 DEF DispatchesOK
  <2>3. DispatchesOK'
    BY <1>1, <2>1, <2>2, ProceedType, StopType DEF DispatchPcs
  <2> QED
    BY <1>2, <2>1, <2>3, OthersKept DEF TypeOK
<1>5. CASE ProcessCrash
  <2>1. RequestsOK'
    BY <1>5 DEF ProcessCrash, RequestsOK, RequestPcs
  <2>2. DispatchesOK'
    BY <1>1, <1>5 DEF ProcessCrash, DispatchesOK, DispatchPcs
  <2> QED
    BY <1>2, <1>5, <2>1, <2>2, OthersKept DEF ProcessCrash, TypeOK
<1>6. ASSUME NEW t \in TripIds, LockLapses(t) PROVE TypeOK'
  <2>1. DispatchesOK'
    BY <1>1, <1>6 DEF LockLapses, DispatchesOK
  <2> QED
    BY <1>2, <1>6, <2>1, OthersKept DEF LockLapses, TypeOK
<1>7. ASSUME NEW t \in TripIds, NEW d \in Drivers, DispatchTask(t, d)
      PROVE  TypeOK'
  <2>1. /\ trip \in [TripIds -> Rows]
        /\ trip' = [trip EXCEPT ![t].driver = d,
                               ![t].status = "DRIVER_ASSIGNED"]
        /\ "DRIVER_ASSIGNED" \in TripStatus
    BY <1>1, <1>7 DEF DispatchTask, RowsOK, TripStatus
  <2>2. trip' \in [TripIds -> Rows]
    <3>1. d \in Drivers \cup {None}
      OBVIOUS
    <3> QED
      BY ONLY <2>1, <3>1, t \in TripIds, DriverReplaced
  <2>3. RowsOK'
    BY <1>1, <1>7, <2>2 DEF DispatchTask, RowsOK
  <2> QED
    BY <1>2, <1>7, <2>3, OthersKept DEF DispatchTask, TypeOK
<1>8. ASSUME NEW d \in Drivers, GoOnline(d) PROVE TypeOK'
  <2>1. RowsOK'
    BY <1>1, <1>8 DEF GoOnline, RowsOK
  <2> QED
    BY <1>8, <2>1, OthersKept DEF GoOnline, TypeOK
<1> QED
  BY <1>3, <1>4, <1>5, <1>6, <1>7, <1>8

(* The type invariant.                                                     *)
THEOREM TypeInvariant == Spec => []TypeOK
<1>1. TypeOK /\ [Next]_vars => TypeOK'
  <2> SUFFICES ASSUME TypeOK, [Next]_vars PROVE TypeOK'
    OBVIOUS
  <2>1. CASE UNCHANGED vars
    <3>1. UNCHANGED <<rows, requestVars, dispatchVars, bounds>>
      BY <2>1 DEF vars
    <3> QED
      BY <3>1, OthersKept DEF TypeOK
  <2>2. CASE Next
    BY <2>2, TypeStartRequest, TypeRequestStep, TypeDispatchStep, TypeUpset
       DEF Next
  <2> QED
    BY <2>1, <2>2
<1> QED
  BY <1>1, TypeInit, PTL DEF Spec
-----------------------------------------------------------------------------
(* No unearned start.                                                      *)

(* Drivers are replaced, never taken away; a PIN comes with a driver; and  *)
(* what has been verified stays verified.                                  *)
DriversKept ==
  \A u \in TripIds :
    /\ trip[u].driver # None => trip'[u].driver # None
    /\ trip'[u].pin => trip[u].pin \/ trip'[u].driver # None
    /\ verified[u] => verified'[u]

(* No trip is started, no request comes closer to starting one.            *)
NoStart ==
  \A u \in TripIds : trip'[u].status \in Started => trip[u].status \in Started

ToStart(r) ==
  rpc[r] = "rightPin" \/ (rpc[r] = "write" /\ req[r].next \in Started)

NoNewWrite ==
  \A r \in Requests : ToStart(r)' => ToStart(r) /\ req'[r].trip = req[r].trip

(* Who accepts a trip is a driver.                                         *)
LEMMA AcceptingKept ==
  ASSUME RequestsOK, Accepting, Next
  PROVE  Accepting'
<1>1. ASSUME UNCHANGED requestVars PROVE Accepting'
  BY <1>1 DEF requestVars, Accepting
<1>2. ASSUME NEW r \in Requests, End(r) PROVE Accepting'
  BY <1>2 DEF End, Accepting, RequestsOK
<1>3. ASSUME NEW r \in Requests, NEW pc, Goto(r, pc),
             pc \in {"acceptRead", "acceptWrite"} => rpc[r] = "acceptRead"
      PROVE  Accepting'
  BY <1>3 DEF Goto, Accepting, RequestsOK
<1>4. ASSUME NEW r \in Requests, NEW pc, NEW what, Begin(r, pc, what),
             pc \in {"acceptRead", "acceptWrite"} => what.driver # None
      PROVE  Accepting'
  BY <1>4 DEF Begin, Accepting, RequestsOK
<1>5. ASSUME NEW r \in Requests, StartRequest(r) PROVE Accepting'
  <2>1. PICK t \in TripIds :
          \/ \E p \in Riders, q \in Quotes : Book(r, p, t, q)
          \/ \E next \in TripStatus : Transition(r, t, next)
          \/ \E d \in Drivers : DriverAccept(r, d, t) \/ AnswerDispatch(r, d, t)
    BY <1>5 DEF StartRequest
  <2>2. ASSUME NEW d \in Drivers, DriverAccept(r, d, t) PROVE Accepting'
    <3>1. [Request(t) EXCEPT !.driver = d].driver = d /\ d # None
      BY TripsAssumption DEF Request
    <3> QED
      BY <1>4, <2>2, <3>1 DEF DriverAccept
  <2>3. ASSUME NEW d \in Drivers, AnswerDispatch(r, d, t) PROVE Accepting'
    BY <1>4, <2>3 DEF AnswerDispatch
  <2>4. ASSUME NEW p \in Riders, NEW q \in Quotes, Book(r, p, t, q)
        PROVE  Accepting'
    BY <1>4, <2>4 DEF Book
  <2>5. ASSUME NEW next \in TripStatus, Transition(r, t, next)
        PROVE  Accepting'
    BY <1>4, <2>5 DEF Transition
  <2> QED
    BY <2>1, <2>2, <2>3, <2>4, <2>5
<1>6. ASSUME NEW r \in Requests, RequestStep(r) PROVE Accepting'
  <2>1. CASE CheckPin(r)
    <3>1. ASSUME NEW n, rpc' = [rpc EXCEPT ![r] = "wrongPin"],
                 req' = [req EXCEPT ![r].attempts = n]
          PROVE  Accepting'
      BY <3>1 DEF Accepting, RequestsOK
    <3> QED
      BY <1>2, <1>3, <2>1, <3>1 DEF CheckPin
  <2>2. CASE ReadQuote(r) \/ AcceptRead(r)
    BY <1>2, <1>3, <2>2 DEF ReadQuote, AcceptRead
  <2>3. CASE ClearPin(r) \/ TakeTrip(r) \/ RefuseTrip(r)
    BY <1>3, <2>3 DEF ClearPin, TakeTrip, RefuseTrip
  <2>4. CASE \/ ExpireQuote(r) \/ CreateTrip(r) \/ ExpirePin(r)
             \/ CountWrongPin(r) \/ WriteTransition(r) \/ AcceptWrite(r)
             \/ TellDispatch(r)
    BY <1>2, <2>4 DEF ExpireQuote, CreateTrip, ExpirePin, CountWrongPin,
                      WriteTransition, AcceptWrite, TellDispatch
  <2> QED
    BY <1>6, <2>1, <2>2, <2>3, <2>4 DEF RequestStep
<1>7. ASSUME NEW r \in Requests, RequestThrows(r) PROVE Accepting'
  BY <1>2, <1>7 DEF RequestThrows
<1>8. CASE ProcessCrash
  BY <1>8 DEF ProcessCrash, Accepting
<1>9. ASSUME NEW x \in Dispatchers,
             \/ \E t \in TripIds : StartDispatch(x, t)
             \/ DispatchStep(x) \/ DispatchThrows(x)
      PROVE  Accepting'
  BY <1>1, <1>9 DEF StartDispatch, DispatchStep, DispatchThrows, CheckDispatch,
                    Ask, Listen, DecisionTimesOut, ExpireTrip, ReleaseLock,
                    DeleteLock
<1>10. CASE \/ \E t \in TripIds : LockLapses(t)
            \/ \E t \in TripIds, d \in Drivers : DispatchTask(t, d)
            \/ \E d \in Drivers : GoOnline(d)
  BY <1>1, <1>10 DEF LockLapses, DispatchTask, GoOnline
<1> QED
  BY <1>5, <1>6, <1>7, <1>8, <1>9, <1>10 DEF Next

LEMMA StartKept ==
  ASSUME StartInv, TypeOK', Accepting', DriversKept, NoStart, NoNewWrite
  PROVE  StartInv'
<1>1. \A r \in Requests : ToStart(r) =>
        /\ req[r].trip \in TripIds
        /\ verified[req[r].trip] /\ trip[req[r].trip].driver # None
  BY AtWork DEF StartInv, TypeOK, WritesAreEarned, ToStart
<1>2. WritesAreEarned'
  BY <1>1, Zenon DEF WritesAreEarned, DriversKept, NoNewWrite, ToStart
<1>3. StartIsEarned'
  BY DEF StartInv, StartIsEarned, DriversKept, NoStart
<1>4. PinsHaveDrivers'
  BY DEF StartInv, PinsHaveDrivers, DriversKept
<1> QED
  BY <1>2, <1>3, <1>4 DEF StartInv

(* A step of a request that ends, or goes on to a point with nothing to    *)
(* write, brings no trip closer to its start.                              *)
LEMMA NoNewWriteFacts ==
  ASSUME RequestsOK
  PROVE  /\ UNCHANGED requestVars => NoNewWrite
         /\ \A r \in Requests : End(r) => NoNewWrite
         /\ \A r \in Requests, pc \in RequestPcs \ {"rightPin", "write"} :
              Goto(r, pc) => NoNewWrite
<1>1. ASSUME UNCHANGED requestVars PROVE NoNewWrite
  BY <1>1 DEF requestVars, NoNewWrite, ToStart
<1>2. ASSUME NEW r \in Requests, End(r) PROVE NoNewWrite
  BY <1>2 DEF End, NoNewWrite, ToStart, RequestsOK
<1>3. ASSUME NEW r \in Requests,
             NEW pc \in RequestPcs \ {"rightPin", "write"}, Goto(r, pc)
      PROVE  NoNewWrite
  BY <1>3 DEF Goto, NoNewWrite, ToStart, RequestsOK
<1> QED
  BY <1>1, <1>2, <1>3

(* Nothing happens to the rows of the trips.                               *)
LEMMA RowsKeptFacts ==
  ASSUME UNCHANGED <<trip, verified>>
  PROVE  DriversKept /\ NoStart
BY DEF DriversKept, NoStart

LEMMA StartInit ==
  ASSUME Init PROVE StartInv
<1>1. StartIsEarned /\ PinsHaveDrivers
  BY DEF Init, StartIsEarned, PinsHaveDrivers, Started
<1>2. WritesAreEarned
  BY DEF Init, WritesAreEarned
<1>3. Accepting
  BY DEF Init, Accepting
<1> QED
  BY <1>1, <1>2, <1>3, TypeInit DEF StartInv

LEMMA StartOfRequest ==
  ASSUME StartInv, TypeOK', Accepting', NEW r \in Requests, StartRequest(r)
  PROVE  StartInv'
<1>1. PICK t \in TripIds :
        \/ \E p \in Riders, q \in Quotes : Book(r, p, t, q)
        \/ \E next \in TripStatus : Transition(r, t, next)
        \/ \E d \in Drivers : DriverAccept(r, d, t) \/ AnswerDispatch(r, d, t)
  BY DEF StartRequest
<1>2. RequestsOK /\ WritesAreEarned
  BY DEF StartInv, TypeOK
<1>3. UNCHANGED <<trip, verified>>
  BY <1>1 DEF Book, Transition, DriverAccept, AnswerDispatch, rows
<1>4. ASSUME NEW pc \in RequestPcs \ {"rightPin", "write"}, NEW what,
             Begin(r, pc, what)
      PROVE  NoNewWrite
  BY <1>2, <1>4 DEF Begin, NoNewWrite, ToStart, RequestsOK
<1>5. ASSUME NEW p \in Riders, NEW q \in Quotes, Book(r, p, t, q)
      PROVE  StartInv'
  BY <1>3, <1>4, <1>5, StartKept, RowsKeptFacts DEF Book, RequestPcs
<1>6. ASSUME NEW d \in Drivers, DriverAccept(r, d, t) \/ AnswerDispatch(r, d, t)
      PROVE  StartInv'
  BY <1>3, <1>4, <1>6, StartKept, RowsKeptFacts
     DEF DriverAccept, AnswerDispatch, RequestPcs
<1>7. ASSUME NEW next \in TripStatus, Transition(r, t, next) PROVE StartInv'
  <2> DEFINE what == [Request(t) EXCEPT !.next = next]
  <2>1. what.trip = t /\ what.next = next
    BY DEF Request
  <2>2. Begin(r, IF next = "PIN_VERIFIED" THEN "pin" ELSE "write", what)
    BY <1>7 DEF Transition
  <2> HIDE DEF what
  <2>3. CASE next = "PIN_VERIFIED"
    BY <1>3, <1>4, <2>2, <2>3, StartKept, RowsKeptFacts DEF RequestPcs
  <2>4. CASE next \notin Started
    <3>1. NoNewWrite
      BY <1>2, <2>1, <2>2, <2>4
         DEF Begin, NoNewWrite, ToStart, RequestsOK, Started
    <3> QED
      BY <1>3, <3>1, StartKept, RowsKeptFacts
  <2>5. CASE next \in Started /\ next # "PIN_VERIFIED"
    <3>1. trip[t].status \in Started
      BY <1>7, <2>5 DEF Transition, Admitted, ALLOWED_TRANSITIONS, Started
    <3>2. verified[t] /\ trip[t].driver # None
      BY <3>1 DEF StartInv, StartIsEarned
    <3>3. WritesAreEarned'
      BY <1>2, <1>3, <2>1, <2>2, <3>2
         DEF Begin, WritesAreEarned, RequestsOK
    <3> QED
      BY <1>3, <3>3 DEF StartInv, StartIsEarned, PinsHaveDrivers
  <2> QED
    BY <2>3, <2>4, <2>5
<1> QED
  BY <1>1, <1>5, <1>6, <1>7

LEMMA StartOfStep ==
  ASSUME StartInv, TypeOK', Accepting', NEW r \in Requests, RequestStep(r)
  PROVE  StartInv'
<1> DEFINE t == req[r].trip
<1>1. RowsOK /\ RequestsOK /\ PinsHaveDrivers /\ WritesAreEarned
  BY DEF StartInv, TypeOK
<1>2. rpc[r] # "idle" => /\ req[r] \in Reqs
                         /\ t \in TripIds
                         /\ req[r].next \in TripStatus
  BY <1>1, AtWork
<1>3. trip \in [TripIds -> Rows]
  BY <1>1 DEF RowsOK
<1> HIDE DEF t
<1>4. CASE ReadQuote(r)
  <2>1. NoNewWrite
    BY <1>1, <1>4, NoNewWriteFacts DEF ReadQuote, RequestPcs
  <2> QED
    BY <1>4, <2>1, StartKept, RowsKeptFacts DEF ReadQuote, rows
<1>5. CASE ExpireQuote(r)
  BY <1>1, <1>5, NoNewWriteFacts, StartKept, RowsKeptFacts DEF ExpireQuote
<1>6. CASE CreateTrip(r)
  <2>1. t \in TripIds
    BY <1>2, <1>6 DEF CreateTrip
  <2>2. /\ trip' = [trip EXCEPT ![t].status = "REQUESTED",
                               ![t].rider = req[r].rider]
        /\ UNCHANGED verified
    BY <1>6 DEF CreateTrip, t
  <2>3. DriversKept /\ NoStart
    BY ONLY <1>3, <2>1, <2>2 DEF Rows, DriversKept, NoStart, Started
  <2> QED
    BY <1>1, <1>6, <2>3, NoNewWriteFacts, StartKept DEF CreateTrip
<1>7. CASE CheckPin(r)
  <2>1. t \in TripIds /\ UNCHANGED trip
    BY <1>2, <1>7 DEF CheckPin
  <2>2. /\ \/ UNCHANGED verified
           \/ verified' = [verified EXCEPT ![t] = TRUE]
        /\ verified \in [TripIds -> BOOLEAN]
    BY <1>1, <1>7 DEF CheckPin, t, RowsOK
  <2>3. \A u \in TripIds : verified[u] => verified'[u]
    BY <2>1, <2>2
  <2>4. DriversKept /\ NoStart
    BY <2>1, <2>3 DEF DriversKept, NoStart
  <2>5. CASE \/ End(r)
             \/ Goto(r, "expirePin")
    BY <1>1, <2>4, <2>5, NoNewWriteFacts, StartKept DEF RequestPcs
  <2>6. CASE /\ rpc' = [rpc EXCEPT ![r] = "wrongPin"]
             /\ req' = [req EXCEPT ![r].attempts = trip[t].attempts]
    <3>1. NoNewWrite
      BY <1>1, <2>6 DEF NoNewWrite, ToStart, RequestsOK
    <3> QED
      BY <2>4, <3>1, StartKept
  <2>7. CASE /\ Goto(r, "rightPin")
             /\ trip[t].pin
             /\ verified' = [verified EXCEPT ![t] = TRUE]
    <3>1. verified'[t] /\ trip'[t].driver # None
      BY <1>1, <2>1, <2>2, <2>7 DEF PinsHaveDrivers
    <3>2. WritesAreEarned'
      BY <1>1, <2>1, <2>3, <2>7, <3>1, AtWork
         DEF Goto, WritesAreEarned, RequestsOK, t
    <3> QED
      BY <2>1, <2>3, <3>2 DEF StartInv, StartIsEarned, PinsHaveDrivers
  <2> QED
    BY <1>7, <2>5, <2>6, <2>7 DEF CheckPin, t
<1>8. CASE ExpirePin(r)
  <2>1. t \in TripIds
    BY <1>2, <1>8 DEF ExpirePin
  <2>2. /\ trip' = [trip EXCEPT ![t].pin = FALSE, ![t].attempts = 0]
        /\ UNCHANGED verified
    BY <1>8 DEF ExpirePin, t
  <2>3. DriversKept /\ NoStart
    BY ONLY <1>3, <2>1, <2>2 DEF Rows, DriversKept, NoStart
  <2> QED
    BY <1>1, <1>8, <2>3, NoNewWriteFacts, StartKept DEF ExpirePin
<1>9. CASE CountWrongPin(r)
  <2>1. t \in TripIds
    BY <1>2, <1>9 DEF CountWrongPin
  <2>2. PICK n, b : trip' = [trip EXCEPT ![t].attempts = n, ![t].flagged = b]
    BY <1>9 DEF CountWrongPin, t
  <2>3. UNCHANGED verified
    BY <1>9 DEF CountWrongPin
  <2>4. DriversKept /\ NoStart
    BY ONLY <1>3, <2>1, <2>2, <2>3 DEF Rows, DriversKept, NoStart
  <2> QED
    BY <1>1, <1>9, <2>4, NoNewWriteFacts, StartKept DEF CountWrongPin
<1>10. CASE ClearPin(r)
  <2>1. t \in TripIds /\ rpc[r] = "rightPin"
    BY <1>2, <1>10 DEF ClearPin
  <2>2. trip' = [trip EXCEPT ![t] = PinCleared(trip[t])]
    BY <1>10 DEF ClearPin, t
  <2>3. UNCHANGED verified
    BY <1>10 DEF ClearPin
  <2>4. DriversKept /\ NoStart
    BY ONLY <1>3, <2>1, <2>2, <2>3 DEF Rows, DriversKept, NoStart, PinCleared
  <2>5. NoNewWrite
    BY <1>1, <1>10, <2>1
       DEF ClearPin, Goto, NoNewWrite, ToStart, RequestsOK
  <2> QED
    BY <2>4, <2>5, StartKept
<1>11. CASE WriteTransition(r)
  <2>1. t \in TripIds /\ rpc[r] = "write"
    BY <1>2, <1>11 DEF WriteTransition
  <2>2. trip' = [trip EXCEPT ![t].status = req[r].next]
    BY <1>11 DEF WriteTransition, t
  <2>3. UNCHANGED verified
    BY <1>11 DEF WriteTransition
  <2>4. /\ DriversKept
        /\ trip'[t].status = req[r].next
        /\ trip'[t].driver = trip[t].driver
        /\ \A u \in TripIds \ {t} : trip'[u] = trip[u]
    BY ONLY <1>3, <2>1, <2>2, <2>3 DEF Rows, DriversKept
  <2>5. req[r].next \in Started => verified[t] /\ trip[t].driver # None
    BY <1>1, <2>1 DEF WritesAreEarned, t
  <2>6. StartIsEarned'
    BY <2>3, <2>4, <2>5 DEF StartInv, StartIsEarned
  <2>7. NoNewWrite
    BY <1>1, <1>11, NoNewWriteFacts DEF WriteTransition
  <2>8. \A q \in Requests : ToStart(q) =>
          /\ req[q].trip \in TripIds
          /\ verified[req[q].trip] /\ trip[req[q].trip].driver # None
    BY <1>1, AtWork DEF WritesAreEarned, ToStart
  <2>9. WritesAreEarned'
    BY <2>4, <2>7, <2>8, Zenon
       DEF WritesAreEarned, DriversKept, NoNewWrite, ToStart
  <2> QED
    BY <1>1, <2>4, <2>6, <2>9 DEF StartInv, PinsHaveDrivers, DriversKept
<1>12. CASE AcceptRead(r)
  <2>1. NoNewWrite
    BY <1>1, <1>12, NoNewWriteFacts DEF AcceptRead, RequestPcs
  <2> QED
    BY <1>12, <2>1, StartKept, RowsKeptFacts DEF AcceptRead, rows
<1>13. CASE AcceptWrite(r)
  <2>1. t \in TripIds /\ req[r].driver # None
    BY <1>2, <1>13 DEF AcceptWrite, StartInv, Accepting
  <2>2. /\ trip' = [trip EXCEPT ![t].driver = req[r].driver,
                               ![t].status = "DRIVER_ARRIVING",
                               ![t].pin = TRUE]
        /\ UNCHANGED verified
    BY <1>13 DEF AcceptWrite, t
  <2>3. DriversKept /\ NoStart
    BY ONLY <1>3, <2>1, <2>2 DEF Rows, DriversKept, NoStart, Started
  <2> QED
    BY <1>1, <1>13, <2>3, NoNewWriteFacts, StartKept DEF AcceptWrite
<1>14. CASE TakeTrip(r)
  <2>1. t \in TripIds
    BY <1>2, <1>14 DEF TakeTrip
  <2>2. /\ trip' = [trip EXCEPT ![t].status = "DRIVER_ARRIVING"]
        /\ UNCHANGED verified
    BY <1>14 DEF TakeTrip, t
  <2>3. DriversKept /\ NoStart
    BY ONLY <1>3, <2>1, <2>2 DEF Rows, DriversKept, NoStart, Started
  <2> QED
    BY <1>1, <1>14, <2>3, NoNewWriteFacts, StartKept DEF TakeTrip, RequestPcs
<1>15. CASE RefuseTrip(r)
  <2>1. t \in TripIds
    BY <1>2, <1>15 DEF RefuseTrip
  <2>2. /\ trip' = [trip EXCEPT ![t] =
                      PinCleared([trip[t] EXCEPT !.status = "REQUESTED"])]
        /\ UNCHANGED verified
    BY <1>15 DEF RefuseTrip, t
  <2>3. DriversKept /\ NoStart
    BY ONLY <1>3, <2>1, <2>2
       DEF Rows, DriversKept, NoStart, Started, PinCleared
  <2> QED
    BY <1>1, <1>15, <2>3, NoNewWriteFacts, StartKept DEF RefuseTrip, RequestPcs
<1>16. CASE TellDispatch(r)
  BY <1>1, <1>16, NoNewWriteFacts, StartKept, RowsKeptFacts
     DEF TellDispatch, rows
<1> QED
  BY <1>4, <1>5, <1>6, <1>7, <1>8, <1>9, <1>10, <1>11, <1>12, <1>13, <1>14,
     <1>15, <1>16 DEF RequestStep

LEMMA StartOfOthers ==
  ASSUME StartInv, TypeOK', Accepting', Next,
         ~\E r \in Requests : StartRequest(r) \/ RequestStep(r)
  PROVE  StartInv'
<1>1. RequestsOK /\ DispatchesOK /\ trip \in [TripIds -> Rows]
  BY DEF StartInv, TypeOK, RowsOK
<1>2. ASSUME NEW r \in Requests, RequestThrows(r) PROVE StartInv'
  BY <1>1, <1>2, NoNewWriteFacts, StartKept, RowsKeptFacts
     DEF RequestThrows, rows
<1>3. CASE ProcessCrash
  <2>1. NoNewWrite
    BY <1>3 DEF ProcessCrash, NoNewWrite, ToStart
  <2> QED
    BY <1>3, <2>1, StartKept, RowsKeptFacts DEF ProcessCrash, rows
<1>4. ASSUME NEW x \in Dispatchers,
             \/ \E t \in TripIds : StartDispatch(x, t)
             \/ CheckDispatch(x) \/ Listen(x) \/ DecisionTimesOut(x)
             \/ ReleaseLock(x) \/ DeleteLock(x) \/ DispatchThrows(x)
      PROVE  StartInv'
  <2>1. UNCHANGED <<trip, verified, requestVars>>
    BY <1>4 DEF StartDispatch, CheckDispatch, Listen, DecisionTimesOut,
                ReleaseLock, DeleteLock, DispatchThrows, rows
  <2> QED
    BY <1>1, <2>1, NoNewWriteFacts, StartKept, RowsKeptFacts
<1>5. ASSUME NEW x \in Dispatchers, Ask(x) PROVE StartInv'
  <2>1. PICK t, d : /\ t = run[x].trip
                    /\ d \in run[x].todo
                    /\ trip' = [trip EXCEPT ![t].driver = d,
                                           ![t].status = "DRIVER_ASSIGNED",
                                           ![t].pin = TRUE]
    BY <1>5 DEF Ask
  <2>2. UNCHANGED <<verified, requestVars>> /\ dpc[x] = "ask"
    BY <1>5 DEF Ask
  <2>3. run[x] \in Runs
    BY <1>1, <2>2 DEF DispatchesOK
  <2>4. t \in TripIds /\ d \in Drivers /\ d # None
    BY <2>1, <2>3, TripsAssumption DEF Runs
  <2>5. /\ trip'[t].driver = d /\ trip'[t].status = "DRIVER_ASSIGNED"
        /\ \A u \in TripIds \ {t} : trip'[u] = trip[u]
    <3>1. "DRIVER_ASSIGNED" \in TripStatus /\ trip \in [TripIds -> Rows]
      BY <1>1 DEF TripStatus, RowsOK
    <3>2. trip' = [trip EXCEPT ![t].driver = d,
                              ![t].status = "DRIVER_ASSIGNED",
                              ![t].pin = TRUE]
      BY <2>1
    <3>3. d \in Drivers \cup {None}
      BY <2>4
    <3> QED
      BY ONLY <2>4, <3>1, <3>2, <3>3, DriverAssigned
  <2>6. DriversKept /\ NoStart
    BY <2>2, <2>4, <2>5 DEF DriversKept, NoStart, Started
  <2> QED
    BY <1>1, <2>2, <2>6, NoNewWriteFacts, StartKept
<1>6. ASSUME NEW x \in Dispatchers, ExpireTrip(x) PROVE StartInv'
  <2>1. PICK t : /\ t = run[x].trip
                 /\ trip' = [trip EXCEPT ![t] =
                         PinCleared([trip[t] EXCEPT !.status = "EXPIRED"])]
    BY <1>6 DEF ExpireTrip
  <2>2. UNCHANGED <<verified, requestVars>> /\ dpc[x] = "expire"
    BY <1>6 DEF ExpireTrip
  <2>3. run[x] \in Runs
    BY <1>1, <2>2 DEF DispatchesOK
  <2>4. t \in TripIds
    BY <2>1, <2>3 DEF Runs
  <2>5. DriversKept /\ NoStart
    BY ONLY <1>1, <2>1, <2>2, <2>4
       DEF Rows, DriversKept, NoStart, Started, PinCleared
  <2> QED
    BY <1>1, <2>2, <2>5, NoNewWriteFacts, StartKept
<1>7. ASSUME NEW t \in TripIds, NEW d \in Drivers, DispatchTask(t, d)
      PROVE  StartInv'
  <2>1. /\ trip' = [trip EXCEPT ![t].driver = d,
                               ![t].status = "DRIVER_ASSIGNED"]
        /\ UNCHANGED <<verified, requestVars>>
    BY <1>7 DEF DispatchTask
  <2>2. d # None
    BY TripsAssumption
  <2>3. DriversKept /\ NoStart
    BY ONLY <1>1, <2>1, <2>2, t \in TripIds
       DEF Rows, DriversKept, NoStart, Started
  <2> QED
    BY <1>1, <2>1, <2>3, NoNewWriteFacts, StartKept
<1>8. ASSUME NEW t \in TripIds, LockLapses(t) PROVE StartInv'
  BY <1>1, <1>8, NoNewWriteFacts, StartKept, RowsKeptFacts
     DEF LockLapses, rows
<1>9. ASSUME NEW d \in Drivers, GoOnline(d) PROVE StartInv'
  BY <1>1, <1>9, NoNewWriteFacts, StartKept, RowsKeptFacts DEF GoOnline
<1> QED
  BY <1>2, <1>3, <1>4, <1>5, <1>6, <1>7, <1>8, <1>9 DEF Next, DispatchStep

THEOREM StartInvariance == Spec => []StartInv
<1>1. StartInv /\ [Next]_vars => StartInv'
  <2> SUFFICES ASSUME StartInv, [Next]_vars PROVE StartInv'
    OBVIOUS
  <2>1. CASE UNCHANGED vars
    <3>1. /\ UNCHANGED <<rows, requestVars, dispatchVars, bounds>>
          /\ UNCHANGED <<trip, verified, rpc, req>>
      BY <2>1 DEF vars, rows, requestVars
    <3>2. TypeOK'
      BY <3>1, OthersKept DEF TypeOK, StartInv
    <3> QED
      BY <3>1, <3>2 DEF StartInv, Accepting, StartIsEarned, PinsHaveDrivers,
                        WritesAreEarned
  <2>2. CASE Next
    <3>1. TypeOK /\ RequestsOK /\ Accepting
      BY DEF StartInv, TypeOK
    <3>2. TypeOK'
      BY <2>2, <3>1, TypeStartRequest, TypeRequestStep, TypeDispatchStep,
         TypeUpset DEF Next
    <3>3. Accepting'
      BY <2>2, <3>1, AcceptingKept
    <3> QED
      BY <2>2, <3>2, <3>3, StartOfRequest, StartOfStep, StartOfOthers
  <2> QED
    BY <2>1, <2>2
<1> QED
  BY <1>1, StartInit, PTL DEF Spec

(* PRD.md, 14.1: no ride is started, completed or disputed whose PIN has   *)
(* never been verified, or that has no driver; for any number of requests  *)
(* and dispatches, whatever throws, lapses or crashes.                     *)
THEOREM StartsAreEarned == Spec => []StartIsEarned
<1>1. StartInv => StartIsEarned
  BY DEF StartInv
<1> QED
  BY <1>1, StartInvariance, PTL
-----------------------------------------------------------------------------
(* One dispatch at a time.                                                 *)

(* The locks stay, and no dispatch begins or changes its trip.             *)
LEMMA HoldersKept ==
  ASSUME HoldersHold, UNCHANGED lock, lapses' = 0 => lapses = 0,
         \A x \in Dispatchers :
           dpc'[x] # "idle" => dpc[x] # "idle" /\ run'[x].trip = run[x].trip
  PROVE  HoldersHold'
BY DEF HoldersHold, Holds

LEMMA HoldersOfDispatch ==
  ASSUME TypeOK, HoldersHold, NEW x \in Dispatchers,
         \/ \E t \in TripIds : StartDispatch(x, t)
         \/ DispatchStep(x)
         \/ DispatchThrows(x)
  PROVE  HoldersHold'
<1>1. DispatchesOK
  BY DEF TypeOK
<1>2. UNCHANGED lapses
  BY DEF StartDispatch, DispatchStep, DispatchThrows, CheckDispatch, Ask,
         Listen, DecisionTimesOut, ExpireTrip, ReleaseLock, DeleteLock, bounds
<1>3. ASSUME NEW t \in TripIds, StartDispatch(x, t) PROVE HoldersHold'
  <2>1. /\ dpc[x] = "idle" /\ lock[t] = None
        /\ lock' = [lock EXCEPT ![t] = x]
        /\ dpc' = [dpc EXCEPT ![x] = "check"]
        /\ run'[x].trip = t
        /\ \A y \in Dispatchers \ {x} : run'[y] = run[y]
    BY <1>1, <1>3 DEF StartDispatch, Acquire, DispatchesOK
  <2>2. ASSUME NEW u \in TripIds, NEW y \in Dispatchers, Holds(y, u)',
               lapses = 0
        PROVE  lock'[u] = y
    <3>1. CASE y = x
      BY <1>1, <2>1, <2>2, <3>1 DEF Holds, DispatchesOK
    <3>2. CASE y # x
      <4>1. Holds(y, u)
        BY <1>1, <2>1, <2>2, <3>2 DEF Holds, DispatchesOK
      <4>2. lock[u] = y /\ y # None
        BY <2>2, <4>1, TripsAssumption DEF HoldersHold
      <4> QED
        BY <1>1, <2>1, <4>2 DEF DispatchesOK
    <3> QED
      BY <3>1, <3>2
  <2> QED
    BY <1>2, <2>2 DEF HoldersHold
<1>4. ASSUME NEW pc, Proceed(x, pc), dpc[x] # "idle", UNCHANGED lock
      PROVE  HoldersHold'
  BY <1>1, <1>2, <1>4, HoldersKept DEF Proceed, DispatchesOK
<1>5. ASSUME Stop(x), UNCHANGED lock PROVE HoldersHold'
  BY <1>1, <1>2, <1>5, HoldersKept DEF Stop, DispatchesOK
<1>6. CASE CheckDispatch(x)
  <2>1. UNCHANGED lock /\ dpc[x] = "check"
    BY <1>6 DEF CheckDispatch
  <2>2. ASSUME NEW near, run' = [run EXCEPT ![x].todo = near],
               dpc' = [dpc EXCEPT ![x] = "ask"]
        PROVE  HoldersHold'
    <3>1. run[x] \in Runs
      BY <1>1, <2>1 DEF DispatchesOK
    <3>2. \A y \in Dispatchers : dpc'[y] # "idle" =>
            dpc[y] # "idle" /\ run'[y].trip = run[y].trip
      BY <1>1, <2>1, <2>2, <3>1 DEF DispatchesOK, Runs
    <3> QED
      BY <1>2, <2>1, <3>2, HoldersKept
  <2> QED
    BY <1>4, <1>6, <2>1, <2>2 DEF CheckDispatch
<1>7. CASE Ask(x)
  <2>1. PICK d : run' = [run EXCEPT ![x] =
                           [run[x] EXCEPT !.todo = run[x].todo \ {d},
                                          !.asked = d]]
    BY <1>7 DEF Ask
  <2>2. /\ UNCHANGED lock /\ dpc[x] = "ask"
        /\ dpc' = [dpc EXCEPT ![x] = "listen"]
    BY <1>7 DEF Ask
  <2>3. run[x] \in Runs
    BY <1>1, <2>2 DEF DispatchesOK
  <2>4. \A y \in Dispatchers : dpc'[y] # "idle" =>
          dpc[y] # "idle" /\ run'[y].trip = run[y].trip
    BY <1>1, <2>1, <2>2, <2>3 DEF DispatchesOK, Runs
  <2> QED
    BY <1>2, <2>2, <2>4, HoldersKept
<1>8. CASE Listen(x) \/ DecisionTimesOut(x) \/ ExpireTrip(x)
  BY <1>4, <1>8 DEF Listen, DecisionTimesOut, ExpireTrip
<1>9. CASE ReleaseLock(x) \/ DispatchThrows(x)
  BY <1>4, <1>5, <1>9 DEF ReleaseLock, DispatchThrows
<1>10. CASE DeleteLock(x)
  <2> DEFINE t == run[x].trip
  <2>1. /\ dpc[x] = "delete"
        /\ lock' = [lock EXCEPT ![t] = None]
        /\ dpc' = [dpc EXCEPT ![x] = "idle"]
        /\ \A y \in Dispatchers \ {x} : run'[y] = run[y]
    BY <1>1, <1>10 DEF DeleteLock, Stop, DispatchesOK
  <2>2. run[x] \in Runs
    BY <1>1, <2>1 DEF DispatchesOK
  <2>3. t \in TripIds
    BY <2>2 DEF Runs
  <2>4. lapses = 0 => lock[t] = x
    BY <2>1, <2>3 DEF HoldersHold, Holds
  <2> HIDE DEF t
  <2>5. ASSUME NEW u \in TripIds, NEW y \in Dispatchers, Holds(y, u)',
               lapses = 0
        PROVE  lock'[u] = y
    <3>1. y # x /\ Holds(y, u)
      BY <1>1, <2>1, <2>5 DEF Holds, DispatchesOK
    <3>2. lock[u] = y
      BY <2>5, <3>1 DEF HoldersHold
    <3> QED
      BY <1>1, <2>1, <2>3, <2>4, <2>5, <3>1, <3>2 DEF DispatchesOK
  <2> QED
    BY <1>2, <2>5 DEF HoldersHold
<1> QED
  BY <1>3, <1>6, <1>7, <1>8, <1>9, <1>10 DEF DispatchStep

LEMMA HoldersOfOthers ==
  ASSUME TypeOK, HoldersHold,
         \/ \E r \in Requests :
              StartRequest(r) \/ RequestStep(r) \/ RequestThrows(r)
         \/ ProcessCrash
         \/ \E t \in TripIds : LockLapses(t)
         \/ \E t \in TripIds, d \in Drivers : DispatchTask(t, d)
         \/ \E d \in Drivers : GoOnline(d)
  PROVE  HoldersHold'
<1>1. DispatchesOK /\ lapses \in Nat
  BY DEF TypeOK
<1>2. ASSUME UNCHANGED <<lock, dpc, run, lapses>> PROVE HoldersHold'
  BY <1>2, HoldersKept
<1>3. ASSUME NEW r \in Requests,
             \/ StartRequest(r) \/ RequestThrows(r)
             \/ RequestStep(r) /\ ~TellDispatch(r)
      PROVE  HoldersHold'
  <2>1. UNCHANGED <<dispatchVars, lapses>>
    BY <1>3 DEF StartRequest, Book, Transition, DriverAccept, AnswerDispatch,
       RequestThrows, RequestStep, ReadQuote, ExpireQuote, CreateTrip, CheckPin,
       ExpirePin, CountWrongPin, ClearPin, WriteTransition, AcceptRead,
       AcceptWrite, TakeTrip, RefuseTrip, bounds
  <2> QED
    BY <1>2, <2>1 DEF dispatchVars
<1>4. ASSUME NEW r \in Requests, TellDispatch(r) PROVE HoldersHold'
  <2> DEFINE t == req[r].trip
  <2>1. /\ UNCHANGED <<lock, lapses>>
        /\ rpc[r] # "idle"
        /\ \/ UNCHANGED <<dpc, run>>
           \/ /\ session[t] # None
              /\ \E pc : Proceed(session[t], pc)
    BY <1>4 DEF TellDispatch, bounds
  <2>2. CASE UNCHANGED <<dpc, run>>
    BY <1>2, <2>1, <2>2
  <2>3. CASE session[t] # None /\ \E pc : Proceed(session[t], pc)
    <3>1. t \in TripIds
      BY <2>1, AtWork DEF TypeOK
    <3>2. dpc[session[t]] = "wait" /\ session[t] \in Dispatchers
      BY <1>1, <2>3, <3>1 DEF DispatchesOK
    <3>3. \A y \in Dispatchers : dpc'[y] # "idle" =>
            dpc[y] # "idle" /\ run'[y].trip = run[y].trip
      BY <1>1, <2>3, <3>2 DEF Proceed, DispatchesOK
    <3> QED
      BY <2>1, <3>3, HoldersKept
  <2> QED
    BY <2>1, <2>2, <2>3
<1>5. CASE ProcessCrash
  BY <1>5, HoldersKept DEF ProcessCrash
<1>6. ASSUME NEW t \in TripIds, LockLapses(t) PROVE HoldersHold'
  <2>1. CASE lapses' = lapses + 1
    <3>1. lapses' # 0
      BY <1>1, <2>1
    <3> QED
      BY <3>1 DEF HoldersHold
  <2>2. CASE ~Holds(lock[t], t) /\ UNCHANGED lapses
    <3>1. UNCHANGED <<dpc, run>> /\ lock' = [lock EXCEPT ![t] = None]
      BY <1>6 DEF LockLapses
    <3> QED
      BY <1>1, <2>2, <3>1 DEF HoldersHold, Holds, DispatchesOK
  <2> QED
    BY <1>6, <2>1, <2>2 DEF LockLapses
<1>7. CASE \/ \E t \in TripIds, d \in Drivers : DispatchTask(t, d)
           \/ \E d \in Drivers : GoOnline(d)
  BY <1>2, <1>7 DEF DispatchTask, GoOnline, dispatchVars, bounds
<1> QED
  BY <1>3, <1>4, <1>5, <1>6, <1>7

THEOREM DispatchInvariance == Spec => []DispatchInv
<1>1. Init => DispatchInv
  BY TypeInit DEF Init, DispatchInv, HoldersHold, Holds
<1>2. TypeOK /\ HoldersHold /\ [Next]_vars => HoldersHold'
  <2> SUFFICES ASSUME TypeOK, HoldersHold, [Next]_vars PROVE HoldersHold'
    OBVIOUS
  <2>1. CASE UNCHANGED vars
    BY <2>1, HoldersKept DEF vars, dispatchVars, bounds
  <2>2. CASE Next
    BY <2>2, HoldersOfDispatch, HoldersOfOthers DEF Next
  <2> QED
    BY <2>1, <2>2
<1> QED
  BY <1>1, <1>2, TypeInvariant, PTL DEF Spec, DispatchInv

(* As long as no lock lapses under its holder, two dispatches never work   *)
(* on one ride, although the lock is released in two calls and waits for   *)
(* its time to live when a process dies.                                   *)
THEOREM DispatchesAreExclusive == Spec => []OneDispatch
<1>1. DispatchInv => OneDispatch
  BY DEF DispatchInv, HoldersHold, OneDispatch
<1> QED
  BY <1>1, DispatchInvariance, PTL
-----------------------------------------------------------------------------
(* Requests that do not overlap, without dispatches and upsets.            *)

Alone == \A q, r \in Requests : q = r

RowsApart == DriversApart /\ RidersApart /\ UnacceptedHaveNoDriver

LEMMA AdmittedFacts ==
  ASSUME NEW status, NEW next, Admitted(status, next)
  PROVE  /\ status \in RiderActive
         /\ next \notin {"NONE", "REQUESTED"}
         /\ next = "DRIVER_ASSIGNED" => status = "REQUESTED"
         /\ next \in DriverActive \ {"DRIVER_ASSIGNED"}
              => status \in DriverActive
BY DEF Admitted, ALLOWED_TRANSITIONS, RiderActive, DriverActive

(* A step that leaves everybody's trips as they are.                       *)
LEMMA ApartQuiet ==
  ASSUME RowsApart,
         \A t \in TripIds : /\ trip'[t].status = trip[t].status
                            /\ trip'[t].driver = trip[t].driver
                            /\ trip'[t].rider = trip[t].rider
  PROVE  RowsApart'
BY DEF RowsApart, DriversApart, RidersApart, UnacceptedHaveNoDriver

(* The only request at work has ended.                                     *)
LEMMA ReadsOfEnd ==
  ASSUME Alone, RequestsOK, NEW r \in Requests, End(r)
  PROVE  \A q \in Requests : ReadsStand(q)'
<1>1. rpc'[r] = "idle"
  BY DEF End, RequestsOK
<1>2. ReadsStand(r)'
  BY <1>1 DEF ReadsStand
<1> QED
  BY <1>2 DEF Alone

LEMMA SerialStart ==
  ASSUME Alone, TypeOK, SerialInv, NEW r \in Requests, StartRequest(r)
  PROVE  SerialInv'
<1>1. PICK t \in TripIds :
        \/ \E p \in Riders, q \in Quotes : Book(r, p, t, q)
        \/ \E next \in TripStatus : Transition(r, t, next)
        \/ \E d \in Drivers : DriverAccept(r, d, t) \/ AnswerDispatch(r, d, t)
  BY DEF StartRequest
<1>2. trip' = trip
  BY <1>1 DEF Book, Transition, DriverAccept, AnswerDispatch, rows
<1>3. RowsApart'
  BY <1>2, ApartQuiet DEF SerialInv, RowsApart
<1>4. ASSUME NEW pc, NEW what, Begin(r, pc, what)
      PROVE  rpc'[r] = pc /\ req'[r] = what
  BY <1>4 DEF Begin, TypeOK, RequestsOK
<1>5. ASSUME NEW p \in Riders, NEW q \in Quotes, Book(r, p, t, q)
      PROVE  ReadsStand(r)'
  <2> DEFINE what == [Request(t) EXCEPT !.rider = p, !.quote = q]
  <2>1. what.rider = p
    BY DEF Request
  <2>2. Begin(r, "readQuote", what) /\ MayBook(p)
    BY <1>5 DEF Book
  <2> HIDE DEF what
  <2>3. rpc'[r] = "readQuote" /\ req'[r].rider = p
    BY <1>4, <2>1, <2>2
  <2>4. MayBook(req[r].rider)'
    BY <1>2, <2>2, <2>3 DEF MayBook
  <2> QED
    BY <2>3, <2>4 DEF ReadsStand
<1>6. ASSUME NEW next \in TripStatus, Transition(r, t, next)
      PROVE  ReadsStand(r)'
  <2> DEFINE what == [Request(t) EXCEPT !.next = next]
  <2>1. what.trip = t /\ what.next = next
    BY DEF Request
  <2>2. /\ Begin(r, "pin", what) \/ Begin(r, "write", what)
        /\ Admitted(trip[t].status, next)
    BY <1>6 DEF Transition
  <2> HIDE DEF what
  <2>3. rpc'[r] \in {"pin", "write"} /\ req'[r] = what
    BY <1>4, <2>2
  <2> QED
    BY <1>2, <2>1, <2>2, <2>3 DEF ReadsStand
<1>7. ASSUME NEW d \in Drivers, DriverAccept(r, d, t)
      PROVE  ReadsStand(r)'
  <2> DEFINE what == [Request(t) EXCEPT !.driver = d]
  <2>1. what.driver = d
    BY DEF Request
  <2>2. Begin(r, "acceptRead", what) /\ Free(d)
    BY <1>7 DEF DriverAccept
  <2> HIDE DEF what
  <2>3. rpc'[r] = "acceptRead" /\ req'[r].driver = d
    BY <1>4, <2>1, <2>2
  <2> QED
    BY <1>2, <2>2, <2>3 DEF ReadsStand, Free
<1>8. ASSUME NEW d \in Drivers, AnswerDispatch(r, d, t)
      PROVE  FALSE
  BY <1>8, TripsAssumption
     DEF AnswerDispatch, SerialInv, UnacceptedHaveNoDriver
<1>9. ReadsStand(r)'
  BY <1>1, <1>5, <1>6, <1>7, <1>8
<1> QED
  BY <1>3, <1>9 DEF Alone, SerialInv, RowsApart

LEMMA SerialStep ==
  ASSUME Alone, TypeOK, SerialInv, NEW r \in Requests, RequestStep(r)
  PROVE  SerialInv'
<1> DEFINE Stand == \A q \in Requests : ReadsStand(q)'
<1>0. /\ RequestsOK /\ RowsOK /\ RowsApart /\ ReadsStand(r)
  BY DEF TypeOK, SerialInv, RowsApart
<1>1. ASSUME ReadsStand(r)' PROVE Stand
  BY <1>1 DEF Alone
<1>2. ASSUME RowsApart', Stand PROVE SerialInv'
  BY <1>2 DEF RowsApart, SerialInv
<1>3. ASSUME NEW pc, Goto(r, pc) PROVE rpc'[r] = pc /\ req'[r] = req[r]
  BY <1>0, <1>3 DEF Goto, RequestsOK
<1>4. CASE ReadQuote(r)
  <2>1. rpc[r] = "readQuote" /\ trip' = trip
    BY <1>4 DEF ReadQuote, rows
  <2>2. RowsApart'
    BY <1>0, <2>1, ApartQuiet
  <2>3. CASE End(r)
    BY <1>0, <1>2, <2>2, <2>3, ReadsOfEnd
  <2>4. ASSUME NEW pc \in {"book", "expireQuote"}, Goto(r, pc)
        PROVE  ReadsStand(r)'
    <3>1. MayBook(req[r].rider)
      BY <1>0, <2>1 DEF ReadsStand
    <3>2. rpc'[r] = pc /\ req'[r] = req[r]
      BY <1>3, <2>4
    <3>3. MayBook(req[r].rider)'
      BY <2>1, <3>1, <3>2 DEF MayBook
    <3> QED
      BY <3>2, <3>3 DEF ReadsStand
  <2> QED
    BY <1>1, <1>2, <1>4, <2>2, <2>3, <2>4 DEF ReadQuote
<1>5. CASE ExpireQuote(r)
  <2>1. trip' = trip /\ End(r)
    BY <1>5 DEF ExpireQuote
  <2> QED
    BY <1>0, <1>2, <2>1, ApartQuiet, ReadsOfEnd
<1>6. CASE CreateTrip(r)
  <2>1. PICK t \in TripIds : t = req[r].trip
    BY <1>0, <1>6, AtWork DEF CreateTrip
  <2>2. PICK p : p = req[r].rider
    OBVIOUS
  <2>3. /\ trip[t].status = "NONE" /\ MayBook(p) /\ End(r)
        /\ trip' = [trip EXCEPT ![t].status = "REQUESTED", ![t].rider = p]
    BY <1>0, <1>6, <2>1, <2>2 DEF CreateTrip, ReadsStand
  <2>4. /\ trip'[t].status = "REQUESTED" /\ trip'[t].rider = p
        /\ trip'[t].driver = trip[t].driver
        /\ \A u \in TripIds \ {t} : trip'[u] = trip[u]
    BY <1>0, <2>3 DEF RowsOK, Rows
  <2>5. DriversApart'
    BY <1>0, <2>4 DEF RowsApart, DriversApart, DriverActive
  <2>6. RidersApart'
    <3>1. \A u \in TripIds \ {t} : ~(/\ trip'[u].rider = p
                                    /\ trip'[u].status \in RiderActive)
      BY <2>3, <2>4 DEF MayBook
    <3>2. ASSUME NEW u \in TripIds, NEW v \in TripIds,
                 trip'[u].rider # None, trip'[u].rider = trip'[v].rider,
                 trip'[u].status \in RiderActive,
                 trip'[v].status \in RiderActive, u # v
          PROVE  FALSE
      <4>1. CASE u = t \/ v = t
        BY <2>4, <3>1, <3>2, <4>1
      <4>2. CASE u # t /\ v # t
        BY <1>0, <2>4, <3>2, <4>2 DEF RowsApart, RidersApart
      <4> QED
        BY <4>1, <4>2
    <3> QED
      BY <3>2 DEF RidersApart
  <2>7. UnacceptedHaveNoDriver'
    BY <1>0, <2>3, <2>4 DEF RowsApart, UnacceptedHaveNoDriver
  <2> QED
    BY <1>0, <1>2, <2>3, <2>5, <2>6, <2>7, ReadsOfEnd DEF RowsApart
<1>7. CASE CheckPin(r)
  <2>1. rpc[r] = "pin" /\ trip' = trip
    BY <1>7 DEF CheckPin
  <2>2. RowsApart'
    BY <1>0, <2>1, ApartQuiet
  <2>3. req[r].trip \in TripIds /\ req[r] \in Reqs
    BY <1>0, <2>1, AtWork
  <2>4. CASE End(r)
    BY <1>0, <1>2, <2>2, <2>4, ReadsOfEnd
  <2>5. CASE ~End(r)
    <3>1. /\ rpc'[r] \in {"expirePin", "wrongPin", "rightPin"}
          /\ req'[r].trip = req[r].trip /\ req'[r].next = req[r].next
      BY <1>0, <1>3, <1>7, <2>3, <2>5 DEF CheckPin, RequestsOK, Reqs
    <3>2. Admitted(trip[req[r].trip].status, req[r].next)
      BY <1>0, <2>1 DEF ReadsStand
    <3>3. ReadsStand(r)'
      BY <2>1, <3>1, <3>2 DEF ReadsStand
    <3> QED
      BY <1>1, <1>2, <2>2, <3>3
  <2> QED
    BY <2>4, <2>5
<1>8. CASE ExpirePin(r) \/ CountWrongPin(r)
  <2>1. req[r].trip \in TripIds
    BY <1>0, <1>8, AtWork DEF ExpirePin, CountWrongPin
  <2>2. End(r)
    BY <1>8 DEF ExpirePin, CountWrongPin
  <2>3. PICK t \in TripIds : t = req[r].trip
    BY <2>1
  <2>4. trip \in [TripIds -> Rows]
    BY <1>0 DEF RowsOK
  <2>5. ASSUME ExpirePin(r) PROVE SameRide
    <3>1. trip' = [trip EXCEPT ![t].pin = FALSE, ![t].attempts = 0]
      BY <2>3, <2>5 DEF ExpirePin
    <3> QED
      BY ONLY <2>4, <3>1, t \in TripIds, PinExpired
  <2>6. ASSUME CountWrongPin(r) PROVE SameRide
    <3>1. /\ req[r].attempts + 1 \in Nat
          /\ (trip[t].flagged \/ req[r].attempts + 1 >= MaxFailedPinAttempts)
               \in BOOLEAN
      <4>1. req[r].attempts \in Nat
        BY <1>0, <2>6, AtWork DEF CountWrongPin
      <4> QED
        BY <4>1
    <3>2. trip' = [trip EXCEPT ![t].attempts = req[r].attempts + 1,
                             ![t].flagged = trip[t].flagged \/
                               req[r].attempts + 1 >= MaxFailedPinAttempts]
      BY <2>3, <2>6 DEF CountWrongPin
    <3>3. PICK n \in Nat, b \in BOOLEAN :
            trip' = [trip EXCEPT ![t].attempts = n, ![t].flagged = b]
      BY <3>1, <3>2
    <3> QED
      BY ONLY <2>4, <3>3, t \in TripIds, n \in Nat, b \in BOOLEAN,
         WrongPinCounted
  <2>7. SameRide
    BY <1>8, <2>5, <2>6
  <2> QED
    BY <1>0, <1>2, <2>2, <2>7, ApartQuiet, ReadsOfEnd DEF SameRide
<1>9. CASE ClearPin(r)
  <2>1. req[r].trip \in TripIds
    BY <1>0, <1>9, AtWork DEF ClearPin
  <2>2. \A t \in TripIds : /\ trip'[t].status = trip[t].status
                           /\ trip'[t].driver = trip[t].driver
                           /\ trip'[t].rider = trip[t].rider
    BY <1>0, <1>9, <2>1 DEF ClearPin, PinCleared, RowsOK, Rows
  <2>3. rpc[r] = "rightPin" /\ rpc'[r] = "write" /\ req'[r] = req[r]
    BY <1>3, <1>9 DEF ClearPin
  <2>4. Admitted(trip[req[r].trip].status, req[r].next)
    BY <1>0, <2>3 DEF ReadsStand
  <2>5. ReadsStand(r)'
    BY <2>1, <2>2, <2>3, <2>4 DEF ReadsStand
  <2> QED
    BY <1>0, <1>1, <1>2, <2>2, <2>5, ApartQuiet
<1>10. CASE WriteTransition(r)
  <2>1. PICK t \in TripIds : t = req[r].trip
    BY <1>0, <1>10, AtWork DEF WriteTransition
  <2>2. PICK next : next = req[r].next
    OBVIOUS
  <2>3. /\ Admitted(trip[t].status, next) /\ End(r)
        /\ trip' = [trip EXCEPT ![t].status = next]
    BY <1>0, <1>10, <2>1, <2>2 DEF WriteTransition, ReadsStand
  <2>4. /\ trip'[t].status = next /\ trip'[t].rider = trip[t].rider
        /\ trip'[t].driver = trip[t].driver
        /\ \A u \in TripIds \ {t} : trip'[u] = trip[u]
    BY <1>0, <2>3 DEF RowsOK, Rows
  <2>5. DriversApart'
    <3>1. CASE next \in DriverActive /\ next # "DRIVER_ASSIGNED"
      <4>1. trip[t].status \in DriverActive
        BY <2>3, <3>1, AdmittedFacts DEF DriverActive
      <4> QED
        BY <1>0, <2>4, <4>1 DEF RowsApart, DriversApart
    <3>2. CASE next = "DRIVER_ASSIGNED"
      <4>1. trip[t].status = "REQUESTED"
        BY <2>3, <3>2, AdmittedFacts
      <4>2. trip'[t].driver = None
        BY <1>0, <2>4, <4>1 DEF RowsApart, UnacceptedHaveNoDriver
      <4> QED
        BY <1>0, <2>4, <4>2 DEF RowsApart, DriversApart
    <3>3. CASE next \notin DriverActive
      BY <1>0, <2>4, <3>3 DEF RowsApart, DriversApart
    <3> QED
      BY <3>1, <3>2, <3>3
  <2>6. RidersApart'
    <3>1. trip[t].status \in RiderActive
      BY <2>3, AdmittedFacts
    <3> QED
      BY <1>0, <2>4, <3>1 DEF RowsApart, RidersApart
  <2>7. UnacceptedHaveNoDriver'
    <3>1. /\ next \notin {"NONE", "REQUESTED"}
          /\ next = "DRIVER_ASSIGNED" => trip[t].status = "REQUESTED"
      BY <2>3, AdmittedFacts
    <3> QED
      BY <1>0, <2>4, <3>1 DEF RowsApart, UnacceptedHaveNoDriver
  <2> QED
    BY <1>0, <1>2, <2>3, <2>5, <2>6, <2>7, ReadsOfEnd DEF RowsApart
<1>11. CASE AcceptRead(r)
  <2>1. rpc[r] = "acceptRead" /\ trip' = trip
    BY <1>11 DEF AcceptRead, rows
  <2>2. RowsApart'
    BY <1>0, <2>1, ApartQuiet
  <2>3. CASE End(r)
    BY <1>0, <1>2, <2>2, <2>3, ReadsOfEnd
  <2>4. CASE trip[req[r].trip].status = "REQUESTED" /\ Goto(r, "acceptWrite")
    <3>1. rpc'[r] = "acceptWrite" /\ req'[r] = req[r]
      BY <1>3, <2>4
    <3>2. \A u \in TripIds : ~(/\ trip[u].driver = req[r].driver
                               /\ trip[u].status \in DriverActive)
      BY <1>0, <2>1 DEF ReadsStand
    <3>3. ReadsStand(r)'
      BY <2>1, <2>4, <3>1, <3>2 DEF ReadsStand
    <3> QED
      BY <1>1, <1>2, <2>2, <3>3
  <2> QED
    BY <1>11, <2>3, <2>4 DEF AcceptRead
<1>12. CASE AcceptWrite(r)
  <2>1. PICK t \in TripIds : t = req[r].trip
    BY <1>0, <1>12, AtWork DEF AcceptWrite
  <2>2. PICK d : d = req[r].driver
    OBVIOUS
  <2>3. /\ \A u \in TripIds : ~(/\ trip[u].driver = d
                                /\ trip[u].status \in DriverActive)
        /\ trip[t].status = "REQUESTED" /\ End(r)
        /\ trip' = [trip EXCEPT ![t].driver = d,
                                ![t].status = "DRIVER_ARRIVING",
                                ![t].pin = TRUE]
    BY <1>0, <1>12, <2>1, <2>2 DEF AcceptWrite, ReadsStand
  <2>4. /\ trip'[t].status = "DRIVER_ARRIVING" /\ trip'[t].driver = d
        /\ trip'[t].rider = trip[t].rider
        /\ \A u \in TripIds \ {t} : trip'[u] = trip[u]
    BY <1>0, <2>3 DEF RowsOK, Rows
  <2>5. DriversApart'
    <3>1. \A u \in TripIds \ {t} : ~(/\ trip'[u].driver = d
                                    /\ trip'[u].status \in DriverActive)
      BY <2>3, <2>4
    <3>2. ASSUME NEW u \in TripIds, NEW v \in TripIds,
                 trip'[u].driver # None, trip'[u].driver = trip'[v].driver,
                 trip'[u].status \in DriverActive,
                 trip'[v].status \in DriverActive, u # v
          PROVE  FALSE
      <4>1. CASE u = t \/ v = t
        BY <2>4, <3>1, <3>2, <4>1
      <4>2. CASE u # t /\ v # t
        BY <1>0, <2>4, <3>2, <4>2 DEF RowsApart, DriversApart
      <4> QED
        BY <4>1, <4>2
    <3> QED
      BY <3>2 DEF DriversApart
  <2>6. RidersApart'
    <3>1. trip[t].status \in RiderActive
      BY <2>3 DEF RiderActive
    <3> QED
      BY <1>0, <2>4, <3>1 DEF RowsApart, RidersApart
  <2>7. UnacceptedHaveNoDriver'
    BY <1>0, <2>4 DEF RowsApart, UnacceptedHaveNoDriver
  <2> QED
    BY <1>0, <1>2, <2>3, <2>5, <2>6, <2>7, ReadsOfEnd DEF RowsApart
<1>13. CASE TakeTrip(r) \/ RefuseTrip(r) \/ TellDispatch(r)
  BY <1>0, <1>13 DEF TakeTrip, RefuseTrip, TellDispatch, ReadsStand
<1> QED
  BY <1>4, <1>5, <1>6, <1>7, <1>8, <1>9, <1>10, <1>11, <1>12, <1>13
     DEF RequestStep

LEMMA SerialNext ==
  ASSUME Alone, Dispatchers = {}, TypeOK, overrides = 0 => SerialInv,
         [Next]_vars
  PROVE  overrides' = 0 => SerialInv'
<1>1. ASSUME SerialInv, UNCHANGED <<trip, rpc, req>>
      PROVE  SerialInv'
  <2>1. RowsApart'
    BY <1>1, ApartQuiet DEF SerialInv, RowsApart
  <2>2. ASSUME NEW r \in Requests PROVE ReadsStand(r)'
    BY <1>1 DEF SerialInv, ReadsStand, MayBook
  <2> QED
    BY <1>1, <2>1, <2>2 DEF SerialInv, RowsApart
<1>2. ASSUME SerialInv, trip' = trip, NEW r \in Requests, rpc'[r] = "idle"
      PROVE  SerialInv'
  <2>1. RowsApart'
    BY <1>2, ApartQuiet DEF SerialInv, RowsApart
  <2>2. ReadsStand(r)'
    BY <1>2 DEF ReadsStand
  <2> QED
    BY <2>1, <2>2 DEF SerialInv, RowsApart, Alone
<1>3. CASE \E r \in Requests : StartRequest(r) \/ RequestStep(r)
  <2>1. ASSUME NEW r \in Requests, StartRequest(r)
        PROVE  UNCHANGED overrides
    BY <2>1 DEF StartRequest, Book, Transition, DriverAccept, AnswerDispatch,
                bounds
  <2>2. ASSUME NEW r \in Requests, RequestStep(r)
        PROVE  UNCHANGED overrides
    <3>1. CASE ReadQuote(r) \/ ExpireQuote(r) \/ CreateTrip(r)
      BY <3>1 DEF ReadQuote, ExpireQuote, CreateTrip, bounds
    <3>2. CASE CheckPin(r) \/ ExpirePin(r) \/ CountWrongPin(r) \/ ClearPin(r)
      BY <3>2 DEF CheckPin, ExpirePin, CountWrongPin, ClearPin, bounds
    <3>3. CASE WriteTransition(r) \/ AcceptRead(r) \/ AcceptWrite(r)
      BY <3>3 DEF WriteTransition, AcceptRead, AcceptWrite, bounds
    <3>4. CASE TakeTrip(r) \/ RefuseTrip(r) \/ TellDispatch(r)
      BY <3>4 DEF TakeTrip, RefuseTrip, TellDispatch, bounds
    <3> QED
      BY <2>2, <3>1, <3>2, <3>3, <3>4 DEF RequestStep
  <2> QED
    BY <1>3, <2>1, <2>2, SerialStart, SerialStep
<1>4. ASSUME NEW r \in Requests, RequestThrows(r)
      PROVE  overrides' = 0 => SerialInv'
  <2>1. UNCHANGED <<trip, overrides>> /\ End(r)
    BY <1>4 DEF RequestThrows, rows
  <2>2. rpc'[r] = "idle"
    BY <2>1 DEF End, TypeOK, RequestsOK
  <2> QED
    BY <1>2, <2>1, <2>2
<1>5. CASE ProcessCrash
  <2>1. /\ UNCHANGED <<trip, overrides>>
        /\ \A r \in Requests : rpc'[r] = "idle"
    BY <1>5 DEF ProcessCrash, rows
  <2>2. CASE Requests = {}
    BY <2>1, <2>2, ApartQuiet DEF SerialInv, RowsApart
  <2>3. CASE Requests # {}
    BY <1>2, <2>1, <2>3
  <2> QED
    BY <2>2, <2>3
<1>6. CASE \E t \in TripIds, d \in Drivers : DispatchTask(t, d)
  BY <1>6 DEF DispatchTask, TypeOK
<1>7. CASE \/ \E t \in TripIds : LockLapses(t)
           \/ \E d \in Drivers : GoOnline(d)
           \/ UNCHANGED vars
  BY <1>1, <1>7 DEF LockLapses, GoOnline, vars, rows, requestVars, bounds
<1> QED
  BY <1>3, <1>4, <1>5, <1>6, <1>7 DEF Next

(* At most one, stated with the members and with the cardinality.          *)
LEMMA AtMostOne ==
  ASSUME NEW S, \A x, y \in S : x = y
  PROVE  Cardinality(S) <= 1
<1>1. CASE S = {}
  BY <1>1, FS_EmptySet
<1>2. CASE S # {}
  <2>1. PICK x \in S : S = {x}
    BY <1>2
  <2> QED
    BY <2>1, FS_Singleton
<1> QED
  BY <1>1, <1>2

LEMMA SerialInit == Init => SerialInv
BY DEF Init, SerialInv, DriversApart, RidersApart, UnacceptedHaveNoDriver,
       ReadsStand, DriverActive, RiderActive

LEMMA SerialInvariance ==
  ASSUME Alone, Dispatchers = {}
  PROVE  Spec => [](overrides = 0 => SerialInv)
<1> DEFINE Serial == overrides = 0 => SerialInv
<1>1. Init => Serial
  BY SerialInit
<1>2. TypeOK /\ Serial /\ [Next]_vars => Serial'
  BY SerialNext
<1> HIDE DEF Serial
<1>3. Spec => []Serial
  BY <1>1, <1>2, TypeInvariant, PTL DEF Spec
<1> QED
  BY <1>3 DEF Serial

(* As long as requests do not overlap, nobody dispatches and no admin      *)
(* assigns a driver, a driver is on one trip at a time, whatever throws    *)
(* and however often the process dies: driverAcceptTrip looks at all the   *)
(* driver's trips, and no other operation gives a trip a driver.           *)
THEOREM DriversHaveOneTrip ==
  ASSUME \A q, r \in Requests : q = r, Dispatchers = {}
  PROVE  Spec => [](overrides = 0 => OneTripPerDriver)
<1> DEFINE Serial == overrides = 0 => SerialInv
           Goal == overrides = 0 => OneTripPerDriver
<1>1. Spec => []Serial
  BY SerialInvariance DEF Alone
<1>2. SerialInv => OneTripPerDriver
  <2> SUFFICES ASSUME SerialInv, NEW d \in Drivers
               PROVE  Cardinality({t \in TripIds :
                        /\ trip[t].driver = d
                        /\ trip[t].status \in DriverActive}) <= 1
    BY DEF OneTripPerDriver
  <2>1. d # None
    BY TripsAssumption
  <2> QED
    BY <2>1, AtMostOne DEF SerialInv, DriversApart
<1>3. Serial => Goal
  BY <1>2
<1> HIDE DEF Serial, Goal
<1>4. Spec => []Goal
  BY <1>1, <1>3, PTL
<1> QED
  BY <1>4 DEF Goal
-----------------------------------------------------------------------------
(* Shipments, which travel on trips of their own: shipTrip is the row that *)
(* Shipments models of one, and plan[r] what request r still has to do.    *)
USE ShipmentsAssumption

Names(p) == p[1][1]

(* What there is to know of a plan that is not over: it goes on with a     *)
(* plan, its steps name what they should, and which step comes after which.*)
NextFacts(p, q) ==
  /\ Names(p) \in {"price", "accept", "generate", "store", "take", "depart",
                   "admit", "trip", "spend", "proven", "pin"}
  /\ Names(q) \notin {"accept", "resolve"}
  /\ Names(q) = "both" => q[1] = <<"both", "QUOTED", "QUOTED">>
  /\ Names(q) = "deliver" => p[1] = <<"trip", "COMPLETED">>
  /\ Delivers(q) => Delivers(p) /\ Names(q) # "proven"
  /\ Names(q) \in {"both", "ship"} =>
       q[1][2] \in {"QUOTED", "DRIVER_ASSIGNED", "PICKUP_ARRIVED"}
  /\ Names(q) = "verified" => p[1] = <<"spend", q[1][2]>>

StepFacts(p) ==
  /\ Names(p) = "both" => /\ p[1][2] \in ShipmentStatus
                          /\ p[1][3] \in ShipTripStatus
  /\ Names(p) = "ship" => p[1][2] \in ShipmentStatus \ Ended
  /\ Names(p) = "trip" => p[1][2] \in ShipTripStatus
  /\ Names(p) \in {"generate", "store", "verify", "spend", "verified", "count"}
       => p[1][2] \in OtpTypes
  /\ Names(p) = "count" => p[1][3] \in 1..OTP_MAX_ATTEMPTS

PlanFacts(p) ==
  /\ Len(p) \in 1..5
  /\ \A i \in 1..Len(p) : p[i] \in Steps
  /\ Tail(p) \in Plans
  /\ StepFacts(p)
  /\ Tail(p) # <<>> => NextFacts(p, Tail(p))

LEMMA StatusFacts ==
  /\ {"DRAFT", "QUOTED", "REQUESTED", "DRIVER_ASSIGNED", "PICKUP_ARRIVED",
      "PICKUP_VERIFIED", "IN_TRANSIT", "DELIVERY_ARRIVED", "DELIVERY_VERIFIED",
      "DELIVERED", "CANCELLED", "DISPUTED", "EXPIRED"} = ShipmentStatus
  /\ {"DRAFT", "QUOTED", "REQUESTED", "DRIVER_ASSIGNED", "DRIVER_ARRIVING",
      "DRIVER_ARRIVED", "PIN_VERIFIED", "IN_PROGRESS", "COMPLETED",
      "CANCELLED_BY_RIDER", "CANCELLED_BY_DRIVER", "EXPIRED", "DISPUTED",
      "NONE"} = ShipTripStatus
BY DEF ShipmentStatus, ShipTripStatus, Allowed, TripAllowed

LEMMA AcceptPlan ==
  LET g1 == <<"generate", "PICKUP">>
      s1 == <<"store", "PICKUP">>
      g2 == <<"generate", "DELIVERY">>
      s2 == <<"store", "DELIVERY">>
  IN  /\ PlanFacts(<<<<"accept">>, g1, s1, g2, s2>>)
      /\ PlanFacts(<<g1, s1, g2, s2>>)
      /\ PlanFacts(<<s1, g2, s2>>)
      /\ PlanFacts(<<g2, s2>>)
      /\ PlanFacts(<<s2>>)
<1> DEFINE g1 == <<"generate", "PICKUP">>
           s1 == <<"store", "PICKUP">>
           g2 == <<"generate", "DELIVERY">>
           s2 == <<"store", "DELIVERY">>
<1> USE DEF PlanFacts, StepFacts, NextFacts, Delivers, Names, Plans, Steps, OtpTypes
<1>1. PlanFacts(<<<<"accept">>, g1, s1, g2, s2>>)
  OBVIOUS
<1>2. PlanFacts(<<g1, s1, g2, s2>>)
  OBVIOUS
<1>3. PlanFacts(<<s1, g2, s2>>)
  OBVIOUS
<1>4. PlanFacts(<<g2, s2>>)
  OBVIOUS
<1>5. PlanFacts(<<s2>>)
  OBVIOUS
<1> HIDE DEF PlanFacts
<1> QED
  BY <1>1, <1>2, <1>3, <1>4, <1>5

LEMMA BothPlan ==
  /\ PlanFacts(<<<<"price">>, <<"both", "QUOTED", "QUOTED">>>>)
  /\ \A s \in ShipmentStatus, t \in ShipTripStatus :
       PlanFacts(<<<<"both", s, t>>>>)
BY StatusFacts DEF PlanFacts, StepFacts, NextFacts, Delivers, Names, Plans, Steps

LEMMA TakePlan ==
  /\ PlanFacts(<<<<"take">>, <<"depart">>, <<"ship", "DRIVER_ASSIGNED">>>>)
  /\ PlanFacts(<<<<"depart">>, <<"ship", "DRIVER_ASSIGNED">>>>)
  /\ PlanFacts(<<<<"depart">>>>)
BY StatusFacts
DEF PlanFacts, StepFacts, NextFacts, Delivers, Names, Plans, Steps, Ended

LEMMA ShipPlan ==
  /\ \A s \in ShipmentStatus \ Ended : PlanFacts(<<<<"ship", s>>>>)
  /\ \A t \in ShipTripStatus : PlanFacts(<<<<"trip", t>>>>)
  /\ PlanFacts(<<<<"pin">>, <<"trip", "PIN_VERIFIED">>>>)
  /\ PlanFacts(<<<<"prove">>>>)
  /\ PlanFacts(<<<<"resolve">>>>)
<1> USE DEF PlanFacts, StepFacts, NextFacts, Delivers, Names, Plans, Steps
<1>1. ASSUME NEW s \in ShipmentStatus \ Ended PROVE PlanFacts(<<<<"ship", s>>>>)
  BY <1>1
<1>2. ASSUME NEW t \in ShipTripStatus PROVE PlanFacts(<<<<"trip", t>>>>)
  BY <1>2
<1>3. PlanFacts(<<<<"pin">>, <<"trip", "PIN_VERIFIED">>>>)
  BY StatusFacts
<1>4. PlanFacts(<<<<"prove">>>>) /\ PlanFacts(<<<<"resolve">>>>)
  OBVIOUS
<1> HIDE DEF PlanFacts
<1> QED
  BY <1>1, <1>2, <1>3, <1>4

LEMMA ArrivePlan ==
  /\ PlanFacts(<<<<"admit", "DRIVER_ARRIVED">>, <<"trip", "DRIVER_ARRIVED">>,
                 <<"ship", "PICKUP_ARRIVED">>>>)
  /\ PlanFacts(<<<<"trip", "DRIVER_ARRIVED">>, <<"ship", "PICKUP_ARRIVED">>>>)
BY StatusFacts
DEF PlanFacts, StepFacts, NextFacts, Delivers, Names, Plans, Steps, Ended

LEMMA CompletePlan ==
  LET a == <<"admit", "COMPLETED">>
      t == <<"trip", "COMPLETED">>
      d == <<"deliver">>
  IN  /\ PlanFacts(<<<<"proven">>, a, t, d>>)
      /\ PlanFacts(<<a, t, d>>)
      /\ PlanFacts(<<t, d>>)
      /\ PlanFacts(<<d>>)
<1> DEFINE a == <<"admit", "COMPLETED">>
           t == <<"trip", "COMPLETED">>
           d == <<"deliver">>
<1> USE DEF PlanFacts, StepFacts, NextFacts, Delivers, Names, Plans, Steps
<1>1. PlanFacts(<<<<"proven">>, a, t, d>>)
  BY StatusFacts
<1>2. PlanFacts(<<a, t, d>>)
  BY StatusFacts
<1>3. PlanFacts(<<t, d>>)
  BY StatusFacts
<1>4. PlanFacts(<<d>>)
  OBVIOUS
<1> HIDE DEF PlanFacts
<1> QED
  BY <1>1, <1>2, <1>3, <1>4

LEMMA CodePlan ==
  ASSUME NEW k \in OtpTypes
  PROVE  /\ PlanFacts(<<<<"verify", k>>>>)
         /\ PlanFacts(<<<<"spend", k>>, <<"verified", k>>>>)
         /\ PlanFacts(<<<<"verified", k>>>>)
         /\ \A n \in 1..OTP_MAX_ATTEMPTS : PlanFacts(<<<<"count", k, n>>>>)
<1>1. PlanFacts(<<<<"verify", k>>>>)
  BY DEF PlanFacts, StepFacts, NextFacts, Delivers, Names, Plans, Steps
<1>2. PlanFacts(<<<<"spend", k>>, <<"verified", k>>>>)
  BY DEF PlanFacts, StepFacts, NextFacts, Delivers, Names, Plans, Steps
<1>3. PlanFacts(<<<<"verified", k>>>>)
  BY DEF PlanFacts, StepFacts, NextFacts, Delivers, Names, Plans, Steps
<1>4. ASSUME NEW n \in 1..OTP_MAX_ATTEMPTS
      PROVE  PlanFacts(<<<<"count", k, n>>>>)
  <2> DEFINE p == <<<<"count", k, n>>>>
  <2>1. /\ Len(p) = 1 /\ p[1] = <<"count", k, n>> /\ Tail(p) = <<>>
        /\ p[1][1] = "count" /\ p[1][2] = k /\ p[1][3] = n
    OBVIOUS
  <2>2. <<"count", k, n>> \in Steps /\ <<>> \in Plans
    BY DEF Steps, Plans
  <2> HIDE DEF p
  <2> QED
    BY <2>1, <2>2 DEF PlanFacts, StepFacts, Names, p
<1> QED
  BY <1>1, <1>2, <1>3, <1>4

LEMMA PlansGoOn ==
  ASSUME NEW p \in Plans, p # <<>>
  PROVE  PlanFacts(p)
<1>1. ASSUME NEW s \in ShipmentStatus, NEW t \in ShipTripStatus,
             p = <<<<"both", s, t>>>>
      PROVE  PlanFacts(p)
  BY <1>1, BothPlan
<1>2. ASSUME NEW s \in ShipmentStatus \ Ended, p = <<<<"ship", s>>>>
      PROVE  PlanFacts(p)
  BY <1>2, ShipPlan
<1>3. ASSUME NEW t \in ShipTripStatus, p = <<<<"trip", t>>>>
      PROVE  PlanFacts(p)
  BY <1>3, ShipPlan
<1>4. ASSUME NEW k \in OtpTypes,
             \/ p = <<<<"verify", k>>>>
             \/ p = <<<<"spend", k>>, <<"verified", k>>>>
             \/ p = <<<<"verified", k>>>>
             \/ \E n \in 1..OTP_MAX_ATTEMPTS : p = <<<<"count", k, n>>>>
      PROVE  PlanFacts(p)
  BY <1>4, CodePlan
<1>5. ASSUME p \in {<<<<"price">>, <<"both", "QUOTED", "QUOTED">>>>,
                    <<<<"take">>, <<"depart">>, <<"ship", "DRIVER_ASSIGNED">>>>,
                    <<<<"depart">>, <<"ship", "DRIVER_ASSIGNED">>>>,
                    <<<<"depart">>>>, <<<<"prove">>>>, <<<<"resolve">>>>,
                    <<<<"pin">>, <<"trip", "PIN_VERIFIED">>>>}
      PROVE  PlanFacts(p)
  BY <1>5, BothPlan, TakePlan, ShipPlan
<1>6. ASSUME p \in {<<<<"accept">>, <<"generate", "PICKUP">>,
                      <<"store", "PICKUP">>, <<"generate", "DELIVERY">>,
                      <<"store", "DELIVERY">>>>,
                    <<<<"generate", "PICKUP">>, <<"store", "PICKUP">>,
                      <<"generate", "DELIVERY">>, <<"store", "DELIVERY">>>>,
                    <<<<"store", "PICKUP">>, <<"generate", "DELIVERY">>,
                      <<"store", "DELIVERY">>>>,
                    <<<<"generate", "DELIVERY">>, <<"store", "DELIVERY">>>>,
                    <<<<"store", "DELIVERY">>>>}
      PROVE  PlanFacts(p)
  BY <1>6, AcceptPlan
<1>7. ASSUME p \in {<<<<"admit", "DRIVER_ARRIVED">>,
                      <<"trip", "DRIVER_ARRIVED">>, <<"ship", "PICKUP_ARRIVED">>>>,
                    <<<<"trip", "DRIVER_ARRIVED">>,
                      <<"ship", "PICKUP_ARRIVED">>>>,
                    <<<<"proven">>, <<"admit", "COMPLETED">>,
                      <<"trip", "COMPLETED">>, <<"deliver">>>>,
                    <<<<"admit", "COMPLETED">>, <<"trip", "COMPLETED">>,
                      <<"deliver">>>>,
                    <<<<"trip", "COMPLETED">>, <<"deliver">>>>,
                    <<<<"deliver">>>>}
      PROVE  PlanFacts(p)
  BY <1>7, ArrivePlan, CompletePlan
<1> HIDE DEF PlanFacts
<1> QED
  BY <1>1, <1>2, <1>3, <1>4, <1>5, <1>6, <1>7 DEF Plans
-----------------------------------------------------------------------------
(* The rows, their types, and what a request's next step rests on.         *)
ShipRowsOK ==
  /\ ship \in [status : ShipmentStatus \cup {"NONE"}, assigned : BOOLEAN,
               pickupVerified : BOOLEAN, deliveryVerified : BOOLEAN,
               delivered : BOOLEAN,
                 forced : SUBSET OtpTypes]
  /\ shipTrip \in [status : ShipTripStatus, pin : BOOLEAN]
  /\ shipQuote \in {"none", "open", "expired", "accepted"}
  /\ code \in [OtpTypes ->
                 [state : {"none", "open", "expired", "used"},
                  attempts : 0..OTP_MAX_ATTEMPTS, known : BOOLEAN,
                  tries : Nat]]
  /\ proof \in BOOLEAN /\ spent \subseteq OtpTypes

ShipBoundsOK == upsets \in 0..MaxShipUpsets /\ overlaps \in 0..MaxOverlaps

StandsFor(p) ==
  /\ Names(p) # "accept" => ship.status # "DELIVERED"
  /\ Names(p) \notin {"accept", "both", "resolve"} => ship.status \notin Ended
  /\ Names(p) = "both" => Together(p[1][2], p[1][3])
  /\ Names(p) = "deliver" => shipTrip.status = "COMPLETED"

TogetherNow == Together(ship.status, shipTrip.status)

LEMMA AtIs ==
  ASSUME NEW r \in ShipRequests
  PROVE  /\ \A n : At(r, n) <=> plan[r] # <<>> /\ Names(plan[r]) = n
         /\ plan[r] # <<>> => (Stands(r) <=> StandsFor(plan[r]))
BY DEF At, Names, Stands, StandsFor

(* What the invariant says, and what it takes to keep it.                  *)
LEMMA InvGives ==
  ASSUME ShipIInv
  PROVE  /\ ShipRowsOK /\ ShipBoundsOK
         /\ plan \in [ShipRequests -> Plans]
         /\ MarkedByCode
         /\ \A r \in ShipRequests :
              plan[r] # <<>> /\ Names(plan[r]) = "verified" =>
                plan[r][1][2] \in spent
         /\ overlaps = 0 =>
              /\ TogetherNow
              /\ \A q, r \in ShipRequests :
                   plan[q] # <<>> /\ plan[r] # <<>> => q = r
              /\ \A r \in ShipRequests : plan[r] # <<>> => StandsFor(plan[r])
<1>1. ShipRowsOK /\ ShipBoundsOK /\ plan \in [ShipRequests -> Plans]
  BY DEF ShipIInv, ShipTypeOK, PlansOK, ShipRowsOK, ShipBoundsOK
<1>2. MarkedByCode /\ MarksAreEarned
  BY DEF ShipIInv
<1>3. \A r \in ShipRequests :
        plan[r] # <<>> /\ Names(plan[r]) = "verified" => plan[r][1][2] \in spent
  BY <1>2, AtIs DEF MarksAreEarned, Arg
<1>4. overlaps = 0 =>
        /\ TogetherNow
        /\ \A q, r \in ShipRequests : plan[q] # <<>> /\ plan[r] # <<>> => q = r
        /\ \A r \in ShipRequests : plan[r] # <<>> => StandsFor(plan[r])
  BY AtIs
  DEF ShipIInv, EndedTogether, TogetherNow, ShipSerialInv, OneAtATime
<1> QED
  BY <1>1, <1>2, <1>3, <1>4

LEMMA InvTakes ==
  ASSUME ShipRowsOK', ShipBoundsOK', plan' \in [ShipRequests -> Plans],
         MarkedByCode',
         \A r \in ShipRequests :
           plan'[r] # <<>> /\ Names(plan'[r]) = "verified" =>
             plan'[r][1][2] \in spent',
         overlaps' = 0 =>
           /\ TogetherNow'
           /\ \A q, r \in ShipRequests :
                plan'[q] # <<>> /\ plan'[r] # <<>> => q = r
           /\ \A r \in ShipRequests : plan'[r] # <<>> => StandsFor(plan[r])'
  PROVE  ShipIInv'
<1>1. \A r \in ShipRequests :
        /\ Len(plan'[r]) <= 5
        /\ \A i \in 1..Len(plan'[r]) : plan'[r][i] \in Steps
  <2> SUFFICES ASSUME NEW r \in ShipRequests
               PROVE  /\ Len(plan'[r]) <= 5
                      /\ \A i \in 1..Len(plan'[r]) : plan'[r][i] \in Steps
    OBVIOUS
  <2>1. PICK p \in Plans : p = plan'[r]
    OBVIOUS
  <2>2. Len(p) <= 5 /\ \A i \in 1..Len(p) : p[i] \in Steps
    <3>1. CASE p = <<>>
      BY <3>1
    <3>2. CASE p # <<>>
      BY <3>2, PlansGoOn DEF PlanFacts
    <3> QED
      BY <3>1, <3>2
  <2> QED
    BY <2>1, <2>2
<1>2. ShipTypeOK' /\ PlansOK'
  BY <1>1 DEF ShipRowsOK, ShipBoundsOK, ShipTypeOK, PlansOK
<1>3. MarksAreEarned'
  BY DEF MarksAreEarned, At, Arg, Names
<1>4. EndedTogether' /\ ShipSerialInv'
  BY DEF EndedTogether, ShipSerialInv, TogetherNow, OneAtATime,
         Stands, At, StandsFor, Names
<1> QED
  BY <1>2, <1>3, <1>4 DEF ShipIInv

(* A request's step: only its own plan changes.                            *)
LEMMA OneMoves ==
  ASSUME ShipIInv, NEW r \in ShipRequests, NEW p \in Plans,
         plan' = [plan EXCEPT ![r] = p],
         ShipRowsOK', ShipBoundsOK', spent \subseteq spent',
         MarkedByCode',
         p # <<>> /\ Names(p) = "verified" => p[1][2] \in spent',
         overlaps' = 0 =>
           /\ \A q \in ShipRequests \ {r} : plan[q] = <<>>
           /\ TogetherNow'
           /\ p # <<>> => StandsFor(p)'
  PROVE  ShipIInv'
<1>1. /\ plan \in [ShipRequests -> Plans]
      /\ \A q \in ShipRequests :
           plan[q] # <<>> /\ Names(plan[q]) = "verified" => plan[q][1][2] \in spent
  BY InvGives
<1>2. /\ plan' \in [ShipRequests -> Plans] /\ plan'[r] = p
      /\ \A q \in ShipRequests \ {r} : plan'[q] = plan[q]
  BY <1>1
<1>3. \A q \in ShipRequests :
        plan'[q] # <<>> /\ Names(plan'[q]) = "verified" => plan'[q][1][2] \in spent'
  BY <1>1, <1>2
<1>4. ASSUME overlaps' = 0
      PROVE  /\ TogetherNow'
             /\ \A q, s \in ShipRequests :
                  plan'[q] # <<>> /\ plan'[s] # <<>> => q = s
             /\ \A q \in ShipRequests : plan'[q] # <<>> => StandsFor(plan[q])'
  <2>1. \A q \in ShipRequests : plan'[q] # <<>> => q = r
    BY <1>2, <1>4
  <2>2. p # <<>> => StandsFor(plan[r])'
    BY <1>2, <1>4 DEF StandsFor
  <2> QED
    BY <1>2, <1>4, <2>1, <2>2
<1> QED
  BY <1>2, <1>3, <1>4, InvTakes

(* A request begins; then nobody else is at work, or requests overlap.     *)
LEMMA RequestBegins ==
  ASSUME ShipIInv, NEW r \in ShipRequests, NEW p \in Plans, Start(r, p)
  PROVE  /\ plan' = [plan EXCEPT ![r] = p]
         /\ overlaps' \in 0..MaxOverlaps
         /\ overlaps' = 0 => /\ \A q \in ShipRequests : plan[q] = <<>>
                             /\ overlaps = 0 /\ TogetherNow
<1>1. overlaps \in 0..MaxOverlaps /\ (overlaps = 0 => TogetherNow)
  BY InvGives DEF ShipBoundsOK
<1>2. CASE \A q \in ShipRequests : plan[q] = <<>>
  BY <1>1, <1>2 DEF Start
<1>3. CASE ~\A q \in ShipRequests : plan[q] = <<>>
  <2>1. overlaps' = overlaps + 1 /\ overlaps' <= MaxOverlaps
    BY <1>3 DEF Start
  <2> QED
    BY <1>1, <2>1 DEF Start
<1> QED
  BY <1>2, <1>3

(* Most requests only look at first.                                       *)
LEMMA LookingKeeps ==
  ASSUME ShipIInv, NEW r \in ShipRequests, NEW p \in Plans, Start(r, p),
         upsets' \in 0..MaxShipUpsets, UNCHANGED shipRows,
         p # <<>> => Names(p) # "verified",
         p # <<>> /\ TogetherNow => StandsFor(p)
  PROVE  ShipIInv'
<1>1. /\ plan' = [plan EXCEPT ![r] = p]
      /\ overlaps' \in 0..MaxOverlaps
      /\ overlaps' = 0 => /\ \A q \in ShipRequests : plan[q] = <<>>
                          /\ overlaps = 0 /\ TogetherNow
  BY RequestBegins
<1>2. /\ ship' = ship /\ shipTrip' = shipTrip /\ shipQuote' = shipQuote
      /\ code' = code /\ proof' = proof /\ spent' = spent
  BY DEF shipRows
<1>3. ShipRowsOK' /\ ShipBoundsOK' /\ MarkedByCode'
  BY <1>1, <1>2, InvGives DEF ShipRowsOK, ShipBoundsOK, MarkedByCode
<1>4. (TogetherNow => TogetherNow') /\ (StandsFor(p) => StandsFor(p)')
  BY <1>2 DEF TogetherNow, StandsFor
<1> QED
  BY <1>1, <1>2, <1>3, <1>4, OneMoves

(* A request at work: its plan, and what it may rely on.                   *)
LEMMA RequestAtWork ==
  ASSUME ShipIInv, NEW r \in ShipRequests, plan[r] # <<>>
  PROVE  /\ plan[r] \in Plans /\ PlanFacts(plan[r])
         /\ overlaps = 0 => /\ TogetherNow /\ StandsFor(plan[r])
                            /\ \A q \in ShipRequests \ {r} : plan[q] = <<>>
BY InvGives, PlansGoOn

(* What stands for one step stands for the next, if the rows stay.         *)
LEMMA NextStands ==
  ASSUME NEW p, PlanFacts(p), Tail(p) # <<>>, StandsFor(p),
         ship'.status = ship.status, shipTrip' = shipTrip,
         Names(p) \notin {"accept", "trip"}
  PROVE  StandsFor(Tail(p))'
<1>1. NextFacts(p, Tail(p))
  BY DEF PlanFacts
<1>2. ship.status \notin Ended
  BY <1>1 DEF NextFacts, StandsFor
<1>3. PICK q : q = Tail(p)
  OBVIOUS
<1>4. Names(q) = "both" => Together(q[1][2], q[1][3])
  BY <1>1, <1>3 DEF NextFacts, Together
<1>5. Names(q) # "deliver"
  BY <1>1, <1>3 DEF NextFacts, Names
<1>6. ship.status # "DELIVERED"
  BY <1>2 DEF Ended
<1>7. StandsFor(q)'
  BY <1>2, <1>4, <1>5, <1>6 DEF StandsFor, Ended
<1> QED
  BY <1>3, <1>7
-----------------------------------------------------------------------------
LEMMA GoesOn ==
  ASSUME ShipIInv, NEW r \in ShipRequests, NEW p, p = plan[r], p # <<>>,
         GoOn(r), ShipRowsOK', spent \subseteq spent', MarkedByCode',
         Tail(p) # <<>> /\ Names(Tail(p)) = "verified" => Tail(p)[1][2] \in spent',
         overlaps = 0 => /\ TogetherNow'
                         /\ Tail(p) # <<>> => StandsFor(Tail(p))'
  PROVE  ShipIInv'
<1>1. PICK q : q = Tail(p)
  OBVIOUS
<1>2. PlanFacts(p)
  BY RequestAtWork
<1>3. q \in Plans
  BY <1>1, <1>2 DEF PlanFacts
<1>4. /\ plan' = [plan EXCEPT ![r] = q]
      /\ upsets' = upsets /\ overlaps' = overlaps
  BY <1>1 DEF GoOn, Instead
<1>5. ShipBoundsOK'
  BY <1>4, InvGives DEF ShipBoundsOK
<1>6. overlaps = 0 => \A s \in ShipRequests \ {r} : plan[s] = <<>>
  BY RequestAtWork
<1>7. overlaps = 0 => TogetherNow' /\ (q # <<>> => StandsFor(q)')
  BY <1>1
<1>8. q # <<>> /\ Names(q) = "verified" => q[1][2] \in spent'
  BY <1>1
<1> QED
  BY <1>3, <1>4, <1>5, <1>6, <1>7, <1>8, OneMoves

LEMMA RowsKept ==
  ASSUME ShipIInv, UNCHANGED shipRows
  PROVE  /\ ShipRowsOK' /\ MarkedByCode' /\ spent \subseteq spent'
         /\ ship' = ship /\ shipTrip' = shipTrip
         /\ overlaps = 0 => TogetherNow'
<1>1. /\ ship' = ship /\ shipTrip' = shipTrip /\ shipQuote' = shipQuote
      /\ code' = code /\ proof' = proof /\ spent' = spent
  BY DEF shipRows
<1> QED
  BY <1>1, InvGives DEF ShipRowsOK, MarkedByCode, TogetherNow

LEMMA GivesUp ==
  ASSUME ShipIInv, NEW r \in ShipRequests, plan' = [plan EXCEPT ![r] = <<>>],
         plan[r] # <<>>, UNCHANGED shipRows, overlaps' = overlaps, ShipBoundsOK'
  PROVE  ShipIInv'
<1>1. <<>> \in Plans
  BY DEF Plans
<1>2. overlaps = 0 => \A q \in ShipRequests \ {r} : plan[q] = <<>>
  BY RequestAtWork
<1>3. PICK p : p = <<>>
  OBVIOUS
<1> QED
  BY <1>1, <1>2, <1>3, RowsKept, OneMoves

(* A request looks once more and goes on with what it has seen.            *)
LEMMA ReadsOn ==
  ASSUME ShipIInv, NEW r \in ShipRequests, plan[r] # <<>>, GoOn(r),
         Names(plan[r]) \notin {"accept", "trip", "spend"}, UNCHANGED shipRows
  PROVE  ShipIInv'
<1>1. PICK p : p = plan[r]
  OBVIOUS
<1>2. PlanFacts(p) /\ (overlaps = 0 => StandsFor(p))
  BY <1>1, RequestAtWork
<1>3. Tail(p) # <<>> => Names(Tail(p)) # "verified"
  BY <1>1, <1>2 DEF PlanFacts, NextFacts, Names
<1>4. /\ ShipRowsOK' /\ MarkedByCode' /\ spent \subseteq spent'
      /\ ship' = ship /\ shipTrip' = shipTrip
      /\ overlaps = 0 => TogetherNow'
  BY RowsKept
<1>5. overlaps = 0 /\ Tail(p) # <<>> => StandsFor(Tail(p))'
  BY <1>1, <1>2, <1>4, NextStands
<1> QED
  BY <1>1, <1>3, <1>4, <1>5, GoesOn

(* What a step leaves of the shipment's marks.                             *)
MarksStay ==
  /\ ship'.pickupVerified = ship.pickupVerified
  /\ ship'.deliveryVerified = ship.deliveryVerified

LEMMA MarksKept ==
  ASSUME ShipIInv, MarksStay, spent \subseteq spent'
  PROVE  MarkedByCode'
BY InvGives DEF MarksStay, MarkedByCode

(* The shipment's status, with or without its trip's.                      *)
LEMMA StatusWritten ==
  ASSUME ShipRowsOK, NEW s \in ShipmentStatus,
         ship' = [ship EXCEPT !.status = s]
  PROVE  /\ ship'.status = s /\ MarksStay
         /\ ship' \in [status : ShipmentStatus \cup {"NONE"},
                       assigned : BOOLEAN, pickupVerified : BOOLEAN,
                       deliveryVerified : BOOLEAN, delivered : BOOLEAN,
                 forced : SUBSET OtpTypes]
BY DEF ShipRowsOK, MarksStay

LEMMA TripWritten ==
  ASSUME ShipRowsOK, NEW t \in ShipTripStatus,
         shipTrip' = [shipTrip EXCEPT !.status = t]
  PROVE  /\ shipTrip'.status = t
         /\ shipTrip' \in [status : ShipTripStatus, pin : BOOLEAN]
BY DEF ShipRowsOK

LEMMA WriteBothKeeps ==
  ASSUME ShipIInv, NEW r \in ShipRequests, WriteBoth(r)
  PROVE  ShipIInv'
<1>1. plan[r] # <<>> /\ Names(plan[r]) = "both"
  BY AtIs DEF WriteBoth
<1>2. PICK p : p = plan[r]
  OBVIOUS
<1>3. PlanFacts(p) /\ (overlaps = 0 => StandsFor(p))
  BY <1>1, <1>2, RequestAtWork
<1>4. /\ p[1][2] \in ShipmentStatus /\ p[1][3] \in ShipTripStatus
      /\ Tail(p) = <<>>
  BY <1>1, <1>2, <1>3 DEF PlanFacts, StepFacts, NextFacts, Names
<1>5. /\ ship' = [ship EXCEPT !.status = p[1][2]]
      /\ shipTrip' = [shipTrip EXCEPT !.status = p[1][3]]
      /\ UNCHANGED <<shipQuote, code, proof, spent>> /\ GoOn(r)
  BY <1>2 DEF WriteBoth
<1>6. ShipRowsOK
  BY InvGives
<1>7. /\ ship'.status = p[1][2] /\ shipTrip'.status = p[1][3]
      /\ ShipRowsOK' /\ MarkedByCode' /\ spent \subseteq spent'
  BY <1>4, <1>5, <1>6, StatusWritten, TripWritten, MarksKept DEF ShipRowsOK
<1>8. overlaps = 0 => TogetherNow'
  BY <1>1, <1>2, <1>3, <1>7 DEF StandsFor, TogetherNow, Together
<1> QED
  BY <1>1, <1>2, <1>4, <1>5, <1>7, <1>8, GoesOn

LEMMA WriteShipKeeps ==
  ASSUME ShipIInv, NEW r \in ShipRequests, WriteShip(r)
  PROVE  ShipIInv'
<1>1. plan[r] # <<>> /\ Names(plan[r]) = "ship"
  BY AtIs DEF WriteShip
<1>2. PICK p : p = plan[r]
  OBVIOUS
<1>3. PlanFacts(p)
  BY <1>1, <1>2, RequestAtWork
<1>4. /\ p[1][2] \in ShipmentStatus \ Ended
      /\ Tail(p) = <<>>
  BY <1>1, <1>2, <1>3 DEF PlanFacts, StepFacts, NextFacts, Names
<1>5. /\ ship' = [ship EXCEPT !.status = p[1][2],
                              !.forced = @ \cup {k \in OtpTypes :
                                            VerifiedStatus[k] = p[1][2]}]
      /\ UNCHANGED <<shipTrip, shipQuote, code, proof, spent>> /\ GoOn(r)
  BY <1>2 DEF WriteShip, Arg
<1>6. ShipRowsOK
  BY InvGives
<1>7. /\ ship'.status = p[1][2]
      /\ ShipRowsOK' /\ MarkedByCode' /\ spent \subseteq spent'
  <2>1. ship'.status = p[1][2] /\ MarksStay /\ ShipRowsOK'
    BY <1>4, <1>5, <1>6 DEF ShipRowsOK, MarksStay
  <2> QED
    BY <1>5, <2>1, MarksKept
<1>8. TogetherNow'
  BY <1>4, <1>7 DEF TogetherNow, Together, Ended
<1> QED
  BY <1>1, <1>2, <1>4, <1>5, <1>7, <1>8, GoesOn

LEMMA WriteTripKeeps ==
  ASSUME ShipIInv, NEW r \in ShipRequests, WriteTrip(r)
  PROVE  ShipIInv'
<1>1. plan[r] # <<>> /\ Names(plan[r]) = "trip"
  BY AtIs DEF WriteTrip
<1>2. PICK p : p = plan[r]
  OBVIOUS
<1>3. PlanFacts(p) /\ (overlaps = 0 => StandsFor(p))
  BY <1>1, <1>2, RequestAtWork
<1>4. p[1][2] \in ShipTripStatus
  BY <1>1, <1>2, <1>3 DEF PlanFacts, StepFacts
<1>5. /\ shipTrip' = [shipTrip EXCEPT !.status = p[1][2]]
      /\ UNCHANGED <<ship, shipQuote, code, proof, spent>> /\ GoOn(r)
  BY <1>2 DEF WriteTrip, Arg
<1>6. ShipRowsOK
  BY InvGives
<1>7. /\ shipTrip'.status = p[1][2]
      /\ ShipRowsOK' /\ MarkedByCode' /\ spent \subseteq spent'
  BY <1>4, <1>5, <1>6, TripWritten, MarksKept DEF ShipRowsOK, MarksStay
<1>8. overlaps = 0 => ship'.status \notin Ended
  BY <1>1, <1>2, <1>3, <1>5 DEF StandsFor
<1>9. overlaps = 0 => TogetherNow'
  BY <1>8 DEF TogetherNow, Together, Ended
<1>10. PICK q : q = Tail(p)
  OBVIOUS
<1>11. q # <<>> =>
         /\ Names(q) \notin {"accept", "resolve", "verified"}
         /\ Names(q) = "both" => Together(q[1][2], q[1][3])
         /\ Names(q) = "deliver" => p[1][2] = "COMPLETED"
  <2> SUFFICES ASSUME q # <<>>
               PROVE  /\ Names(q) \notin {"accept", "resolve", "verified"}
                      /\ Names(q) = "both" => Together(q[1][2], q[1][3])
                      /\ Names(q) = "deliver" => p[1][2] = "COMPLETED"
    OBVIOUS
  <2>1. NextFacts(p, q) /\ p[1][1] = "trip"
    BY <1>1, <1>2, <1>3, <1>10 DEF PlanFacts, Names
  <2>2. Names(q) = "both" => Together(q[1][2], q[1][3])
    BY <2>1 DEF NextFacts, Together
  <2> QED
    BY <2>1, <2>2 DEF NextFacts
<1>12. overlaps = 0 /\ q # <<>> => StandsFor(q)'
  BY <1>7, <1>8, <1>11 DEF StandsFor, Ended
<1> QED
  BY <1>1, <1>2, <1>5, <1>7, <1>9, <1>10, <1>11, <1>12, GoesOn
-----------------------------------------------------------------------------
(* What a request that looks may do: go on, or give up.                    *)
LEMMA LooksKeeps ==
  ASSUME ShipIInv, NEW r \in ShipRequests, NEW n, At(r, n),
         n \notin {"accept", "trip", "spend"}, UNCHANGED shipRows,
         GoOn(r) \/ GiveUp(r)
  PROVE  ShipIInv'
<1>1. plan[r] # <<>> /\ Names(plan[r]) = n
  BY AtIs
<1>2. CASE GoOn(r)
  BY <1>1, <1>2, ReadsOn
<1>3. CASE GiveUp(r)
  <2>1. plan' = [plan EXCEPT ![r] = <<>>] /\ upsets' = upsets /\ overlaps' = overlaps
    BY <1>3 DEF GiveUp, Instead
  <2>2. ShipBoundsOK'
    BY <2>1, InvGives DEF ShipBoundsOK
  <2> QED
    BY <1>1, <2>1, <2>2, GivesUp
<1> QED
  BY <1>2, <1>3

LEMMA LooksStepsKeep ==
  ASSUME ShipIInv, NEW r \in ShipRequests,
         Admit(r) \/ Take(r) \/ GenerateOtp(r) \/ CountProofs(r)
  PROVE  ShipIInv'
<1>1. CASE Admit(r)
  BY <1>1, LooksKeeps DEF Admit
<1>2. CASE Take(r)
  BY <1>2, LooksKeeps DEF Take
<1>3. CASE GenerateOtp(r)
  BY <1>3, LooksKeeps DEF GenerateOtp
<1>4. CASE CountProofs(r)
  BY <1>4, LooksKeeps DEF CountProofs
<1> QED
  BY <1>1, <1>2, <1>3, <1>4

(* verifyOtp: the code is right, or the attempt is to be counted.          *)
LEMMA VerifyOtpKeeps ==
  ASSUME ShipIInv, NEW r \in ShipRequests,
         VerifyOtp(r)
  PROVE  ShipIInv'
<1>1. At(r, "verify") /\ UNCHANGED shipRows
  BY DEF VerifyOtp
<1>2. plan[r] # <<>> /\ Names(plan[r]) = "verify"
  BY <1>1, AtIs
<1>3. PICK k : k = plan[r][1][2]
  OBVIOUS
<1>4. /\ k \in OtpTypes
      /\ overlaps = 0 => /\ TogetherNow /\ ship.status \notin Ended
                         /\ \A q \in ShipRequests \ {r} : plan[q] = <<>>
  BY <1>2, <1>3, RequestAtWork DEF PlanFacts, StepFacts, StandsFor
<1>5. CASE GiveUp(r)
  BY <1>1, <1>5, LooksKeeps
<1>6. ASSUME NEW p \in Plans, p # <<>>, Names(p) \in {"spend", "count"},
             Instead(r, p)
      PROVE  ShipIInv'
  <2>1. /\ plan' = [plan EXCEPT ![r] = p]
        /\ upsets' = upsets /\ overlaps' = overlaps
    BY <1>6 DEF Instead
  <2>2. ShipBoundsOK'
    BY <2>1, InvGives DEF ShipBoundsOK
  <2>3. /\ ShipRowsOK' /\ MarkedByCode' /\ spent \subseteq spent'
    BY <1>1, RowsKept
  <2>4. ship' = ship
    BY <1>1, RowsKept
  <2>5. overlaps = 0 => TogetherNow'
    BY <1>1, RowsKept
  <2>6. overlaps = 0 => StandsFor(p)'
    BY <1>4, <1>6, <2>4 DEF StandsFor, Ended
  <2> QED
    BY <1>4, <1>6, <2>1, <2>2, <2>3, <2>5, <2>6, OneMoves
<1>7. CASE Instead(r, AfterRightCode(k))
  <2>1. PICK p : p = <<<<"spend", k>>, <<"verified", k>>>>
    OBVIOUS
  <2>2. p \in Plans /\ p # <<>> /\ Names(p) = "spend"
    BY <1>4, <2>1 DEF Plans, Names
  <2> QED
    BY <1>6, <1>7, <2>1, <2>2 DEF AfterRightCode
<1>8. CASE /\ Verifiable(k)
           /\ Instead(r, <<<<"count", k, code[k].attempts + 1>>>>)
  <2>1. code[k].attempts \in Nat
    BY <1>4, InvGives DEF ShipRowsOK
  <2>2. code[k].attempts + 1 \in 1..OTP_MAX_ATTEMPTS
    BY <1>8, <2>1 DEF Verifiable
  <2>3. PICK n \in 1..OTP_MAX_ATTEMPTS : n = code[k].attempts + 1
    BY <2>2
  <2>4. PICK p : p = <<<<"count", k, n>>>>
    OBVIOUS
  <2>5. p \in Plans /\ p # <<>> /\ Names(p) = "count"
    BY <1>4, <2>4 DEF Plans, Names
  <2> QED
    BY <1>6, <1>8, <2>3, <2>4, <2>5
<1> QED
  BY <1>3, <1>5, <1>7, <1>8 DEF VerifyOtp, Arg

(* The shipment goes on, so that whatever comes next may.                  *)
LEMMA LiveStands ==
  ASSUME NEW p, PlanFacts(p), Tail(p) # <<>>, Names(p) # "trip",
         ship'.status \notin Ended
  PROVE  StandsFor(Tail(p))'
<1>1. NextFacts(p, Tail(p))
  BY DEF PlanFacts
<1>2. PICK q : q = Tail(p)
  OBVIOUS
<1>3. Names(q) = "both" => Together(q[1][2], q[1][3])
  BY <1>1, <1>2 DEF NextFacts, Together
<1>4. Names(q) # "deliver"
  BY <1>1, <1>2 DEF NextFacts, Names
<1>5. StandsFor(q)'
  BY <1>3, <1>4 DEF StandsFor, Ended
<1> QED
  BY <1>2, <1>5

(* A step that leaves the statuses and the marks.                          *)
LEMMA StatusStays ==
  ASSUME ShipIInv, NEW r \in ShipRequests, NEW n, At(r, n),
         n \notin {"accept", "trip", "spend", "both", "resolve", "deliver"},
         GoOn(r), ShipRowsOK', ship' = ship,
         shipTrip'.status = shipTrip.status, spent' = spent
  PROVE  ShipIInv'
<1>1. plan[r] # <<>> /\ Names(plan[r]) = n
  BY AtIs
<1>2. PICK p : p = plan[r]
  OBVIOUS
<1>3. PlanFacts(p)
  BY <1>1, <1>2, RequestAtWork
<1>4. overlaps = 0 => TogetherNow /\ ship.status \notin Ended
  BY <1>1, RequestAtWork DEF StandsFor
<1>5. Tail(p) # <<>> => Names(Tail(p)) # "verified"
  BY <1>1, <1>2, <1>3 DEF PlanFacts, NextFacts, Names
<1>6. MarkedByCode'
  BY MarksKept DEF MarksStay
<1>7. overlaps = 0 => TogetherNow'
  BY <1>4 DEF TogetherNow
<1>8. overlaps = 0 /\ Tail(p) # <<>> => StandsFor(Tail(p))'
  BY <1>1, <1>2, <1>3, <1>4, LiveStands
<1> QED
  BY <1>1, <1>2, <1>5, <1>6, <1>7, <1>8, GoesOn

LEMMA CheckPinKeeps ==
  ASSUME ShipIInv, NEW r \in ShipRequests, CheckTripPin(r)
  PROVE  ShipIInv'
<1>1. At(r, "pin") /\ UNCHANGED <<ship, shipQuote, code, proof, spent>>
  BY DEF CheckTripPin
<1>2. CASE shipTrip' = [shipTrip EXCEPT !.pin = FALSE] /\ GoOn(r)
  <2>1. ShipRowsOK
    BY InvGives
  <2>2. shipTrip'.status = shipTrip.status /\ ShipRowsOK'
    BY <1>1, <1>2, <2>1 DEF ShipRowsOK
  <2> QED
    BY <1>1, <1>2, <2>2, StatusStays
<1>3. CASE GiveUp(r) /\ UNCHANGED shipTrip
  BY <1>1, <1>3, LooksKeeps DEF shipRows
<1> QED
  BY <1>2, <1>3 DEF CheckTripPin

LEMMA PriceQuoteKeeps ==
  ASSUME ShipIInv, NEW r \in ShipRequests, PriceQuote(r)
  PROVE  ShipIInv'
<1>1. /\ At(r, "price") /\ GoOn(r) /\ shipQuote' = "open"
      /\ UNCHANGED <<ship, shipTrip, code, proof, spent>>
  BY DEF PriceQuote
<1>2. ShipRowsOK
  BY InvGives
<1>3. ShipRowsOK'
  BY <1>1, <1>2 DEF ShipRowsOK
<1> QED
  BY <1>1, <1>3, StatusStays

LEMMA StoreOtpKeeps ==
  ASSUME ShipIInv, NEW r \in ShipRequests,
         StoreOtp(r)
  PROVE  ShipIInv'
<1>1. /\ At(r, "store") /\ GoOn(r)
      /\ code' = [code EXCEPT ![Arg(r)] = NewCode("open", FALSE)]
      /\ UNCHANGED <<ship, shipTrip, shipQuote, proof, spent>>
  BY DEF StoreOtp
<1>2. ShipRowsOK
  BY InvGives
<1>3. NewCode("open", FALSE) \in
        [state : {"none", "open", "expired", "used"},
         attempts : 0..OTP_MAX_ATTEMPTS, known : BOOLEAN, tries : Nat]
  BY DEF NewCode
<1>4. ShipRowsOK'
  BY <1>1, <1>2, <1>3 DEF ShipRowsOK
<1> QED
  BY <1>1, <1>4, StatusStays

LEMMA CountAttemptKeeps ==
  ASSUME ShipIInv, NEW r \in ShipRequests,
         CountAttempt(r)
  PROVE  ShipIInv'
<1>1. /\ At(r, "count") /\ GoOn(r)
      /\ code' = [code EXCEPT ![plan[r][1][2]].attempts = plan[r][1][3],
                              ![plan[r][1][2]].tries = @ + 1]
      /\ UNCHANGED <<ship, shipTrip, shipQuote, proof, spent>>
  BY DEF CountAttempt, Arg
<1>2. plan[r] # <<>> /\ Names(plan[r]) = "count"
  BY <1>1, AtIs
<1>3. plan[r][1][2] \in OtpTypes /\ plan[r][1][3] \in 1..OTP_MAX_ATTEMPTS
  BY <1>2, RequestAtWork DEF PlanFacts, StepFacts
<1>4. PICK k \in OtpTypes, n \in 1..OTP_MAX_ATTEMPTS :
        k = plan[r][1][2] /\ n = plan[r][1][3]
  BY <1>3
<1>5. n \in 0..OTP_MAX_ATTEMPTS
  OBVIOUS
<1>6. ShipRowsOK
  BY InvGives
<1>7. code' = [code EXCEPT ![k].attempts = n, ![k].tries = @ + 1]
  BY <1>1, <1>4
<1>8. code' \in [OtpTypes ->
                   [state : {"none", "open", "expired", "used"},
                    attempts : 0..OTP_MAX_ATTEMPTS, known : BOOLEAN,
                  tries : Nat]]
  BY <1>5, <1>6, <1>7 DEF ShipRowsOK
<1>9. ShipRowsOK'
  BY <1>1, <1>6, <1>8 DEF ShipRowsOK
<1> QED
  BY <1>1, <1>9, StatusStays

LEMMA CreateProofKeeps ==
  ASSUME ShipIInv, NEW r \in ShipRequests, CreateProof(r)
  PROVE  ShipIInv'
<1>1. /\ At(r, "prove") /\ GoOn(r) /\ proof' = TRUE
      /\ UNCHANGED <<ship, shipTrip, shipQuote, code, spent>>
  BY DEF CreateProof
<1>2. ShipRowsOK
  BY InvGives
<1>3. ShipRowsOK'
  BY <1>1, <1>2 DEF ShipRowsOK
<1> QED
  BY <1>1, <1>3, StatusStays
-----------------------------------------------------------------------------
LEMMA DepartKeeps ==
  ASSUME ShipIInv, NEW r \in ShipRequests, Depart(r)
  PROVE  ShipIInv'
<1>1. /\ At(r, "depart") /\ GoOn(r)
      /\ shipTrip' = [status |-> "DRIVER_ARRIVING", pin |-> TRUE]
      /\ UNCHANGED <<ship, shipQuote, code, proof, spent>>
  BY DEF Depart
<1>2. plan[r] # <<>> /\ Names(plan[r]) = "depart"
  BY <1>1, AtIs
<1>3. PICK p : p = plan[r]
  OBVIOUS
<1>4. PlanFacts(p)
  BY <1>2, <1>3, RequestAtWork
<1>5. overlaps = 0 => ship.status \notin Ended
  BY <1>2, RequestAtWork DEF StandsFor
<1>6. ShipRowsOK
  BY InvGives
<1>7. ShipRowsOK'
  BY <1>1, <1>6, StatusFacts DEF ShipRowsOK
<1>8. MarkedByCode'
  BY <1>1, MarksKept DEF MarksStay
<1>9. Tail(p) # <<>> => Names(Tail(p)) # "verified"
  BY <1>2, <1>3, <1>4 DEF PlanFacts, NextFacts, Names
<1>10. overlaps = 0 => TogetherNow'
  BY <1>1, <1>5 DEF TogetherNow, Together, Ended
<1>11. overlaps = 0 /\ Tail(p) # <<>> => StandsFor(Tail(p))'
  BY <1>1, <1>2, <1>3, <1>4, <1>5, LiveStands
<1> QED
  BY <1>1, <1>2, <1>3, <1>7, <1>8, <1>9, <1>10, <1>11, GoesOn

LEMMA AcceptQuoteKeeps ==
  ASSUME ShipIInv, NEW r \in ShipRequests, AcceptQuote(r)
  PROVE  ShipIInv'
<1>1. /\ At(r, "accept") /\ GoOn(r) /\ shipQuote' = "accepted"
      /\ ship' = [ship EXCEPT !.status = "REQUESTED"]
      /\ shipTrip' = [shipTrip EXCEPT !.status = "REQUESTED"]
      /\ UNCHANGED <<code, proof, spent>>
  BY DEF AcceptQuote
<1>2. plan[r] # <<>> /\ Names(plan[r]) = "accept"
  BY <1>1, AtIs
<1>3. PICK p : p = plan[r]
  OBVIOUS
<1>4. PlanFacts(p)
  BY <1>2, <1>3, RequestAtWork
<1>5. ShipRowsOK
  BY InvGives
<1>6. /\ ship'.status = "REQUESTED" /\ MarksStay
      /\ ship' \in [status : ShipmentStatus \cup {"NONE"},
                    assigned : BOOLEAN, pickupVerified : BOOLEAN,
                    deliveryVerified : BOOLEAN, delivered : BOOLEAN,
                 forced : SUBSET OtpTypes]
      /\ shipTrip' \in [status : ShipTripStatus, pin : BOOLEAN]
  BY <1>1, <1>5, StatusFacts, StatusWritten, TripWritten
<1>7. ShipRowsOK'
  BY <1>1, <1>5, <1>6 DEF ShipRowsOK
<1>8. MarkedByCode'
  BY <1>1, <1>6, MarksKept
<1>9. Tail(p) # <<>> => Names(Tail(p)) # "verified"
  BY <1>2, <1>3, <1>4 DEF PlanFacts, NextFacts, Names
<1>10. TogetherNow' /\ ship'.status \notin Ended
  BY <1>6 DEF TogetherNow, Together, Ended
<1>11. Tail(p) # <<>> => StandsFor(Tail(p))'
  BY <1>2, <1>3, <1>4, <1>10, LiveStands
<1> QED
  BY <1>1, <1>2, <1>3, <1>7, <1>8, <1>9, <1>10, <1>11, GoesOn

LEMMA SpendCodeKeeps ==
  ASSUME ShipIInv, NEW r \in ShipRequests, SpendCode(r)
  PROVE  ShipIInv'
<1>1. /\ At(r, "spend") /\ GoOn(r)
      /\ code' = [code EXCEPT ![plan[r][1][2]].state = "used"]
      /\ spent' = spent \cup {plan[r][1][2]}
      /\ UNCHANGED <<ship, shipTrip, shipQuote, proof>>
  BY DEF SpendCode, Arg
<1>2. plan[r] # <<>> /\ Names(plan[r]) = "spend"
  BY <1>1, AtIs
<1>3. PICK p : p = plan[r]
  OBVIOUS
<1>4. PlanFacts(p) /\ (overlaps = 0 => TogetherNow /\ StandsFor(p))
  BY <1>2, <1>3, RequestAtWork
<1>5. p[1][2] \in OtpTypes
  BY <1>2, <1>3, <1>4 DEF PlanFacts, StepFacts
<1>6. ShipRowsOK
  BY InvGives
<1>7. PICK k \in OtpTypes : k = p[1][2]
  BY <1>5
<1>8. code' = [code EXCEPT ![k].state = "used"] /\ spent' = spent \cup {k}
  BY <1>1, <1>3, <1>7
<1>9. ShipRowsOK'
  BY <1>1, <1>6, <1>8 DEF ShipRowsOK
<1>10. MarkedByCode' /\ spent \subseteq spent'
  BY <1>1, MarksKept DEF MarksStay
<1>11. Tail(p) # <<>> /\ Names(Tail(p)) = "verified" => Tail(p)[1][2] \in spent'
  <2>1. PICK q : q = Tail(p)
    OBVIOUS
  <2>2. q # <<>> /\ Names(q) = "verified" => p[1] = <<"spend", q[1][2]>>
    BY <1>4, <2>1 DEF PlanFacts, NextFacts
  <2>3. q # <<>> /\ Names(q) = "verified" => q[1][2] = k
    BY <1>7, <2>2
  <2> QED
    BY <1>8, <2>1, <2>3
<1>12. overlaps = 0 => TogetherNow'
  BY <1>1, <1>4 DEF TogetherNow
<1>13. overlaps = 0 => ship'.status \notin Ended
  BY <1>1, <1>2, <1>3, <1>4 DEF StandsFor
<1>14. overlaps = 0 /\ Tail(p) # <<>> => StandsFor(Tail(p))'
  BY <1>2, <1>3, <1>4, <1>13, LiveStands
<1> QED
  BY <1>1, <1>2, <1>3, <1>9, <1>10, <1>11, <1>12, <1>14, GoesOn

LEMMA MarkVerifiedKeeps ==
  ASSUME ShipIInv, NEW r \in ShipRequests, MarkVerified(r)
  PROVE  ShipIInv'
<1>1. /\ At(r, "verified") /\ GoOn(r)
      /\ ship' = IF plan[r][1][2] = "PICKUP"
                 THEN [ship EXCEPT !.status = "PICKUP_VERIFIED",
                                   !.pickupVerified = TRUE]
                 ELSE [ship EXCEPT !.status = "DELIVERY_VERIFIED",
                                   !.deliveryVerified = TRUE]
      /\ UNCHANGED <<shipTrip, shipQuote, code, proof, spent>>
  BY DEF MarkVerified, Arg, VerifiedStatus
<1>2. plan[r] # <<>> /\ Names(plan[r]) = "verified"
  BY <1>1, AtIs
<1>3. PICK p : p = plan[r]
  OBVIOUS
<1>4. PlanFacts(p)
  BY <1>2, <1>3, RequestAtWork
<1>5. PICK k \in OtpTypes : k = p[1][2]
  BY <1>2, <1>3, <1>4 DEF PlanFacts, StepFacts
<1>6. ShipRowsOK /\ MarkedByCode /\ k \in spent
  BY <1>2, <1>3, <1>5, InvGives
<1>7. k = "PICKUP" \/ k = "DELIVERY"
  BY DEF OtpTypes
<1>8. /\ ShipRowsOK' /\ MarkedByCode' /\ spent' = spent
      /\ ship'.status \in {"PICKUP_VERIFIED", "DELIVERY_VERIFIED"}
  <2>1. CASE k = "PICKUP"
    <3>1. ship' = [ship EXCEPT !.status = "PICKUP_VERIFIED",
                               !.pickupVerified = TRUE]
      BY <1>1, <1>3, <1>5, <2>1
    <3> QED
      BY <1>1, <1>6, <2>1, <3>1, StatusFacts DEF ShipRowsOK, MarkedByCode
  <2>2. CASE k = "DELIVERY"
    <3>1. ship' = [ship EXCEPT !.status = "DELIVERY_VERIFIED",
                               !.deliveryVerified = TRUE]
      BY <1>1, <1>3, <1>5, <2>2
    <3> QED
      BY <1>1, <1>6, <2>2, <3>1, StatusFacts DEF ShipRowsOK, MarkedByCode
  <2> QED
    BY <1>7, <2>1, <2>2
<1>9. TogetherNow' /\ ship'.status \notin Ended
  BY <1>8 DEF TogetherNow, Together, Ended
<1>10. Tail(p) # <<>> => Names(Tail(p)) # "verified" /\ StandsFor(Tail(p))'
  BY <1>2, <1>3, <1>4, <1>9, LiveStands DEF PlanFacts, NextFacts, Names
<1> QED
  BY <1>1, <1>2, <1>3, <1>8, <1>9, <1>10, GoesOn

LEMMA DeliverKeeps ==
  ASSUME ShipIInv, NEW r \in ShipRequests, Deliver(r)
  PROVE  ShipIInv'
<1>1. /\ At(r, "deliver") /\ GoOn(r)
      /\ ship' = [ship EXCEPT !.status = "DELIVERED", !.delivered = TRUE]
      /\ UNCHANGED <<shipTrip, shipQuote, code, proof, spent>>
  BY DEF Deliver
<1>2. plan[r] # <<>> /\ Names(plan[r]) = "deliver"
  BY <1>1, AtIs
<1>3. PICK p : p = plan[r]
  OBVIOUS
<1>4. PlanFacts(p) /\ (overlaps = 0 => StandsFor(p))
  BY <1>2, <1>3, RequestAtWork
<1>5. Tail(p) = <<>>
  BY <1>2, <1>3, <1>4 DEF PlanFacts, NextFacts, Names
<1>6. ShipRowsOK
  BY InvGives
<1>7. /\ ShipRowsOK' /\ MarksStay /\ spent' = spent
      /\ ship'.status = "DELIVERED" /\ shipTrip' = shipTrip
  BY <1>1, <1>6, StatusFacts DEF ShipRowsOK, MarksStay
<1>8. MarkedByCode'
  BY <1>7, MarksKept
<1>9. overlaps = 0 => TogetherNow'
  BY <1>2, <1>3, <1>4, <1>7 DEF TogetherNow, Together, StandsFor
<1> QED
  BY <1>1, <1>2, <1>3, <1>5, <1>7, <1>8, <1>9, GoesOn

LEMMA ResolveKeeps ==
  ASSUME ShipIInv, NEW r \in ShipRequests, Resolve(r)
  PROVE  ShipIInv'
<1>1. /\ At(r, "resolve") /\ GoOn(r) /\ proof' = TRUE
      /\ ship' = [ship EXCEPT !.status = "DELIVERED", !.delivered = TRUE,
                              !.forced = @ \cup {"DELIVERY"}]
      /\ shipTrip' = [shipTrip EXCEPT !.status = "COMPLETED"]
      /\ UNCHANGED <<shipQuote, code, spent>>
  BY DEF Resolve
<1>2. plan[r] # <<>> /\ Names(plan[r]) = "resolve"
  BY <1>1, AtIs
<1>3. PICK p : p = plan[r]
  OBVIOUS
<1>4. PlanFacts(p)
  BY <1>2, <1>3, RequestAtWork
<1>5. Tail(p) = <<>>
  BY <1>2, <1>3, <1>4 DEF PlanFacts, NextFacts, Names
<1>6. ShipRowsOK
  BY InvGives
<1>7. /\ ShipRowsOK' /\ MarksStay /\ spent' = spent
      /\ ship'.status = "DELIVERED" /\ shipTrip'.status = "COMPLETED"
  BY <1>1, <1>6, StatusFacts DEF ShipRowsOK, MarksStay, OtpTypes
<1>8. MarkedByCode'
  BY <1>7, MarksKept
<1>9. TogetherNow'
  BY <1>7 DEF TogetherNow, Together
<1> QED
  BY <1>1, <1>2, <1>3, <1>5, <1>7, <1>8, <1>9, GoesOn

LEMMA StepKeeps ==
  ASSUME ShipIInv, NEW r \in ShipRequests,
         PlanStep(r)
  PROVE  ShipIInv'
BY WriteBothKeeps, WriteShipKeeps, WriteTripKeeps, LooksStepsKeep,
   CheckPinKeeps, DepartKeeps, PriceQuoteKeeps, AcceptQuoteKeeps,
   StoreOtpKeeps, VerifyOtpKeeps, CountAttemptKeeps, SpendCodeKeeps,
   MarkVerifiedKeeps, CreateProofKeeps, DeliverKeeps, ResolveKeeps
DEF PlanStep
-----------------------------------------------------------------------------
LEMMA BeginsAre ==
  ASSUME ShipIInv, NEW r \in ShipRequests, NEW p,
         BeginPlan(r, p) \/ Override(r, p)
  PROVE  Start(r, p) /\ upsets' \in 0..MaxShipUpsets
BY InvGives DEF BeginPlan, Override, ShipBoundsOK

(* A request that finds the shipment going on.                             *)
LEMMA LiveBegins ==
  ASSUME ShipIInv, NEW r \in ShipRequests,
         NEW p \in Plans, p # <<>>,
         Names(p) \notin {"both", "deliver", "verified"},
         BeginPlan(r, p) \/ Override(r, p), UNCHANGED shipRows,
         TogetherNow => ship.status \notin Ended
  PROVE  ShipIInv'
<1>1. Start(r, p) /\ upsets' \in 0..MaxShipUpsets
  BY BeginsAre
<1>2. TogetherNow => StandsFor(p)
  BY DEF StandsFor, Ended
<1> QED
  BY <1>1, <1>2, LookingKeeps

LEMMA SenderLooks ==
  ASSUME ShipIInv, NEW r \in ShipRequests,
         CreateShipment(r) \/ CancelShipment(r)
  PROVE  ShipIInv'
<1>1. CASE CreateShipment(r)
  <2>1. PICK p : p = <<<<"accept">>, <<"generate", "PICKUP">>,
                       <<"store", "PICKUP">>, <<"generate", "DELIVERY">>,
                       <<"store", "DELIVERY">>>>
    OBVIOUS
  <2>2. p \in Plans /\ p # <<>> /\ Names(p) = "accept"
    BY <2>1 DEF Plans, Names
  <2>3. BeginPlan(r, p) /\ UNCHANGED shipRows
    BY <1>1, <2>1 DEF CreateShipment
  <2>4. StandsFor(p)
    BY <2>2 DEF StandsFor
  <2> QED
    BY <2>2, <2>3, <2>4, BeginsAre, LookingKeeps
<1>2. CASE CancelShipment(r)
  <2>1. PICK p : p = <<<<"both", "CANCELLED", "CANCELLED_BY_RIDER">>>>
    OBVIOUS
  <2>2. p \in Plans
    BY <2>1, StatusFacts DEF Plans
  <2>3. BeginPlan(r, p) /\ UNCHANGED shipRows /\ ship.status # "DELIVERED"
    BY <1>2, <2>1
    DEF CancelShipment, CanBeCancelled, ShipTerminal
  <2>4. /\ Names(p) = "both"
        /\ p[1][2] = "CANCELLED" /\ p[1][3] = "CANCELLED_BY_RIDER"
    BY <2>1 DEF Names
  <2>5. StandsFor(p)
    BY <2>3, <2>4 DEF StandsFor, Together, TripCancelled
  <2> QED
    BY <2>2, <2>3, <2>4, <2>5, BeginsAre, LookingKeeps
<1> QED
  BY <1>1, <1>2

LEMMA CreateQuoteKeeps ==
  ASSUME ShipIInv, NEW r \in ShipRequests, CreateQuote(r)
  PROVE  ShipIInv'
<1>1. PICK p : p = <<<<"price">>, <<"both", "QUOTED", "QUOTED">>>>
  OBVIOUS
<1>2. p \in Plans /\ p # <<>> /\ Names(p) = "price"
  BY <1>1 DEF Plans, Names
<1>3. /\ BeginPlan(r, p)
      /\ ship' = [ship EXCEPT !.status = "DRAFT"]
      /\ shipTrip' = [shipTrip EXCEPT !.status = "DRAFT"]
      /\ UNCHANGED <<shipQuote, code, proof, spent>>
  BY <1>1 DEF CreateQuote
<1>4. Start(r, p) /\ upsets' \in 0..MaxShipUpsets
  BY <1>3, BeginsAre
<1>5. /\ plan' = [plan EXCEPT ![r] = p] /\ overlaps' \in 0..MaxOverlaps
      /\ overlaps' = 0 => \A q \in ShipRequests \ {r} : plan[q] = <<>>
  BY <1>2, <1>4, RequestBegins
<1>6. ShipRowsOK
  BY InvGives
<1>7. /\ ship'.status = "DRAFT" /\ MarksStay
      /\ ship' \in [status : ShipmentStatus \cup {"NONE"},
                    assigned : BOOLEAN, pickupVerified : BOOLEAN,
                    deliveryVerified : BOOLEAN, delivered : BOOLEAN,
                 forced : SUBSET OtpTypes]
      /\ shipTrip' \in [status : ShipTripStatus, pin : BOOLEAN]
  BY <1>3, <1>6, StatusFacts, StatusWritten, TripWritten
<1>8. ShipRowsOK' /\ ShipBoundsOK' /\ MarkedByCode'
  BY <1>3, <1>4, <1>5, <1>6, <1>7, MarksKept DEF ShipRowsOK, ShipBoundsOK
<1>9. TogetherNow' /\ StandsFor(p)'
  BY <1>2, <1>7 DEF TogetherNow, StandsFor, Together, Ended
<1> QED
  BY <1>2, <1>3, <1>5, <1>8, <1>9, OneMoves

LEMMA DriverKeeps ==
  ASSUME ShipIInv, NEW r \in ShipRequests,
         DriverRequest(r)
  PROVE  ShipIInv'
<1>1. ASSUME NEW p \in Plans, p # <<>>,
             Names(p) \in {"take", "admit", "verify", "ship", "proven", "prove"},
             BeginPlan(r, p), UNCHANGED shipRows,
             Drivable \/ ship.status = "REQUESTED"
      PROVE  ShipIInv'
  <2>1. ship.status \notin Ended
    BY <1>1 DEF Drivable, ShipTerminal, Ended
  <2> QED
    BY <1>1, <2>1, LiveBegins
<1>2. CASE DriverAcceptShipment(r)
  <2>1. PICK p : p = <<<<"take">>, <<"depart">>, <<"ship", "DRIVER_ASSIGNED">>>>
    OBVIOUS
  <2>2. p \in Plans /\ p # <<>> /\ Names(p) = "take"
    BY <2>1 DEF Plans, Names
  <2> QED
    BY <1>1, <1>2, <2>1, <2>2 DEF DriverAcceptShipment
<1>3. CASE ArriveAtPickup(r)
  <2>1. PICK p : p = <<<<"admit", "DRIVER_ARRIVED">>,
                       <<"trip", "DRIVER_ARRIVED">>, <<"ship", "PICKUP_ARRIVED">>>>
    OBVIOUS
  <2>2. p \in Plans /\ p # <<>> /\ Names(p) = "admit"
    BY <2>1 DEF Plans, Names
  <2> QED
    BY <1>1, <1>3, <2>1, <2>2 DEF ArriveAtPickup
<1>4. ASSUME NEW k \in OtpTypes, VerifyShipmentOtp(r, k)
      PROVE  ShipIInv'
  <2>1. PICK p : p = <<<<"verify", k>>>>
    OBVIOUS
  <2>2. p \in Plans /\ p # <<>> /\ Names(p) = "verify"
    BY <2>1 DEF Plans, Names
  <2> QED
    BY <1>1, <1>4, <2>1, <2>2 DEF VerifyShipmentOtp
<1>5. CASE ArriveAtDelivery(r)
  <2>1. PICK p : p = <<<<"ship", "DELIVERY_ARRIVED">>>>
    OBVIOUS
  <2>2. p \in Plans /\ p # <<>> /\ Names(p) = "ship"
    BY <2>1, StatusFacts DEF Plans, Names, Ended
  <2> QED
    BY <1>1, <1>5, <2>1, <2>2 DEF ArriveAtDelivery
<1>6. CASE CompleteShipment(r)
  <2>1. PICK p : p = <<<<"proven">>, <<"admit", "COMPLETED">>,
                       <<"trip", "COMPLETED">>, <<"deliver">>>>
    OBVIOUS
  <2>2. p \in Plans /\ p # <<>> /\ Names(p) = "proven"
    BY <2>1 DEF Plans, Names
  <2> QED
    BY <1>1, <1>6, <2>1, <2>2 DEF CompleteShipment
<1>7. CASE SubmitProof(r)
  <2>1. PICK p : p = <<<<"prove">>>>
    OBVIOUS
  <2>2. p \in Plans /\ p # <<>> /\ Names(p) = "prove"
    BY <2>1 DEF Plans, Names
  <2> QED
    BY <1>1, <1>7, <2>1, <2>2 DEF SubmitProof
<1> QED
  BY <1>2, <1>3, <1>4, <1>5, <1>6, <1>7 DEF DriverRequest

(* A trip that may still be moved carries a shipment that has not ended.   *)
LEMMA TripGoesOn ==
  ASSUME NEW s, NEW t \in ShipTripStatus, TripAllowed[t] # {},
         Together(s, t)
  PROVE  s \notin Ended
<1>1. t \notin {"COMPLETED", "CANCELLED_BY_RIDER", "CANCELLED_BY_DRIVER", "DISPUTED"}
  BY DEF TripAllowed
<1> QED
  BY <1>1 DEF Together, Ended, TripCancelled

LEMMA TripRequestKeeps ==
  ASSUME ShipIInv, NEW r \in ShipRequests, TripRequest(r)
  PROVE  ShipIInv'
<1>1. shipTrip.status \in ShipTripStatus
  BY InvGives DEF ShipRowsOK
<1>2. ASSUME NEW t \in ShipTripStatus, TripTransition(r, t)
      PROVE  ShipIInv'
  <2>1. t \in TripAllowed[shipTrip.status] /\ UNCHANGED shipRows
    BY <1>2 DEF TripTransition
  <2>2. TogetherNow => ship.status \notin Ended
    BY <1>1, <2>1, TripGoesOn DEF TogetherNow
  <2>3. PICK p : p = IF t = "PIN_VERIFIED" THEN <<<<"pin">>, <<"trip", t>>>>
                     ELSE <<<<"trip", t>>>>
    OBVIOUS
  <2>4. p \in Plans /\ p # <<>> /\ Names(p) \in {"pin", "trip"}
    <3>1. CASE t = "PIN_VERIFIED"
      BY <2>3, <3>1 DEF Plans, Names
    <3>2. CASE t # "PIN_VERIFIED"
      BY <2>3, <3>2 DEF Plans, Names
    <3> QED
      BY <3>1, <3>2
  <2>5. BeginPlan(r, p)
    BY <1>2, <2>3 DEF TripTransition
  <2> QED
    BY <2>1, <2>2, <2>4, <2>5, LiveBegins
<1>3. CASE DriverAcceptTrip(r)
  <2>1. PICK p : p = <<<<"depart">>>>
    OBVIOUS
  <2>2. p \in Plans /\ p # <<>> /\ Names(p) = "depart"
    BY <2>1 DEF Plans, Names
  <2>3. BeginPlan(r, p) /\ UNCHANGED shipRows /\ shipTrip.status = "REQUESTED"
    BY <1>3, <2>1 DEF DriverAcceptTrip
  <2>4. TogetherNow => ship.status \notin Ended
    BY <2>3 DEF TogetherNow, Together, Ended, TripCancelled
  <2> QED
    BY <2>2, <2>3, <2>4, LiveBegins
<1> QED
  BY <1>2, <1>3 DEF TripRequest
-----------------------------------------------------------------------------
LEMMA AllowedFacts ==
  /\ \A s \in Ended : Allowed[s] = {}
  /\ \A s \in DOMAIN Synced :
       /\ s \in ShipmentStatus /\ Synced[s] \in ShipTripStatus
       /\ Together(s, Synced[s])
  /\ Ended \subseteq DOMAIN Synced
<1>1. \A s \in Ended : Allowed[s] = {}
  BY DEF Allowed, Ended
<1>2. ASSUME NEW s \in DOMAIN Synced
      PROVE  /\ s \in ShipmentStatus /\ Synced[s] \in ShipTripStatus
             /\ Together(s, Synced[s])
  BY <1>2, StatusFacts DEF Synced, Together, TripCancelled
<1>3. Ended \subseteq DOMAIN Synced
  BY DEF Synced, Ended
<1> QED
  BY <1>1, <1>2, <1>3

LEMMA AdminUpdateKeeps ==
  ASSUME ShipIInv, NEW r \in ShipRequests,
         NEW s \in ShipmentStatus, AdminUpdateStatus(r, s)
  PROVE  ShipIInv'
<1>1. s \in Allowed[ship.status] /\ UNCHANGED shipRows
  BY DEF AdminUpdateStatus
<1>2. ship.status \notin Ended
  BY <1>1, AllowedFacts
<1>3. CASE s \in DOMAIN Synced
  <2>1. PICK t \in ShipTripStatus : t = Synced[s]
    BY <1>3, AllowedFacts
  <2>2. PICK p : p = <<<<"both", s, t>>>>
    OBVIOUS
  <2>3. p \in Plans
    BY <2>2 DEF Plans
  <2>4. Override(r, p)
    BY <1>3, <2>1, <2>2 DEF AdminUpdateStatus
  <2>5. Names(p) = "both" /\ p[1][2] = s /\ p[1][3] = t
    BY <2>2 DEF Names
  <2>6. Together(s, t)
    BY <1>3, <2>1, AllowedFacts
  <2>7. StandsFor(p)
    BY <1>2, <2>5, <2>6 DEF StandsFor, Ended
  <2>8. Start(r, p) /\ upsets' \in 0..MaxShipUpsets
    BY <2>4, BeginsAre
  <2> QED
    BY <1>1, <2>3, <2>5, <2>7, <2>8, LookingKeeps
<1>4. CASE s \notin DOMAIN Synced
  <2>1. PICK p : p = <<<<"ship", s>>>>
    OBVIOUS
  <2>2. s \in ShipmentStatus \ Ended
    BY <1>4, AllowedFacts
  <2>3. p \in Plans /\ p # <<>> /\ Names(p) = "ship"
    BY <2>1, <2>2 DEF Plans, Names
  <2>4. Override(r, p)
    BY <1>4, <2>1 DEF AdminUpdateStatus
  <2> QED
    BY <1>1, <1>2, <2>3, <2>4, LiveBegins
<1> QED
  BY <1>3, <1>4

LEMMA AdminForces ==
  ASSUME ShipIInv, NEW r \in ShipRequests,
         AdminCancelShipment(r) \/ AdminResolveShipment(r)
  PROVE  ShipIInv'
<1>1. CASE AdminCancelShipment(r)
  <2>1. PICK p : p = <<<<"both", "CANCELLED", "CANCELLED_BY_DRIVER">>>>
    OBVIOUS
  <2>2. p \in Plans
    BY <2>1, StatusFacts DEF Plans
  <2>3. Override(r, p) /\ UNCHANGED shipRows /\ ship.status # "DELIVERED"
    BY <1>1, <2>1 DEF AdminCancelShipment
  <2>4. /\ Names(p) = "both"
        /\ p[1][2] = "CANCELLED" /\ p[1][3] = "CANCELLED_BY_DRIVER"
    BY <2>1 DEF Names
  <2>5. StandsFor(p)
    BY <2>3, <2>4 DEF StandsFor, Together, TripCancelled
  <2> QED
    BY <2>2, <2>3, <2>4, <2>5, BeginsAre, LookingKeeps
<1>2. CASE AdminResolveShipment(r)
  <2>1. PICK p : p = <<<<"resolve">>>>
    OBVIOUS
  <2>2. p \in Plans /\ Names(p) = "resolve"
    BY <2>1 DEF Plans, Names
  <2>3. Override(r, p) /\ UNCHANGED shipRows /\ ship.status # "DELIVERED"
    BY <1>2, <2>1 DEF AdminResolveShipment
  <2>4. StandsFor(p)
    BY <2>2, <2>3 DEF StandsFor
  <2> QED
    BY <2>2, <2>3, <2>4, BeginsAre, LookingKeeps
<1> QED
  BY <1>1, <1>2

(* Assigning and disputing write both rows at once.                        *)
LEMMA AdminWrites ==
  ASSUME ShipIInv, NEW r \in ShipRequests,
         AdminAssignDriver(r) \/ AdminDisputeShipment(r)
  PROVE  ShipIInv'
<1>1. PICK p : p = <<>>
  OBVIOUS
<1>2. /\ Override(r, p)
      /\ UNCHANGED <<shipQuote, code, proof, spent>>
  BY <1>1 DEF AdminAssignDriver, AdminDisputeShipment
<1>3. p \in Plans
  BY <1>1 DEF Plans
<1>4. Start(r, p) /\ upsets' \in 0..MaxShipUpsets
  BY <1>2, BeginsAre
<1>5. /\ plan' = [plan EXCEPT ![r] = p] /\ overlaps' \in 0..MaxOverlaps
      /\ overlaps' = 0 => \A q \in ShipRequests \ {r} : plan[q] = <<>>
  BY <1>3, <1>4, RequestBegins
<1>6. ShipRowsOK
  BY InvGives
<1>7. /\ ShipRowsOK' /\ MarksStay
      /\ \/ ship'.status = "DRIVER_ASSIGNED"
         \/ ship'.status = "DISPUTED" /\ shipTrip'.status = "DISPUTED"
  <2>1. CASE AdminAssignDriver(r)
    <3>1. /\ ship' = [ship EXCEPT !.status = "DRIVER_ASSIGNED",
                                  !.assigned = TRUE]
          /\ shipTrip' = [shipTrip EXCEPT !.status = "DRIVER_ASSIGNED"]
      BY <2>1 DEF AdminAssignDriver
    <3> QED
      BY <1>2, <1>6, <3>1, StatusFacts DEF ShipRowsOK, MarksStay
  <2>2. CASE AdminDisputeShipment(r)
    <3>1. /\ ship' = [ship EXCEPT !.status = "DISPUTED"]
          /\ shipTrip' = [shipTrip EXCEPT !.status = "DISPUTED"]
      BY <2>2 DEF AdminDisputeShipment
    <3> QED
      BY <1>2, <1>6, <3>1, StatusFacts DEF ShipRowsOK, MarksStay
  <2> QED
    BY <2>1, <2>2
<1>8. ShipBoundsOK' /\ MarkedByCode' /\ TogetherNow'
  BY <1>2, <1>4, <1>5, <1>7, MarksKept
  DEF ShipBoundsOK, TogetherNow, Together
<1> QED
  BY <1>1, <1>2, <1>3, <1>5, <1>7, <1>8, OneMoves

(* The clock, and a request that stops on the way.                         *)
LEMMA TimeKeeps ==
  ASSUME ShipIInv,
         QuoteExpires \/ (\E k \in OtpTypes : CodeExpires(k))
  PROVE  ShipIInv'
<1>1. /\ ship' = ship /\ shipTrip' = shipTrip /\ proof' = proof
      /\ spent' = spent /\ plan' = plan /\ upsets' = upsets
      /\ overlaps' = overlaps
  BY DEF QuoteExpires, CodeExpires
<1>2. ShipRowsOK
  BY InvGives
<1>3. ShipRowsOK'
  <2>1. CASE QuoteExpires
    BY <1>1, <1>2, <2>1 DEF ShipRowsOK, QuoteExpires
  <2>2. ASSUME NEW k \in OtpTypes, CodeExpires(k)
        PROVE  ShipRowsOK'
    <3>1. code' = [code EXCEPT ![k].state = "expired"] /\ shipQuote' = shipQuote
      BY <2>2 DEF CodeExpires
    <3> QED
      BY <1>1, <1>2, <3>1 DEF ShipRowsOK
  <2> QED
    BY <2>1, <2>2
<1>4. /\ ShipBoundsOK' /\ plan' \in [ShipRequests -> Plans]
      /\ MarkedByCode'
  BY <1>1, InvGives DEF ShipBoundsOK, MarkedByCode
<1>5. /\ TogetherNow' <=> TogetherNow
      /\ \A r \in ShipRequests : StandsFor(plan[r])' <=> StandsFor(plan[r])
  BY <1>1 DEF TogetherNow, StandsFor
<1> QED
  BY <1>1, <1>3, <1>4, <1>5, InvGives, InvTakes

LEMMA StopsKeeps ==
  ASSUME ShipIInv, NEW r \in ShipRequests, RequestStops(r)
  PROVE  ShipIInv'
<1>1. /\ plan' = [plan EXCEPT ![r] = <<>>] /\ plan[r] # <<>>
      /\ UNCHANGED shipRows /\ overlaps' = overlaps
      /\ upsets < MaxShipUpsets /\ upsets' = upsets + 1
  BY DEF RequestStops
<1>2. ShipBoundsOK'
  BY <1>1, InvGives DEF ShipBoundsOK
<1> QED
  BY <1>1, <1>2, GivesUp
-----------------------------------------------------------------------------
LEMMA ShipmentsInit ==
  ASSUME ShipInit
  PROVE  ShipIInv
<1>1. /\ plan = [r \in ShipRequests |-> <<>>] /\ proof = FALSE /\ spent = {}
      /\ upsets = 0 /\ overlaps = 0
  BY DEF ShipInit
<1>2. PICK c : /\ code = [k \in OtpTypes |-> c]
               /\ c = NewCode("open", TRUE) \/ c = NewCode("none", FALSE)
  BY DEF ShipInit
<1>3. /\ \/ /\ ship = Seeded /\ shipQuote = "open"
            /\ shipTrip = [status |-> "REQUESTED", pin |-> FALSE]
         \/ /\ ship = [Seeded EXCEPT !.status = "NONE"]
            /\ shipTrip = [status |-> "NONE", pin |-> FALSE]
            /\ shipQuote = "none"
  BY DEF ShipInit
<1>4. ShipTypeOK /\ ship.pickupVerified = FALSE /\ ship.deliveryVerified = FALSE
      /\ ship.status \in {"REQUESTED", "NONE"}
  <2>1. 0 \in 0..OTP_MAX_ATTEMPTS /\ 0 \in 0..MaxShipUpsets /\ 0 \in 0..MaxOverlaps
    OBVIOUS
  <2>2. code \in [OtpTypes ->
                    [state : {"none", "open", "expired", "used"},
                     attempts : 0..OTP_MAX_ATTEMPTS, known : BOOLEAN,
                  tries : Nat]]
    <3>1. c \in [state : {"none", "open", "expired", "used"},
                attempts : 0..OTP_MAX_ATTEMPTS, known : BOOLEAN,
                  tries : Nat]
      <4>1. CASE c = NewCode("open", TRUE)
        BY <2>1, <4>1 DEF NewCode
      <4>2. CASE c = NewCode("none", FALSE)
        BY <2>1, <4>2 DEF NewCode
      <4> QED
        BY <1>2, <4>1, <4>2
    <3>2. PICK C : C = [state : {"none", "open", "expired", "used"},
                        attempts : 0..OTP_MAX_ATTEMPTS, known : BOOLEAN,
                  tries : Nat]
      OBVIOUS
    <3>3. c \in C /\ code = [k \in OtpTypes |-> c]
      BY <1>2, <3>1, <3>2
    <3>4. code \in [OtpTypes -> C]
      BY ONLY <3>3
    <3> QED
      BY <3>2, <3>4
  <2>3. /\ ship \in [status : ShipmentStatus \cup {"NONE"},
                     assigned : BOOLEAN, pickupVerified : BOOLEAN,
                     deliveryVerified : BOOLEAN, delivered : BOOLEAN,
                 forced : SUBSET OtpTypes]
        /\ ship.pickupVerified = FALSE /\ ship.deliveryVerified = FALSE
        /\ ship.status \in {"REQUESTED", "NONE"}
        /\ shipTrip \in [status : ShipTripStatus, pin : BOOLEAN]
        /\ shipQuote \in {"none", "open", "expired", "accepted"}
    <3>1. CASE /\ ship = Seeded /\ shipQuote = "open"
               /\ shipTrip = [status |-> "REQUESTED", pin |-> FALSE]
      BY <3>1, StatusFacts DEF Seeded
    <3>2. CASE /\ ship = [Seeded EXCEPT !.status = "NONE"]
               /\ shipTrip = [status |-> "NONE", pin |-> FALSE]
               /\ shipQuote = "none"
      <4>1. ship = [status |-> "NONE", assigned |-> FALSE,
                    pickupVerified |-> FALSE, deliveryVerified |-> FALSE,
                    delivered |-> FALSE, forced |-> {}]
        BY <3>2 DEF Seeded
      <4>2. /\ ship.pickupVerified = FALSE /\ ship.deliveryVerified = FALSE
            /\ ship.status = "NONE"
        BY <4>1
      <4>3. ship \in [status : ShipmentStatus \cup {"NONE"},
                      assigned : BOOLEAN, pickupVerified : BOOLEAN,
                      deliveryVerified : BOOLEAN, delivered : BOOLEAN,
                 forced : SUBSET OtpTypes]
        BY ONLY <4>1
      <4>4. shipTrip \in [status : ShipTripStatus, pin : BOOLEAN]
        BY <3>2, StatusFacts
      <4> QED
        BY <3>2, <4>2, <4>3, <4>4
    <3> QED
      BY <1>3, <3>1, <3>2
  <2>4. \A r \in ShipRequests :
          /\ Len(plan[r]) <= 5
          /\ \A i \in 1..Len(plan[r]) : plan[r][i] \in Steps
    BY <1>1
  <2> QED
    BY <1>1, <2>1, <2>2, <2>3, <2>4 DEF ShipTypeOK
<1>5. PlansOK
  BY <1>1 DEF PlansOK, Plans
<1>6. MarkedByCode /\ MarksAreEarned
  BY <1>1, <1>4 DEF MarkedByCode, MarksAreEarned, At
<1>7. EndedTogether /\ ShipSerialInv
  BY <1>1, <1>4
  DEF EndedTogether, Together, ShipSerialInv, OneAtATime
<1> QED
  BY <1>4, <1>5, <1>6, <1>7 DEF ShipIInv

LEMMA ShipmentsStep ==
  ASSUME ShipIInv, [ShipNext]_shipVars
  PROVE  ShipIInv'
<1>1. ASSUME NEW r \in ShipRequests,
             \/ SenderRequest(r) \/ DriverRequest(r)
             \/ AdminRequest(r) \/ TripRequest(r) \/ PlanStep(r)
             \/ RequestStops(r)
      PROVE  ShipIInv'
  <2>1. CASE SenderRequest(r)
    BY <2>1, CreateQuoteKeeps, SenderLooks DEF SenderRequest
  <2>2. CASE DriverRequest(r)
    BY <2>2, DriverKeeps
  <2>3. CASE AdminRequest(r)
    BY <2>3, AdminWrites, AdminUpdateKeeps, AdminForces DEF AdminRequest
  <2>4. CASE TripRequest(r)
    BY <2>4, TripRequestKeeps
  <2>5. CASE PlanStep(r)
    BY <2>5, StepKeeps
  <2>6. CASE RequestStops(r)
    BY <2>6, StopsKeeps
  <2> QED
    BY <1>1, <2>1, <2>2, <2>3, <2>4, <2>5, <2>6
<1>2. CASE QuoteExpires \/ \E k \in OtpTypes : CodeExpires(k)
  BY <1>2, TimeKeeps
<1>3. CASE UNCHANGED shipVars
  <2>1. /\ UNCHANGED shipRows /\ plan' = plan /\ upsets' = upsets
        /\ overlaps' = overlaps
    BY <1>3 DEF shipVars
  <2>2. /\ ship' = ship /\ shipTrip' = shipTrip /\ spent' = spent
        /\ ShipRowsOK' /\ MarkedByCode' /\ (overlaps = 0 => TogetherNow')
    BY <2>1, RowsKept DEF shipRows
  <2>3. ShipBoundsOK' /\ plan' \in [ShipRequests -> Plans]
    BY <2>1, InvGives DEF ShipBoundsOK
  <2>4. \A r \in ShipRequests : StandsFor(plan[r])' <=> StandsFor(plan[r])
    BY <2>1, <2>2 DEF StandsFor
  <2> QED
    BY <2>1, <2>2, <2>3, <2>4, InvGives, InvTakes
<1> QED
  BY <1>1, <1>2, <1>3 DEF ShipNext

(* In every run of Shipments, whatever overlaps, throws or dies, and       *)
(* however many requests there are.                                        *)
LEMMA ShipmentsInvariant ==
  ShipSpec => []ShipIInv
<1>1. ShipInit => ShipIInv
  BY ShipmentsInit
<1>2. ShipIInv /\ [ShipNext]_shipVars => ShipIInv'
  BY ShipmentsStep
<1> QED
  BY <1>1, <1>2, PTL DEF ShipSpec

(* The rows of a shipment, its trip, its quote and its codes keep their    *)
(* types, and no request has more to do than the code lets it.             *)
THEOREM ShipmentsTypeInvariant ==
  ShipSpec => []ShipTypeOK
<1>1. ShipIInv => ShipTypeOK
  BY DEF ShipIInv
<1> QED
  BY <1>1, ShipmentsInvariant, PTL

(* While no two requests overlap, a shipment that has ended and its trip   *)
(* have ended the same way, although the two are written one by one, a     *)
(* request may die in between, and the trip has endpoints of its own.      *)
THEOREM ShipmentsEndTogether ==
  ShipSpec => []EndedTogether
<1>1. ShipIInv => EndedTogether
  BY DEF ShipIInv
<1> QED
  BY <1>1, ShipmentsInvariant, PTL
-----------------------------------------------------------------------------
(* What vouches for a status is never taken back.                          *)
VouchersStay ==
  /\ spent \subseteq spent' /\ ship.forced \subseteq ship'.forced
  /\ proof => proof'

LEMMA BackedStays ==
  ASSUME VouchersStay, NEW p, Backed(p)
  PROVE  Backed(p)'
BY DEF VouchersStay, Backed, StatusVouched, VouchedFor

LEMMA StatusStaysVouched ==
  ASSUME VouchersStay, NEW s, StatusVouched(s)
  PROVE  StatusVouched(s)'
BY DEF VouchersStay, StatusVouched, VouchedFor

LEMMA Unvouched ==
  ASSUME NEW s, s \notin PickedUp \cup HandedOver
  PROVE  StatusVouched(s) /\ StatusVouched(s)'
BY DEF StatusVouched

LEMMA NothingToBack ==
  ASSUME NEW p, p # <<>> => /\ Names(p) \notin {"proven", "deliver", "both", "ship"}
                            /\ Names(p) = "admit" => p[1][2] # "COMPLETED"
                            /\ Names(p) = "trip" => Len(p) # 2
  PROVE  Backed(p)
BY DEF Backed, Delivers, Names

(* One request moves.                                                      *)
LEMMA BackedMoves ==
  ASSUME ShipIInv, BackedInv, MarkedByCode', VouchersStay,
         NEW r \in ShipRequests, NEW p, plan' = [plan EXCEPT ![r] = p],
         Backed(p)',
         NEW s, s = ship'.status, StatusVouched(s)' \/ s = ship.status,
         (proof' /\ VouchedFor("DELIVERY")') \/ ship'.delivered = ship.delivered
  PROVE  BackedInv'
<1>1. PICK before : before = ship.status
  OBVIOUS
<1>2. StatusVouched(s)'
  <2>1. StatusVouched(before)
    BY <1>1 DEF BackedInv, HandedOverByCode
  <2>2. StatusVouched(before)'
    BY <2>1, StatusStaysVouched
  <2> QED
    BY <1>1, <2>2
<1>3. ship'.delivered => proof' /\ VouchedFor("DELIVERY")'
  BY DEF BackedInv, HandedOverByCode, VouchersStay, VouchedFor
<1>4. HandedOverByCode'
  BY <1>2, <1>3 DEF HandedOverByCode, StatusVouched
<1>5. \A q \in ShipRequests : Backed(plan[q])'
  <2>1. plan \in [ShipRequests -> Plans]
    BY InvGives
  <2>2. SUFFICES ASSUME NEW q \in ShipRequests
                 PROVE  Backed(plan[q])'
    OBVIOUS
  <2>3. CASE q = r
    <3>1. plan'[q] = p
      BY <2>1, <2>3
    <3> QED
      BY <3>1 DEF Backed, Delivers
  <2>4. CASE q # r
    <3>1. PICK o : o = plan[q]
      OBVIOUS
    <3>2. Backed(o) /\ plan'[q] = o
      BY <2>1, <2>4, <3>1 DEF BackedInv
    <3>3. Backed(o)'
      BY <3>2, BackedStays
    <3> QED
      BY <3>2, <3>3 DEF Backed, Delivers
  <2> QED
    BY <2>3, <2>4
<1> QED
  BY <1>4, <1>5 DEF BackedInv

(* A request that looks before it begins, goes on or gives up.             *)
LEMMA BackedLooks ==
  ASSUME ShipIInv, BackedInv, MarkedByCode', UNCHANGED shipRows,
         NEW r \in ShipRequests, NEW p, plan' = [plan EXCEPT ![r] = p],
         Backed(p)
  PROVE  BackedInv'
<1>1. VouchersStay /\ ship' = ship
  BY DEF VouchersStay, shipRows
<1>2. PICK s : s = ship'.status
  OBVIOUS
<1> QED
  BY <1>1, <1>2, BackedMoves, BackedStays

LEMMA TailBacked ==
  ASSUME ShipIInv, BackedInv, NEW r \in ShipRequests, plan[r] # <<>>,
         Names(plan[r]) = "proven" => proof
  PROVE  Backed(Tail(plan[r]))
<1>1. PICK p : p = plan[r]
  OBVIOUS
<1>2. PICK q : q = Tail(p)
  OBVIOUS
<1>3. Backed(p) /\ PlanFacts(p) /\ p # <<>>
  BY <1>1, RequestAtWork DEF BackedInv
<1>4. q # <<>> => NextFacts(p, q)
  BY <1>2, <1>3 DEF PlanFacts
<1>5. q # <<>> /\ Delivers(q) => VouchedFor("DELIVERY") /\ proof
  BY <1>1, <1>3, <1>4 DEF NextFacts, Backed, Names
<1>6. q # <<>> /\ q[1][1] \in {"both", "ship"} => StatusVouched(q[1][2])
  BY <1>4 DEF NextFacts, Names, StatusVouched, PickedUp, HandedOver
<1>7. Backed(q)
  BY <1>5, <1>6 DEF Backed
<1> QED
  BY <1>1, <1>2, <1>7
-----------------------------------------------------------------------------
LEMMA BackedBegins ==
  ASSUME ShipIInv, BackedInv, MarkedByCode', NEW r \in ShipRequests,
         NEW p, BeginPlan(r, p) \/ Override(r, p), UNCHANGED shipRows, Backed(p)
  PROVE  BackedInv'
BY BackedLooks DEF BeginPlan, Override, Start

LEMMA BackedSender ==
  ASSUME ShipIInv, BackedInv, MarkedByCode', NEW r \in ShipRequests,
         SenderRequest(r)
  PROVE  BackedInv'
<1>1. CASE CreateQuote(r)
  <2>1. PICK p : p = <<<<"price">>, <<"both", "QUOTED", "QUOTED">>>>
    OBVIOUS
  <2>2. /\ plan' = [plan EXCEPT ![r] = p]
        /\ ship' = [ship EXCEPT !.status = "DRAFT"]
        /\ UNCHANGED <<proof, spent>>
    BY <1>1, <2>1 DEF CreateQuote, BeginPlan, Start
  <2>3. Backed(p)
    BY <2>1, NothingToBack DEF Names
  <2>4. ShipRowsOK
    BY InvGives
  <2>5. /\ VouchersStay /\ ship'.delivered = ship.delivered
        /\ ship'.status = "DRAFT"
    BY <2>2, <2>4 DEF VouchersStay, ShipRowsOK
  <2>6. PICK s : s = "DRAFT"
    OBVIOUS
  <2>7. StatusVouched(s)' /\ s = ship'.status
    BY <2>5, <2>6, Unvouched DEF PickedUp, HandedOver
  <2> QED
    BY <2>2, <2>3, <2>5, <2>7, BackedStays, BackedMoves
<1>2. CASE CreateShipment(r)
  <2>1. PICK p : p = <<<<"accept">>, <<"generate", "PICKUP">>,
                       <<"store", "PICKUP">>, <<"generate", "DELIVERY">>,
                       <<"store", "DELIVERY">>>>
    OBVIOUS
  <2>2. Backed(p)
    BY <2>1, NothingToBack DEF Names
  <2> QED
    BY <1>2, <2>1, <2>2, BackedBegins DEF CreateShipment
<1>3. CASE CancelShipment(r)
  <2>1. PICK p : p = <<<<"both", "CANCELLED", "CANCELLED_BY_RIDER">>>>
    OBVIOUS
  <2>2. Backed(p)
    BY <2>1
    DEF Backed, Delivers, StatusVouched, PickedUp, HandedOver
  <2> QED
    BY <1>3, <2>1, <2>2, BackedBegins DEF CancelShipment
<1> QED
  BY <1>1, <1>2, <1>3 DEF SenderRequest

LEMMA BackedDriver ==
  ASSUME ShipIInv, BackedInv, MarkedByCode', NEW r \in ShipRequests,
         DriverRequest(r)
  PROVE  BackedInv'
<1>1. StatusVouched(ship.status)
  BY DEF BackedInv, HandedOverByCode
<1>2. CASE DriverAcceptShipment(r)
  <2>1. PICK p : p = <<<<"take">>, <<"depart">>, <<"ship", "DRIVER_ASSIGNED">>>>
    OBVIOUS
  <2>2. Backed(p)
    BY <2>1, NothingToBack DEF Names
  <2> QED
    BY <1>2, <2>1, <2>2, BackedBegins DEF DriverAcceptShipment
<1>3. CASE ArriveAtPickup(r)
  <2>1. PICK p : p = <<<<"admit", "DRIVER_ARRIVED">>,
                       <<"trip", "DRIVER_ARRIVED">>, <<"ship", "PICKUP_ARRIVED">>>>
    OBVIOUS
  <2>2. Backed(p)
    BY <2>1, NothingToBack DEF Names
  <2> QED
    BY <1>3, <2>1, <2>2, BackedBegins DEF ArriveAtPickup
<1>4. ASSUME NEW k \in OtpTypes, VerifyShipmentOtp(r, k)
      PROVE  BackedInv'
  <2>1. PICK p : p = <<<<"verify", k>>>>
    OBVIOUS
  <2>2. Backed(p)
    BY <2>1, NothingToBack DEF Names
  <2> QED
    BY <1>4, <2>1, <2>2, BackedBegins DEF VerifyShipmentOtp
<1>5. CASE ArriveAtDelivery(r)
  <2>1. PICK p : p = <<<<"ship", "DELIVERY_ARRIVED">>>>
    OBVIOUS
  <2>2. StatusVouched("DELIVERY_ARRIVED")
    BY <1>1, <1>5
    DEF ArriveAtDelivery, StatusVouched, PickedUp, HandedOver
  <2>3. Backed(p)
    BY <2>1, <2>2 DEF Backed, Delivers
  <2> QED
    BY <1>5, <2>1, <2>3, BackedBegins DEF ArriveAtDelivery
<1>6. CASE CompleteShipment(r)
  <2>1. PICK p : p = <<<<"proven">>, <<"admit", "COMPLETED">>,
                       <<"trip", "COMPLETED">>, <<"deliver">>>>
    OBVIOUS
  <2>2. VouchedFor("DELIVERY")
    BY <1>1, <1>6 DEF CompleteShipment, StatusVouched, HandedOver
  <2>3. Backed(p)
    BY <2>1, <2>2 DEF Backed
  <2> QED
    BY <1>6, <2>1, <2>3, BackedBegins DEF CompleteShipment
<1>7. CASE SubmitProof(r)
  <2>1. PICK p : p = <<<<"prove">>>>
    OBVIOUS
  <2>2. Backed(p)
    BY <2>1, NothingToBack DEF Names
  <2> QED
    BY <1>7, <2>1, <2>2, BackedBegins DEF SubmitProof
<1> QED
  BY <1>2, <1>3, <1>4, <1>5, <1>6, <1>7 DEF DriverRequest

(* The state machine leads to a status that must be vouched for only from  *)
(* one that is, or through a verified status, for which the admin then     *)
(* stands in.                                                              *)
LEMMA AllowedIsVouched ==
  ASSUME NEW o \in ShipmentStatus, NEW s \in Allowed[o], StatusVouched(o)
  PROVE  \/ StatusVouched(s)
         \/ s \in {"PICKUP_VERIFIED", "DELIVERY_VERIFIED"} /\ s \notin DOMAIN Synced
<1>1. s \in HandedOver => s = "DELIVERY_VERIFIED" \/ o = "DELIVERY_VERIFIED"
  BY StatusFacts DEF Allowed, HandedOver
<1>2. s \in PickedUp => s = "PICKUP_VERIFIED" \/ o \in PickedUp
  BY StatusFacts DEF Allowed, PickedUp
<1>3. s = "DELIVERY_VERIFIED" \/ s = "PICKUP_VERIFIED" => s \notin DOMAIN Synced
  BY DEF Synced
<1> QED
  BY <1>1, <1>2, <1>3 DEF StatusVouched, HandedOver

LEMMA BackedAdmin ==
  ASSUME ShipIInv, BackedInv, MarkedByCode', NEW r \in ShipRequests,
         AdminRequest(r)
  PROVE  BackedInv'
<1>1. ShipRowsOK /\ StatusVouched(ship.status)
  BY InvGives DEF BackedInv, HandedOverByCode
<1>2. CASE AdminAssignDriver(r) \/ AdminDisputeShipment(r)
  <2>1. PICK p : p = <<>>
    OBVIOUS
  <2>2. /\ plan' = [plan EXCEPT ![r] = p]
        /\ UNCHANGED <<proof, spent>>
    BY <1>2, <2>1
    DEF AdminAssignDriver, AdminDisputeShipment, Override, Start
  <2>3. /\ ship'.status \in {"DRIVER_ASSIGNED", "DISPUTED"}
        /\ ship'.delivered = ship.delivered /\ ship'.forced = ship.forced
    BY <1>1, <1>2
    DEF AdminAssignDriver, AdminDisputeShipment, ShipRowsOK
  <2>4. PICK s : s = ship'.status
    OBVIOUS
  <2>5. VouchersStay /\ StatusVouched(s)'
    BY <2>2, <2>3, <2>4, Unvouched DEF VouchersStay, PickedUp, HandedOver
  <2>6. Backed(p)'
    BY <2>1 DEF Backed
  <2> QED
    BY <2>2, <2>3, <2>4, <2>5, <2>6, BackedMoves
<1>3. ASSUME NEW s \in ShipmentStatus, AdminUpdateStatus(r, s)
      PROVE  BackedInv'
  <2>1. s \in Allowed[ship.status] /\ ship.status \in ShipmentStatus
    BY <1>1, <1>3 DEF AdminUpdateStatus, ShipRowsOK
  <2>2. CASE s \in DOMAIN Synced
    <3>1. PICK t : t = Synced[s]
      OBVIOUS
    <3>2. PICK p : p = <<<<"both", s, t>>>>
      OBVIOUS
    <3>3. p # <<>> /\ p[1][1] = "both" /\ p[1][2] = s
      BY <3>2
    <3>4. StatusVouched(s)
      BY <1>1, <2>1, <2>2, AllowedIsVouched
    <3>5. Backed(p)
      BY <3>3, <3>4 DEF Backed, Delivers
    <3> QED
      BY <1>3, <2>2, <3>1, <3>2, <3>5, BackedBegins DEF AdminUpdateStatus
  <2>3. CASE s \notin DOMAIN Synced
    <3>1. PICK p : p = <<<<"ship", s>>>>
      OBVIOUS
    <3>2. p # <<>> /\ p[1][1] = "ship" /\ p[1][2] = s
      BY <3>1
    <3>3. Backed(p)
      BY <1>1, <2>1, <3>2, AllowedIsVouched DEF Backed, Delivers
    <3> QED
      BY <1>3, <2>3, <3>1, <3>3, BackedBegins DEF AdminUpdateStatus
  <2> QED
    BY <2>2, <2>3
<1>4. CASE AdminCancelShipment(r)
  <2>1. PICK p : p = <<<<"both", "CANCELLED", "CANCELLED_BY_DRIVER">>>>
    OBVIOUS
  <2>2. Backed(p)
    BY <2>1
    DEF Backed, Delivers, StatusVouched, PickedUp, HandedOver
  <2> QED
    BY <1>4, <2>1, <2>2, BackedBegins DEF AdminCancelShipment
<1>5. CASE AdminResolveShipment(r)
  <2>1. PICK p : p = <<<<"resolve">>>>
    OBVIOUS
  <2>2. Backed(p)
    BY <2>1, NothingToBack DEF Names
  <2> QED
    BY <1>5, <2>1, <2>2, BackedBegins DEF AdminResolveShipment
<1> QED
  BY <1>2, <1>3, <1>4, <1>5 DEF AdminRequest

LEMMA BackedTrip ==
  ASSUME ShipIInv, BackedInv, MarkedByCode', NEW r \in ShipRequests,
         TripRequest(r)
  PROVE  BackedInv'
<1>1. ASSUME NEW t \in ShipTripStatus, TripTransition(r, t)
      PROVE  BackedInv'
  <2>1. PICK p : p = IF t = "PIN_VERIFIED" THEN <<<<"pin">>, <<"trip", t>>>>
                     ELSE <<<<"trip", t>>>>
    OBVIOUS
  <2>2. Backed(p)
    <3>1. CASE t = "PIN_VERIFIED"
      BY <2>1, <3>1, NothingToBack DEF Names
    <3>2. CASE t # "PIN_VERIFIED"
      BY <2>1, <3>2, NothingToBack DEF Names
    <3> QED
      BY <3>1, <3>2
  <2>3. BeginPlan(r, p) /\ UNCHANGED shipRows
    BY <1>1, <2>1 DEF TripTransition
  <2> QED
    BY <2>2, <2>3, BackedBegins
<1>2. CASE DriverAcceptTrip(r)
  <2>1. PICK p : p = <<<<"depart">>>>
    OBVIOUS
  <2>2. Backed(p)
    BY <2>1, NothingToBack DEF Names
  <2> QED
    BY <1>2, <2>1, <2>2, BackedBegins DEF DriverAcceptTrip
<1> QED
  BY <1>1, <1>2 DEF TripRequest
-----------------------------------------------------------------------------
(* The steps of a request: what is left of its plan, and the rows.         *)
LEMMA BackedGoesOn ==
  ASSUME ShipIInv, BackedInv, MarkedByCode', VouchersStay,
         NEW r \in ShipRequests, plan[r] # <<>>, GoOn(r),
         Names(plan[r]) # "proven",
         NEW s, s = ship'.status, StatusVouched(s)' \/ s = ship.status,
         (proof' /\ VouchedFor("DELIVERY")') \/ ship'.delivered = ship.delivered
  PROVE  BackedInv'
<1>1. PICK q : q = Tail(plan[r])
  OBVIOUS
<1>2. Backed(q) /\ plan' = [plan EXCEPT ![r] = q]
  BY <1>1, TailBacked DEF GoOn, Instead
<1> QED
  BY <1>2, BackedStays, BackedMoves

LEMMA BackedReads ==
  ASSUME ShipIInv, BackedInv, MarkedByCode', NEW r \in ShipRequests,
         \/ Admit(r) \/ Take(r) \/ GenerateOtp(r) \/ CountProofs(r)
         \/ VerifyOtp(r)
  PROVE  BackedInv'
<1>1. UNCHANGED shipRows /\ plan[r] # <<>>
  BY DEF Admit, Take, GenerateOtp, CountProofs, VerifyOtp, At
<1>2. ASSUME NEW p, Instead(r, p), Backed(p)
      PROVE  BackedInv'
  BY <1>1, <1>2, BackedLooks DEF Instead
<1>3. CASE GiveUp(r)
  <2>1. PICK p : p = <<>>
    OBVIOUS
  <2> QED
    BY <1>2, <1>3, <2>1 DEF GiveUp, Backed
<1>4. ASSUME GoOn(r), Names(plan[r]) = "proven" => proof
      PROVE  BackedInv'
  <2>1. PICK p : p = Tail(plan[r])
    OBVIOUS
  <2> QED
    BY <1>1, <1>2, <1>4, <2>1, TailBacked DEF GoOn
<1>5. CASE Admit(r) \/ Take(r) \/ GenerateOtp(r)
  <2>1. (GoOn(r) \/ GiveUp(r)) /\ Names(plan[r]) # "proven"
    BY <1>5, AtIs DEF Admit, Take, GenerateOtp
  <2> QED
    BY <1>3, <1>4, <2>1
<1>6. CASE CountProofs(r)
  BY <1>3, <1>4, <1>6 DEF CountProofs
<1>7. CASE VerifyOtp(r)
  <2>1. PICK k : k = Arg(r)
    OBVIOUS
  <2>2. \/ GiveUp(r)
        \/ Instead(r, AfterRightCode(k))
        \/ Instead(r, <<<<"count", k, code[k].attempts + 1>>>>)
    BY <1>7, <2>1 DEF VerifyOtp
  <2>3. Backed(AfterRightCode(k))
    <3>1. PICK p : p = AfterRightCode(k)
      OBVIOUS
    <3>2. p # <<>> /\ p[1][1] = "spend"
      BY <3>1 DEF AfterRightCode
    <3> QED
      BY <3>1, <3>2 DEF Backed, Delivers
  <2>4. Backed(<<<<"count", k, code[k].attempts + 1>>>>)
    <3>1. PICK n : n = code[k].attempts + 1
      OBVIOUS
    <3>2. PICK p : p = <<<<"count", k, n>>>>
      OBVIOUS
    <3>3. p # <<>> /\ p[1][1] = "count"
      BY <3>2
    <3> QED
      BY <3>1, <3>2, <3>3 DEF Backed, Delivers
  <2> QED
    BY <1>2, <1>3, <2>2, <2>3, <2>4
<1> QED
  BY <1>5, <1>6, <1>7

(* Steps that leave the shipment.                                          *)
LEMMA BackedRows ==
  ASSUME ShipIInv, BackedInv, MarkedByCode', NEW r \in ShipRequests,
         \/ CheckTripPin(r) \/ WriteTrip(r) \/ Depart(r) \/ PriceQuote(r)
         \/ StoreOtp(r) \/ CountAttempt(r) \/ SpendCode(r) \/ CreateProof(r)
  PROVE  BackedInv'
<1>1. PICK n \in {"pin", "trip", "depart", "price", "store", "count", "spend",
                 "prove"} : At(r, n)
  BY DEF CheckTripPin, WriteTrip, Depart, PriceQuote, StoreOtp,
         CountAttempt, SpendCode, CreateProof
<1>2. plan[r] # <<>> /\ Names(plan[r]) # "proven"
  BY <1>1, AtIs
<1>3. ship' = ship
  BY DEF CheckTripPin, WriteTrip, Depart, PriceQuote, StoreOtp,
         CountAttempt, SpendCode, CreateProof
<1>4. spent \subseteq spent'
  BY DEF CheckTripPin, WriteTrip, Depart, PriceQuote, StoreOtp,
         CountAttempt, SpendCode, CreateProof
<1>5. proof => proof'
  BY DEF CheckTripPin, WriteTrip, Depart, PriceQuote, StoreOtp,
         CountAttempt, SpendCode, CreateProof
<1>6. GoOn(r) \/ GiveUp(r)
  BY DEF CheckTripPin, WriteTrip, Depart, PriceQuote, StoreOtp,
         CountAttempt, SpendCode, CreateProof
<1>7. VouchersStay
  BY <1>3, <1>4, <1>5 DEF VouchersStay
<1>8. PICK s : s = ship'.status
  OBVIOUS
<1>9. CASE GoOn(r)
  BY <1>2, <1>3, <1>7, <1>8, <1>9, BackedGoesOn
<1>10. CASE GiveUp(r)
  <2>1. PICK p : p = <<>>
    OBVIOUS
  <2>2. Backed(p)' /\ plan' = [plan EXCEPT ![r] = p]
    BY <1>10, <2>1 DEF Backed, GiveUp, Instead
  <2> QED
    BY <1>3, <1>7, <1>8, <2>2, BackedMoves
<1> QED
  BY <1>6, <1>9, <1>10

(* Steps that write the status.                                            *)
LEMMA BackedStatus ==
  ASSUME ShipIInv, BackedInv, MarkedByCode', NEW r \in ShipRequests,
         WriteBoth(r) \/ WriteShip(r) \/ AcceptQuote(r)
  PROVE  BackedInv'
<1>1. plan[r] # <<>> /\ Names(plan[r]) \in {"both", "ship", "accept"} /\ GoOn(r)
  BY AtIs DEF WriteBoth, WriteShip, AcceptQuote
<1>2. PICK p : p = plan[r]
  OBVIOUS
<1>3. Backed(p) /\ ShipRowsOK
  BY <1>2, InvGives DEF BackedInv
<1>4. PICK s : s = ship'.status
  OBVIOUS
<1>5. /\ VouchersStay /\ ship'.delivered = ship.delivered
      /\ StatusVouched(s)'
  <2>1. CASE WriteBoth(r)
    <3>1. /\ ship' = [ship EXCEPT !.status = p[1][2]]
          /\ spent' = spent /\ proof' = proof /\ p # <<>> /\ p[1][1] = "both"
      BY <1>2, <2>1 DEF WriteBoth, At
    <3>2. /\ VouchersStay /\ ship'.delivered = ship.delivered
          /\ s = p[1][2]
      BY <1>3, <1>4, <3>1 DEF VouchersStay, ShipRowsOK
    <3>3. StatusVouched(s)
      BY <1>3, <3>1, <3>2 DEF Backed
    <3> QED
      BY <3>2, <3>3, StatusStaysVouched
  <2>2. CASE WriteShip(r)
    <3>1. /\ ship' = [ship EXCEPT !.status = p[1][2],
                                  !.forced = @ \cup {k \in OtpTypes :
                                               VerifiedStatus[k] = p[1][2]}]
          /\ spent' = spent /\ proof' = proof /\ p # <<>> /\ p[1][1] = "ship"
      BY <1>2, <2>2 DEF WriteShip, At, Arg
    <3>2. /\ ship'.delivered = ship.delivered /\ s = p[1][2]
          /\ ship'.forced = ship.forced \cup {k \in OtpTypes :
                                             VerifiedStatus[k] = p[1][2]}
      BY <1>3, <1>4, <3>1 DEF ShipRowsOK
    <3>3. VouchersStay
      BY <3>1, <3>2 DEF VouchersStay
    <3>4. CASE StatusVouched(s)
      BY <3>2, <3>3, <3>4, StatusStaysVouched
    <3>5. CASE s = "PICKUP_VERIFIED"
      <4>1. "PICKUP" \in ship'.forced
        BY <3>2, <3>5 DEF OtpTypes, VerifiedStatus
      <4>2. VouchedFor("PICKUP")'
        BY <4>1 DEF VouchedFor
      <4> QED
        BY <3>2, <3>3, <3>5, <4>2 DEF StatusVouched, HandedOver
    <3>6. CASE s = "DELIVERY_VERIFIED"
      <4>1. "DELIVERY" \in ship'.forced
        BY <3>2, <3>6 DEF OtpTypes, VerifiedStatus
      <4>2. VouchedFor("DELIVERY")'
        BY <4>1 DEF VouchedFor
      <4> QED
        BY <3>2, <3>3, <3>6, <4>2 DEF StatusVouched, PickedUp
    <3> QED
      BY <1>3, <3>1, <3>2, <3>4, <3>5, <3>6 DEF Backed
  <2>3. CASE AcceptQuote(r)
    <3>1. /\ ship' = [ship EXCEPT !.status = "REQUESTED"]
          /\ spent' = spent /\ proof' = proof
      BY <2>3 DEF AcceptQuote
    <3>2. /\ VouchersStay /\ ship'.delivered = ship.delivered
          /\ s = "REQUESTED"
      BY <1>3, <1>4, <3>1 DEF VouchersStay, ShipRowsOK
    <3> QED
      BY <3>2, Unvouched DEF PickedUp, HandedOver
  <2> QED
    BY <2>1, <2>2, <2>3
<1> QED
  BY <1>1, <1>4, <1>5, BackedGoesOn

LEMMA BackedMark ==
  ASSUME ShipIInv, BackedInv, MarkedByCode', NEW r \in ShipRequests,
         MarkVerified(r)
  PROVE  BackedInv'
<1>1. plan[r] # <<>> /\ Names(plan[r]) = "verified" /\ GoOn(r)
  BY AtIs DEF MarkVerified
<1>2. PICK k : k = plan[r][1][2]
  OBVIOUS
<1>3. k \in OtpTypes /\ k \in spent /\ ShipRowsOK
  BY <1>1, <1>2, InvGives, RequestAtWork DEF PlanFacts, StepFacts
<1>4. PICK s : s = VerifiedStatus[k]
  OBVIOUS
<1>5. /\ ship' = IF k = "PICKUP"
                 THEN [ship EXCEPT !.status = "PICKUP_VERIFIED",
                                   !.pickupVerified = TRUE]
                 ELSE [ship EXCEPT !.status = "DELIVERY_VERIFIED",
                                   !.deliveryVerified = TRUE]
      /\ spent' = spent /\ proof' = proof
  BY <1>2 DEF MarkVerified, Arg, VerifiedStatus
<1>6. k \in {"PICKUP", "DELIVERY"}
  BY <1>3 DEF OtpTypes
<1>7. /\ ship'.status = s /\ ship'.delivered = ship.delivered
      /\ ship'.forced = ship.forced
  <2>1. CASE k = "PICKUP"
    BY <1>3, <1>4, <1>5, <2>1 DEF ShipRowsOK, VerifiedStatus
  <2>2. CASE k = "DELIVERY"
    BY <1>3, <1>4, <1>5, <2>2 DEF ShipRowsOK, VerifiedStatus
  <2> QED
    BY <1>6, <2>1, <2>2
<1>8. VouchersStay
  BY <1>5, <1>7 DEF VouchersStay
<1>9. StatusVouched(s)'
  BY <1>3, <1>4, <1>5, <1>6
  DEF StatusVouched, VouchedFor, VerifiedStatus, PickedUp, HandedOver
<1> QED
  BY <1>1, <1>7, <1>8, <1>9, BackedGoesOn

LEMMA BackedDeliveries ==
  ASSUME ShipIInv, BackedInv, MarkedByCode', NEW r \in ShipRequests,
         Deliver(r) \/ Resolve(r)
  PROVE  BackedInv'
<1>1. /\ plan[r] # <<>> /\ Names(plan[r]) \in {"deliver", "resolve"}
      /\ GoOn(r)
  BY AtIs DEF Deliver, Resolve
<1>2. PICK p : p = plan[r]
  OBVIOUS
<1>3. Backed(p) /\ ShipRowsOK
  BY <1>2, InvGives DEF BackedInv
<1>4. PICK s : s = "DELIVERED"
  OBVIOUS
<1>5. /\ ship'.status = s /\ VouchersStay
      /\ proof' /\ VouchedFor("DELIVERY")'
  <2>1. CASE Deliver(r)
    <3>1. /\ ship' = [ship EXCEPT !.status = "DELIVERED", !.delivered = TRUE]
          /\ spent' = spent /\ proof' = proof /\ p # <<>> /\ p[1][1] = "deliver"
      BY <1>2, <2>1 DEF Deliver, At
    <3>2. VouchedFor("DELIVERY") /\ proof
      BY <1>3, <3>1 DEF Backed, Delivers
    <3>3. ship'.status = s /\ ship'.forced = ship.forced
      BY <1>3, <1>4, <3>1 DEF ShipRowsOK
    <3> QED
      BY <3>1, <3>2, <3>3 DEF VouchersStay, VouchedFor
  <2>2. CASE Resolve(r)
    <3>1. /\ ship' = [ship EXCEPT !.status = "DELIVERED", !.delivered = TRUE,
                                  !.forced = @ \cup {"DELIVERY"}]
          /\ spent' = spent /\ proof'
      BY <2>2 DEF Resolve
    <3>2. ship'.status = s /\ ship'.forced = ship.forced \cup {"DELIVERY"}
      BY <1>3, <1>4, <3>1 DEF ShipRowsOK
    <3> QED
      BY <3>1, <3>2 DEF VouchersStay, VouchedFor
  <2> QED
    BY <2>1, <2>2
<1>6. StatusVouched(s)'
  BY <1>4, <1>5 DEF StatusVouched, PickedUp
<1> QED
  BY <1>1, <1>5, <1>6, BackedGoesOn

LEMMA BackedOthers ==
  ASSUME ShipIInv, BackedInv, MarkedByCode',
         \/ QuoteExpires \/ (\E k \in OtpTypes : CodeExpires(k))
         \/ UNCHANGED shipVars
  PROVE  BackedInv'
<1>1. /\ ship' = ship /\ spent' = spent /\ proof' = proof
      /\ plan' = plan
  BY DEF QuoteExpires, CodeExpires, shipVars, shipRows
<1>2. HandedOverByCode'
  BY <1>1 DEF BackedInv, HandedOverByCode, StatusVouched, VouchedFor
<1>3. \A q \in ShipRequests : Backed(plan[q])'
  BY <1>1 DEF BackedInv, Backed, Delivers, StatusVouched, VouchedFor
<1> QED
  BY <1>2, <1>3 DEF BackedInv

LEMMA BackedStep ==
  ASSUME ShipIInv, BackedInv, [ShipNext]_shipVars
  PROVE  BackedInv'
<1>1. MarkedByCode'
  BY ShipmentsStep DEF ShipIInv
<1>2. ASSUME NEW r \in ShipRequests, PlanStep(r)
      PROVE  BackedInv'
  BY <1>1, <1>2, BackedReads, BackedRows, BackedStatus, BackedMark,
     BackedDeliveries DEF PlanStep
<1>3. ASSUME NEW r \in ShipRequests, RequestStops(r)
      PROVE  BackedInv'
  <2>1. PICK p : p = <<>>
    OBVIOUS
  <2>2. plan' = [plan EXCEPT ![r] = p] /\ UNCHANGED shipRows /\ Backed(p)
    BY <1>3, <2>1 DEF RequestStops, Backed
  <2> QED
    BY <1>1, <2>2, BackedLooks
<1> QED
  BY <1>1, <1>2, <1>3, BackedSender, BackedDriver, BackedAdmin, BackedTrip,
     BackedOthers DEF ShipNext

LEMMA BackedInit ==
  ASSUME ShipInit
  PROVE  BackedInv
<1>1. MarkedByCode /\ plan = [r \in ShipRequests |-> <<>>]
  BY ShipmentsInit DEF ShipIInv, ShipInit
<1>2. PICK n \in {"REQUESTED", "NONE"} : ship = [Seeded EXCEPT !.status = n]
  <2>1. CASE ship = Seeded
    <3>1. Seeded = [Seeded EXCEPT !.status = "REQUESTED"]
      BY DEF Seeded
    <3> QED
      BY <2>1, <3>1
  <2>2. CASE ship = [Seeded EXCEPT !.status = "NONE"]
    BY <2>2
  <2> QED
    BY <2>1, <2>2 DEF ShipInit
<1>3. ship.status = n /\ ship.delivered = FALSE
  BY <1>2 DEF Seeded
<1> QED
  BY <1>1, <1>2, <1>3
  DEF BackedInv, HandedOverByCode, StatusVouched, PickedUp, HandedOver, Backed

(* A parcel is under way only after its pickup code, and delivered only    *)
(* after its delivery code, has been used up by verifyOtp, or an admin has *)
(* written the status instead; the times of verification are set only by   *)
(* codes, and the time of delivery only with a proof: whatever overlaps,   *)
(* throws or dies.                                                         *)
THEOREM ShipmentsAreHandedOverByCode ==
  ShipSpec => []HandedOverByCode
<1>1. ShipInit => BackedInv
  BY BackedInit
<1>2. ShipIInv /\ BackedInv /\ [ShipNext]_shipVars => BackedInv'
  BY BackedStep
<1>3. BackedInv => HandedOverByCode
  BY DEF BackedInv
<1> QED
  BY <1>1, <1>2, <1>3, ShipmentsInvariant, PTL DEF ShipSpec
=============================================================================
