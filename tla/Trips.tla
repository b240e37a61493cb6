-------------------------------- MODULE Trips --------------------------------
(***************************************************************************)
(* The life of a ride: booked with a fare quote, offered to drivers one    *)
(* after the other or taken by one of them, started with the rider's PIN,  *)
(* completed, cancelled or expired.                                        *)
(*                                                                         *)
(* Every operation reads the trip, decides, and then updates it by its id  *)
(* alone; the reads and the update are steps of their own, also inside a   *)
(* $transaction, because PostgreSQL runs it read committed.  A dispatch is *)
(* one long request that waits for its drivers under a Redis lock with a   *)
(* time to live.                                                           *)
(***************************************************************************)
EXTENDS Integers, FiniteSets

CONSTANTS
  TripIds, Riders, Drivers, Quotes,
  Requests,              \* concurrent requests of riders, drivers, admins
  Dispatchers,           \* concurrent calls of dispatchTrip
  None,
  MaxFailedPinAttempts,  \* MAX_FAILED_PIN_ATTEMPTS
  MaxUpsets              \* bound: assignments by an admin's order, locks that
                         \* lapse under their holder, exceptions and crashes

VARIABLES
  trip,      \* trip[t]: the Trip row
  quote,     \* quote[q]: the status of the FareQuote row
  duty,      \* duty[d]: the driver's currentStatus
  verified,  \* verified[t]: the right PIN has been given for t (history)
  rpc, req,  \* rpc[r], req[r]: where request r is and what it has read
  lock,      \* lock[t]: whose token the Redis key of t holds
  session,   \* session[t]: the dispatch that waits for a driver's decision
  dpc, run,  \* dpc[x], run[x]: where dispatch x is and whom it asks
  overrides, lapses, crashes

rows == <<trip, quote, duty, verified>>
requestVars == <<rpc, req>>
dispatchVars == <<lock, session, dpc, run>>
bounds == <<overrides, lapses, crashes>>
vars == <<rows, requestVars, dispatchVars, bounds>>

TripStatus ==
  {"NONE", "REQUESTED", "DRIVER_ASSIGNED", "DRIVER_ARRIVING",
   "DRIVER_ARRIVED", "PIN_VERIFIED", "IN_PROGRESS", "COMPLETED",
   "CANCELLED_BY_RIDER", "CANCELLED_BY_DRIVER", "EXPIRED", "DISPUTED"}
Terminal == {"COMPLETED", "CANCELLED_BY_RIDER", "CANCELLED_BY_DRIVER",
             "EXPIRED", "DISPUTED"}
DriverActive == {"DRIVER_ASSIGNED", "DRIVER_ARRIVING", "DRIVER_ARRIVED",
                 "PIN_VERIFIED", "IN_PROGRESS"}
RiderActive == DriverActive \cup {"REQUESTED"}
Started == {"PIN_VERIFIED", "IN_PROGRESS", "COMPLETED", "DISPUTED"}

Rows == [status : TripStatus, rider : Riders \cup {None},
         driver : Drivers \cup {None}, pin : BOOLEAN, attempts : Nat,
         flagged : BOOLEAN]
RequestPcs ==
  {"idle", "pin", "expirePin", "wrongPin", "rightPin", "write", "acceptRead",
   "acceptWrite", "take", "refuse", "tellTaken", "tellRefused", "readQuote",
   "expireQuote", "book"}
Reqs == [trip : TripIds, driver : Drivers \cup {None}, next : TripStatus,
         attempts : Nat, rider : Riders \cup {None},
         quote : Quotes \cup {None}]
DispatchPcs == {"idle", "check", "ask", "listen", "wait", "expire",
                "release", "delete"}
Runs == [trip : TripIds, todo : SUBSET Drivers, asked : Drivers \cup {None}]

ASSUME TripsAssumption ==
  /\ None \notin Drivers \cup Riders \cup Quotes \cup Dispatchers
  /\ None \notin Reqs \cup Runs
  /\ MaxFailedPinAttempts \in Nat \ {0}
  /\ MaxUpsets \in Nat

RowsOK ==
  /\ trip \in [TripIds -> Rows]
  /\ quote \in [Quotes -> {"ACTIVE", "CONSUMED", "EXPIRED"}]
  /\ duty \in [Drivers -> {"OFFLINE", "AVAILABLE", "ON_TRIP"}]
  /\ verified \in [TripIds -> BOOLEAN]

RequestsOK ==
  /\ rpc \in [Requests -> RequestPcs]
  /\ req \in [Requests -> Reqs \cup {None}]
  /\ \A r \in Requests : rpc[r] = "idle" <=> req[r] = None

DispatchesOK ==
  /\ lock \in [TripIds -> Dispatchers \cup {None}]
  /\ session \in [TripIds -> Dispatchers \cup {None}]
  /\ dpc \in [Dispatchers -> DispatchPcs]
  /\ run \in [Dispatchers -> Runs \cup {None}]
  /\ \A x \in Dispatchers : dpc[x] = "idle" <=> run[x] = None
  /\ \A t \in TripIds : session[t] # None =>
       dpc[session[t]] = "wait" /\ run[session[t]].trip = t

TypeOK ==
  /\ RowsOK /\ RequestsOK /\ DispatchesOK
  /\ overrides \in Nat /\ lapses \in Nat /\ crashes \in Nat

Init ==
  /\ trip = [t \in TripIds |->
               [status |-> "NONE", rider |-> None, driver |-> None,
                pin |-> FALSE, attempts |-> 0, flagged |-> FALSE]]
  /\ quote = [q \in Quotes |-> "ACTIVE"]
  /\ duty = [d \in Drivers |-> "OFFLINE"]
  /\ verified = [t \in TripIds |-> FALSE]
  /\ rpc = [r \in Requests |-> "idle"]
  /\ req = [r \in Requests |-> None]
  /\ lock = [t \in TripIds |-> None]
  /\ session = [t \in TripIds |-> None]
  /\ dpc = [x \in Dispatchers |-> "idle"]
  /\ run = [x \in Dispatchers |-> None]
  /\ overrides = 0 /\ lapses = 0 /\ crashes = 0
-----------------------------------------------------------------------------
(* The bound on what comes from outside.                                   *)
MayUpset == overrides + lapses + crashes < MaxUpsets

(* How a request begins, goes on and ends.                                 *)

Request(t) == [trip |-> t, driver |-> None, next |-> "NONE", attempts |-> 0,
               rider |-> None, quote |-> None]

Begin(r, pc, what) ==
  /\ rpc[r] = "idle"
  /\ rpc' = [rpc EXCEPT ![r] = pc]
  /\ req' = [req EXCEPT ![r] = what]

Goto(r, pc) ==
  /\ rpc' = [rpc EXCEPT ![r] = pc]
  /\ UNCHANGED req

End(r) ==
  /\ rpc' = [rpc EXCEPT ![r] = "idle"]
  /\ req' = [req EXCEPT ![r] = None]

PinCleared(row) == [row EXCEPT !.pin = FALSE, !.attempts = 0,
                               !.flagged = FALSE]
-----------------------------------------------------------------------------
(* createTrip: the rider has no trip that is under way, ...                *)

(* Bug: a trip that a driver has accepted is not looked for.               *)
MayBookAfterAccept(p) ==
  \A u \in TripIds : ~(trip[u].rider = p /\ trip[u].status = "REQUESTED")

MayBook(p) ==
  \A u \in TripIds :
    ~(trip[u].rider = p /\ trip[u].status \in RiderActive)

Book(r, p, t, q) ==
  /\ trip[t].status = "NONE"
  /\ MayBook(p)
  /\ Begin(r, "readQuote", [Request(t) EXCEPT !.rider = p, !.quote = q])
  /\ UNCHANGED <<rows, dispatchVars, bounds>>

(* ... the quote is active and not out of date, ...                        *)
ReadQuote(r) ==
  /\ rpc[r] = "readQuote"
  /\ \/ /\ quote[req[r].quote] = "ACTIVE"
        /\ \E pc \in {"book", "expireQuote"} : Goto(r, pc)
     \/ /\ quote[req[r].quote] # "ACTIVE"
        /\ End(r)
  /\ UNCHANGED <<rows, dispatchVars, bounds>>

ExpireQuote(r) ==
  /\ rpc[r] = "expireQuote"
  /\ quote' = [quote EXCEPT ![req[r].quote] = "EXPIRED"]
  /\ End(r)
  /\ UNCHANGED <<trip, duty, verified, dispatchVars, bounds>>

(* ... and the trip is created and the quote consumed in one transaction.  *)
CreateTrip(r) ==
  /\ rpc[r] = "book"
  /\ trip[req[r].trip].status = "NONE"
  /\ trip' = [trip EXCEPT ![req[r].trip].status = "REQUESTED",
                          ![req[r].trip].rider = req[r].rider]
  /\ quote' = [quote EXCEPT ![req[r].quote] = "CONSUMED"]
  /\ End(r)
  /\ UNCHANGED <<duty, verified, dispatchVars, bounds>>
-----------------------------------------------------------------------------
(* transition, by a rider, a driver or an admin.                           *)

ALLOWED_TRANSITIONS ==
  { <<"REQUESTED", "DRIVER_ASSIGNED">>, <<"REQUESTED", "EXPIRED">>,
    <<"REQUESTED", "CANCELLED_BY_RIDER">>,
    <<"DRIVER_ASSIGNED", "DRIVER_ARRIVING">>,
    <<"DRIVER_ASSIGNED", "EXPIRED">>,
    <<"DRIVER_ARRIVING", "DRIVER_ARRIVED">>,
    <<"DRIVER_ARRIVING", "EXPIRED">>,
    <<"DRIVER_ARRIVED", "PIN_VERIFIED">>,
    <<"DRIVER_ARRIVED", "IN_PROGRESS">>,
    <<"PIN_VERIFIED", "IN_PROGRESS">>,
    <<"IN_PROGRESS", "COMPLETED">>, <<"IN_PROGRESS", "DISPUTED">>,
    <<"IN_PROGRESS", "CANCELLED_BY_DRIVER">> }
  \cup {"DRIVER_ASSIGNED", "DRIVER_ARRIVING", "DRIVER_ARRIVED",
        "PIN_VERIFIED"} \X {"CANCELLED_BY_RIDER", "CANCELLED_BY_DRIVER"}

(* Bug: only the table decides, and it has DRIVER_ARRIVED to IN_PROGRESS.  *)
AdmittedByTable(status, next) == <<status, next>> \in ALLOWED_TRANSITIONS

Admitted(status, next) ==
  /\ <<status, next>> \in ALLOWED_TRANSITIONS
  /\ next = "IN_PROGRESS" => status = "PIN_VERIFIED"

Transition(r, t, next) ==
  /\ Admitted(trip[t].status, next)
  /\ Begin(r, IF next = "PIN_VERIFIED" THEN "pin" ELSE "write",
           [Request(t) EXCEPT !.next = next])
  /\ UNCHANGED <<rows, dispatchVars, bounds>>

(* The PIN is read again: there must be one, the trip must not be flagged, *)
(* and the PIN may be out of date, wrong or right.                         *)
CheckPin(r) ==
  LET t == req[r].trip
  IN  /\ rpc[r] = "pin"
      /\ \/ /\ ~trip[t].pin \/ trip[t].flagged
            /\ End(r)
            /\ UNCHANGED verified
         \/ /\ trip[t].pin /\ ~trip[t].flagged
            /\ Goto(r, "expirePin")
            /\ UNCHANGED verified
         \/ /\ trip[t].pin /\ ~trip[t].flagged
            /\ rpc' = [rpc EXCEPT ![r] = "wrongPin"]
            /\ req' = [req EXCEPT ![r].attempts = trip[t].attempts]
            /\ UNCHANGED verified
         \/ /\ trip[t].pin /\ ~trip[t].flagged
            /\ Goto(r, "rightPin")
            /\ verified' = [verified EXCEPT ![t] = TRUE]
      /\ UNCHANGED <<trip, quote, duty, dispatchVars, bounds>>

ExpirePin(r) ==
  /\ rpc[r] = "expirePin"
  /\ trip' = [trip EXCEPT ![req[r].trip].pin = FALSE,
                          ![req[r].trip].attempts = 0]
  /\ End(r)
  /\ UNCHANGED <<quote, duty, verified, dispatchVars, bounds>>

(* The number of attempts is the one that was read, plus one.              *)
CountWrongPin(r) ==
  LET attempts == req[r].attempts + 1
  IN  /\ rpc[r] = "wrongPin"
      /\ trip' = [trip EXCEPT
                    ![req[r].trip].attempts = attempts,
                    ![req[r].trip].flagged =
                       @ \/ attempts >= MaxFailedPinAttempts]
      /\ End(r)
      /\ UNCHANGED <<quote, duty, verified, dispatchVars, bounds>>

(* The PIN is used up before the status changes.                           *)
ClearPin(r) ==
  /\ rpc[r] = "rightPin"
  /\ trip' = [trip EXCEPT ![req[r].trip] = PinCleared(@)]
  /\ Goto(r, "write")
  /\ UNCHANGED <<quote, duty, verified, dispatchVars, bounds>>

WriteTransition(r) ==
  /\ rpc[r] = "write"
  /\ trip' = [trip EXCEPT ![req[r].trip].status = req[r].next]
  /\ End(r)
  /\ UNCHANGED <<quote, duty, verified, dispatchVars, bounds>>
-----------------------------------------------------------------------------
(* The driver's side.                                                      *)

(* activateDriverOnline looks at documents and at nothing else.            *)
GoOnline(d) ==
  /\ duty' = [duty EXCEPT ![d] = "AVAILABLE"]
  /\ UNCHANGED <<trip, quote, verified, requestVars, dispatchVars, bounds>>

(* Bug: the driver's currentStatus is taken for enough.                    *)
FreeByDuty(d) == duty[d] = "AVAILABLE"

Free(d) ==
  /\ duty[d] = "AVAILABLE"
  /\ \A t \in TripIds :
       ~(trip[t].driver = d /\ trip[t].status \in DriverActive)

(* driverAcceptTrip: the driver is read outside the transaction, the trip  *)
(* inside, and both are written by id.                                     *)
DriverAccept(r, d, t) ==
  /\ Free(d)
  /\ Begin(r, "acceptRead", [Request(t) EXCEPT !.driver = d])
  /\ UNCHANGED <<rows, dispatchVars, bounds>>

AcceptRead(r) ==
  /\ rpc[r] = "acceptRead"
  /\ \/ trip[req[r].trip].status = "REQUESTED" /\ Goto(r, "acceptWrite")
     \/ trip[req[r].trip].status # "REQUESTED" /\ End(r)
  /\ UNCHANGED <<rows, dispatchVars, bounds>>

AcceptWrite(r) ==
  /\ rpc[r] = "acceptWrite"
  /\ trip' = [trip EXCEPT ![req[r].trip].driver = req[r].driver,
                          ![req[r].trip].status = "DRIVER_ARRIVING",
                          ![req[r].trip].pin = TRUE]
  /\ duty' = [duty EXCEPT ![req[r].driver] = "ON_TRIP"]
  /\ End(r)
  /\ UNCHANGED <<quote, verified, dispatchVars, bounds>>

(* acceptDispatch and rejectDispatch: only for the driver that was asked;  *)
(* the driver's own row is left alone.                                     *)
AnswerDispatch(r, d, t) ==
  /\ trip[t].status = "DRIVER_ASSIGNED"
  /\ trip[t].driver = d
  /\ \E pc \in {"take", "refuse"} :
       Begin(r, pc, [Request(t) EXCEPT !.driver = d])
  /\ UNCHANGED <<rows, dispatchVars, bounds>>

TakeTrip(r) ==
  /\ rpc[r] = "take"
  /\ trip' = [trip EXCEPT ![req[r].trip].status = "DRIVER_ARRIVING"]
  /\ Goto(r, "tellTaken")
  /\ UNCHANGED <<quote, duty, verified, dispatchVars, bounds>>

RefuseTrip(r) ==
  /\ rpc[r] = "refuse"
  /\ trip' = [trip EXCEPT ![req[r].trip] =
                PinCleared([@ EXCEPT !.status = "REQUESTED"])]
  /\ Goto(r, "tellRefused")
  /\ UNCHANGED <<quote, duty, verified, dispatchVars, bounds>>
-----------------------------------------------------------------------------
(* dispatchTrip, under the lock of the trip.                               *)

(* Bug: the lock is set without NX.                                        *)
AcquireAlways(x, t) ==
  /\ dpc[x] = "idle"
  /\ lock' = [lock EXCEPT ![t] = x]

Acquire(x, t) ==
  /\ dpc[x] = "idle"
  /\ lock[t] = None
  /\ lock' = [lock EXCEPT ![t] = x]

StartDispatch(x, t) ==
  /\ Acquire(x, t)
  /\ dpc' = [dpc EXCEPT ![x] = "check"]
  /\ run' = [run EXCEPT ![x] = [trip |-> t, todo |-> {}, asked |-> None]]
  /\ UNCHANGED <<rows, requestVars, session, bounds>>

Proceed(x, pc) ==
  /\ dpc' = [dpc EXCEPT ![x] = pc]
  /\ UNCHANGED run

(* The trip must be REQUESTED; the candidates are some of the AVAILABLE    *)
(* drivers, those with a fitting vehicle nearby.                           *)
CheckDispatch(x) ==
  /\ dpc[x] = "check"
  /\ \/ /\ trip[run[x].trip].status = "REQUESTED"
        /\ \E near \in SUBSET {d \in Drivers : duty[d] = "AVAILABLE"} :
             /\ near # {}
             /\ run' = [run EXCEPT ![x].todo = near]
        /\ dpc' = [dpc EXCEPT ![x] = "ask"]
     \/ Proceed(x, "release")
  /\ UNCHANGED <<rows, requestVars, lock, session, bounds>>

(* The next candidate is assigned, whatever has become of the trip while   *)
(* the last one was thinking.                                              *)
Ask(x) ==
  /\ dpc[x] = "ask"
  /\ \E d \in run[x].todo :
       /\ trip' = [trip EXCEPT ![run[x].trip].driver = d,
                               ![run[x].trip].status = "DRIVER_ASSIGNED",
                               ![run[x].trip].pin = TRUE]
       /\ run' = [run EXCEPT ![x] = [run[x] EXCEPT !.todo = run[x].todo \ {d},
                                                 !.asked = d]]
  /\ dpc' = [dpc EXCEPT ![x] = "listen"]
  /\ UNCHANGED <<quote, duty, verified, requestVars, lock, session, bounds>>

(* waitForDriverDecision, once the assignment is committed.                *)
Listen(x) ==
  /\ dpc[x] = "listen"
  /\ \/ /\ session[run[x].trip] = None
        /\ session' = [session EXCEPT ![run[x].trip] = x]
        /\ Proceed(x, "wait")
     \/ /\ session[run[x].trip] # None
        /\ Proceed(x, "release")
        /\ UNCHANGED session
  /\ UNCHANGED <<rows, requestVars, lock, bounds>>

Onward(x) == IF run[x].todo = {} THEN "expire" ELSE "ask"

DecisionTimesOut(x) ==
  /\ dpc[x] = "wait"
  /\ session' = [session EXCEPT ![run[x].trip] = None]
  /\ Proceed(x, Onward(x))
  /\ UNCHANGED <<rows, requestVars, lock, bounds>>

(* resolveDispatchSession: an answer counts only if a dispatch is waiting  *)
(* for this very driver.                                                   *)
TellDispatch(r) ==
  LET t == req[r].trip
      x == session[t]
      awaited == x # None /\ run[x].asked = req[r].driver
  IN  /\ rpc[r] \in {"tellTaken", "tellRefused"}
      /\ \/ /\ awaited
            /\ session' = [session EXCEPT ![t] = None]
            /\ Proceed(x, IF rpc[r] = "tellTaken" THEN "release"
                          ELSE Onward(x))
         \/ /\ ~awaited
            /\ UNCHANGED <<session, dpc, run>>
      /\ End(r)
      /\ UNCHANGED <<rows, lock, bounds>>

(* Nobody has accepted.                                                    *)
ExpireTrip(x) ==
  /\ dpc[x] = "expire"
  /\ trip' = [trip EXCEPT ![run[x].trip] =
                PinCleared([@ EXCEPT !.status = "EXPIRED"])]
  /\ Proceed(x, "release")
  /\ UNCHANGED <<quote, duty, verified, requestVars, lock, session, bounds>>

(* Bug: the candidates of a dispatch that is over are kept.                *)
StopKeepsRun(x) ==
  /\ dpc' = [dpc EXCEPT ![x] = "idle"]
  /\ UNCHANGED run

Stop(x) ==
  /\ dpc' = [dpc EXCEPT ![x] = "idle"]
  /\ run' = [run EXCEPT ![x] = None]

(* releaseLock compares the token and then deletes the key, in two calls.  *)
ReleaseLock(x) ==
  /\ dpc[x] = "release"
  /\ \/ lock[run[x].trip] = x /\ Proceed(x, "delete")
     \/ lock[run[x].trip] # x /\ Stop(x)
  /\ UNCHANGED <<rows, requestVars, lock, session, bounds>>

DeleteLock(x) ==
  /\ dpc[x] = "delete"
  /\ lock' = [lock EXCEPT ![run[x].trip] = None]
  /\ Stop(x)
  /\ UNCHANGED <<rows, requestVars, session, bounds>>

Holds(x, t) == dpc[x] # "idle" /\ run[x].trip = t

(* The key outlives neither its time to live nor, for long, its holder.    *)
LockLapses(t) ==
  /\ lock[t] # None
  /\ lock' = [lock EXCEPT ![t] = None]
  /\ \/ Holds(lock[t], t) /\ MayUpset /\ lapses' = lapses + 1
     \/ ~Holds(lock[t], t) /\ UNCHANGED lapses
  /\ UNCHANGED <<rows, requestVars, session, dpc, run, overrides, crashes>>
-----------------------------------------------------------------------------
(* AdminService.dispatchTask assigns a driver unconditionally.             *)
DispatchTask(t, d) ==
  /\ MayUpset
  /\ trip[t].status # "NONE"
  /\ overrides' = overrides + 1
  /\ trip' = [trip EXCEPT ![t].driver = d, ![t].status = "DRIVER_ASSIGNED"]
  /\ UNCHANGED <<quote, duty, verified, requestVars, dispatchVars, lapses,
                 crashes>>

(* A database call of a request throws.                                    *)
RequestThrows(r) ==
  /\ MayUpset
  /\ rpc[r] \notin {"idle", "tellTaken", "tellRefused"}
  /\ crashes' = crashes + 1
  /\ End(r)
  /\ UNCHANGED <<rows, dispatchVars, overrides, lapses>>

(* A call of a dispatch throws; the finally clause tries to release the    *)
(* lock, unless that is what has thrown.                                   *)
DispatchThrows(x) ==
  /\ MayUpset
  /\ \/ dpc[x] \in {"ask", "expire"} /\ Proceed(x, "release")
     \/ dpc[x] \in {"release", "delete"} /\ Stop(x)
  /\ crashes' = crashes + 1
  /\ UNCHANGED <<rows, requestVars, lock, session, overrides, lapses>>

(* The process dies, with its requests, its dispatches and its sessions;   *)
(* the rows and the locks stay.                                            *)
ProcessCrash ==
  /\ MayUpset
  /\ crashes' = crashes + 1
  /\ rpc' = [r \in Requests |-> "idle"]
  /\ req' = [r \in Requests |-> None]
  /\ session' = [t \in TripIds |-> None]
  /\ dpc' = [x \in Dispatchers |-> "idle"]
  /\ run' = [x \in Dispatchers |-> None]
  /\ UNCHANGED <<rows, lock, overrides, lapses>>
-----------------------------------------------------------------------------
StartRequest(r) ==
  \E t \in TripIds :
    \/ \E p \in Riders, q \in Quotes : Book(r, p, t, q)
    \/ \E next \in TripStatus : Transition(r, t, next)
    \/ \E d \in Drivers : DriverAccept(r, d, t) \/ AnswerDispatch(r, d, t)

RequestStep(r) ==
  \/ ReadQuote(r)
  \/ ExpireQuote(r)
  \/ CreateTrip(r)
  \/ CheckPin(r)
  \/ ExpirePin(r)
  \/ CountWrongPin(r)
  \/ ClearPin(r)
  \/ WriteTransition(r)
  \/ AcceptRead(r)
  \/ AcceptWrite(r)
  \/ TakeTrip(r)
  \/ RefuseTrip(r)
  \/ TellDispatch(r)

DispatchStep(x) ==
  \/ CheckDispatch(x)
  \/ Ask(x)
  \/ Listen(x)
  \/ DecisionTimesOut(x)
  \/ ExpireTrip(x)
  \/ ReleaseLock(x)
  \/ DeleteLock(x)

Next ==
  \/ \E r \in Requests : StartRequest(r) \/ RequestStep(r) \/ RequestThrows(r)
  \/ \E x \in Dispatchers :
       \/ \E t \in TripIds : StartDispatch(x, t)
       \/ DispatchStep(x)
       \/ DispatchThrows(x)
  \/ \E t \in TripIds : LockLapses(t)
  \/ \E t \in TripIds, d \in Drivers : DispatchTask(t, d)
  \/ \E d \in Drivers : GoOnline(d)
  \/ ProcessCrash

Spec == Init /\ [][Next]_vars
-----------------------------------------------------------------------------
(* PRD.md, 14.1: a trip does not start before its PIN has been verified.   *)
(* However requests and dispatches overlap, a trip that is started,        *)
(* completed or disputed has had the right PIN, and it has a driver.       *)
StartIsEarned ==
  \A t \in TripIds : trip[t].status \in Started =>
    verified[t] /\ trip[t].driver # None

(* What makes it inductive: a PIN is only ever set together with a driver, *)
(* who is replaced but never taken away, only a driver accepts, and a      *)
(* request that is about to write a started status has seen the PIN        *)
(* verified or verified it.                                                *)
PinsHaveDrivers ==
  \A t \in TripIds : trip[t].pin => trip[t].driver # None

WritesAreEarned ==
  \A r \in Requests :
    \/ rpc[r] = "rightPin"
    \/ rpc[r] = "write" /\ req[r].next \in Started
    => verified[req[r].trip] /\ trip[req[r].trip].driver # None

Accepting ==
  \A r \in Requests :
    rpc[r] \in {"acceptRead", "acceptWrite"} => req[r].driver # None

StartInv ==
  TypeOK /\ Accepting /\ StartIsEarned /\ PinsHaveDrivers /\ WritesAreEarned

(* As long as no lock lapses under its holder, a trip is dispatched by one *)
(* dispatch at a time.                                                     *)
OneDispatch ==
  lapses = 0 =>
    \A t \in TripIds, x, y \in Dispatchers :
      Holds(x, t) /\ Holds(y, t) => x = y

HoldersHold ==
  lapses = 0 =>
    \A t \in TripIds, x \in Dispatchers : Holds(x, t) => lock[t] = x

DispatchInv == TypeOK /\ HoldersHold
-----------------------------------------------------------------------------
(* What holds when requests do not overlap and nobody dispatches.          *)

(* A driver is on one trip at a time, although going online again makes a  *)
(* driver who is ON_TRIP look AVAILABLE.                                   *)
OneTripPerDriver ==
  \A d \in Drivers :
    Cardinality({t \in TripIds : /\ trip[t].driver = d
                                 /\ trip[t].status \in DriverActive}) <= 1

(* A rider has one trip under way.                                         *)
OneTripPerRider ==
  \A p \in Riders :
    Cardinality({t \in TripIds : /\ trip[t].rider = p
                                 /\ trip[t].status \in RiderActive}) <= 1

(* What makes the two inductive: a trip without an accepted driver has     *)
(* none at all, and what a request has read still holds when it writes.    *)
DriversApart ==
  \A t, u \in TripIds :
    /\ trip[t].driver # None /\ trip[t].driver = trip[u].driver
    /\ {trip[t].status, trip[u].status} \subseteq DriverActive
    => t = u

RidersApart ==
  \A t, u \in TripIds :
    /\ trip[t].rider # None /\ trip[t].rider = trip[u].rider
    /\ {trip[t].status, trip[u].status} \subseteq RiderActive
    => t = u

UnacceptedHaveNoDriver ==
  \A t \in TripIds :
    trip[t].status \in {"NONE", "REQUESTED", "DRIVER_ASSIGNED"} =>
      trip[t].driver = None

ReadsStand(r) ==
  LET t == req[r].trip
  IN  /\ rpc[r] \in {"pin", "expirePin", "wrongPin", "rightPin", "write"} =>
           Admitted(trip[t].status, req[r].next)
      /\ rpc[r] \in {"acceptRead", "acceptWrite"} =>
           \A u \in TripIds : ~(/\ trip[u].driver = req[r].driver
                                /\ trip[u].status \in DriverActive)
      /\ rpc[r] = "acceptWrite" => trip[t].status = "REQUESTED"
      /\ rpc[r] \in {"readQuote", "expireQuote", "book"} =>
           MayBook(req[r].rider)
      /\ rpc[r] \notin {"take", "refuse", "tellTaken", "tellRefused"}

SerialInv ==
  /\ DriversApart /\ RidersApart /\ UnacceptedHaveNoDriver
  /\ \A r \in Requests : ReadsStand(r)
=============================================================================
