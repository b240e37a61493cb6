------------------------------ MODULE Shipments -----------------------------
(***************************************************************************)
(* One shipment and the trip it rides on.  Each has a status of its own,   *)
(* and every operation of ShipmentsService that changes one should bring   *)
(* the other along; the sender quotes, books and cancels, the driver works *)
(* through pickup and delivery with a one-time code at each, and an admin  *)
(* may override any of it.  The trip can be moved without the shipment,    *)
(* through the endpoints of trips.                                         *)
(*                                                                         *)
(* A request reads and checks first and writes by id later, one row or one *)
(* transaction at a time: plan[r] lists the steps it still has to take.    *)
(* Which driver is assigned makes no difference to any status, only that   *)
(* there is one; dispatch is in Trips.                                     *)
(***************************************************************************)
EXTENDS Naturals, Sequences

CONSTANTS
  ShipRequests,     \* requests under way at once
  OTP_MAX_ATTEMPTS,
  MaxShipUpsets,    \* bound: overrides by an admin and requests that throw
                    \* or die on the way
  MaxOverlaps       \* bound: requests that begin while another is under way

VARIABLES
  ship,       \* status, assigned (driverProfileId is set), and whether
              \* pickupVerifiedAt, deliveryVerifiedAt, deliveredAt are set;
              \* forced, of its history: the codes an admin stood in for
  shipTrip,   \* status, and whether there is a PIN
  shipQuote,  \* the ShipmentQuote
  code,       \* code[k]: the ShipmentOtp of kind k; known: somebody was told;
              \* tries, of its history: the wrong attempts that were counted
  proof,      \* there is a ShipmentProof
  spent,      \* the kinds of which a right code has been given
  plan,       \* plan[r]: the steps request r still has to take
  upsets, overlaps

shipRows == <<ship, shipTrip, shipQuote, code, proof, spent>>
shipVars == <<shipRows, plan, upsets, overlaps>>

OtpTypes == {"PICKUP", "DELIVERY"}

(* ShipmentStateMachine.ALLOWED_TRANSITIONS *)
Allowed ==
  [ DRAFT |-> {"QUOTED", "CANCELLED"},
    QUOTED |-> {"REQUESTED", "CANCELLED", "EXPIRED"},
    REQUESTED |-> {"DRIVER_ASSIGNED", "CANCELLED", "EXPIRED"},
    DRIVER_ASSIGNED |-> {"PICKUP_ARRIVED", "CANCELLED", "EXPIRED"},
    PICKUP_ARRIVED |-> {"PICKUP_VERIFIED", "CANCELLED"},
    PICKUP_VERIFIED |-> {"IN_TRANSIT", "CANCELLED"},
    IN_TRANSIT |-> {"DELIVERY_ARRIVED", "CANCELLED"},
    DELIVERY_ARRIVED |-> {"DELIVERY_VERIFIED", "CANCELLED"},
    DELIVERY_VERIFIED |-> {"DELIVERED"},
    DELIVERED |-> {}, CANCELLED |-> {}, DISPUTED |-> {}, EXPIRED |-> {} ]

(* The trips' own ALLOWED_TRANSITIONS; IN_PROGRESS only from PIN_VERIFIED. *)
TripAllowed ==
  [ DRAFT |-> {"QUOTED"},
    QUOTED |-> {"REQUESTED", "EXPIRED"},
    REQUESTED |-> {"DRIVER_ASSIGNED", "CANCELLED_BY_RIDER", "EXPIRED"},
    DRIVER_ASSIGNED |-> {"DRIVER_ARRIVING", "CANCELLED_BY_RIDER",
                         "CANCELLED_BY_DRIVER", "EXPIRED"},
    DRIVER_ARRIVING |-> {"DRIVER_ARRIVED", "CANCELLED_BY_RIDER",
                         "CANCELLED_BY_DRIVER", "EXPIRED"},
    DRIVER_ARRIVED |-> {"PIN_VERIFIED", "CANCELLED_BY_RIDER",
                        "CANCELLED_BY_DRIVER"},
    PIN_VERIFIED |-> {"IN_PROGRESS", "CANCELLED_BY_RIDER",
                      "CANCELLED_BY_DRIVER"},
    IN_PROGRESS |-> {"COMPLETED", "CANCELLED_BY_DRIVER", "DISPUTED"},
    COMPLETED |-> {}, CANCELLED_BY_RIDER |-> {}, CANCELLED_BY_DRIVER |-> {},
    EXPIRED |-> {}, DISPUTED |-> {}, NONE |-> {} ]

ShipmentStatus == DOMAIN Allowed
ShipTripStatus == DOMAIN TripAllowed
ShipTerminal == {"DELIVERED", "CANCELLED", "DISPUTED", "EXPIRED"}
TripCancelled == {"CANCELLED_BY_RIDER", "CANCELLED_BY_DRIVER"}

Steps ==
  {<<name>> : name \in {"price", "accept", "take", "depart", "proven",
                        "prove", "deliver", "resolve", "pin"}}
  \cup {<<name, k>> : name \in {"generate", "store", "verify", "spend",
                                "verified"}, k \in OtpTypes}
  \cup {<<"count", k, n>> : k \in OtpTypes, n \in 1..OTP_MAX_ATTEMPTS}
  \cup {<<"ship", s>> : s \in ShipmentStatus}
  \cup {<<name, t>> : name \in {"admit", "trip"}, t \in ShipTripStatus}
  \cup {<<"both", s, t>> : s \in ShipmentStatus, t \in ShipTripStatus}

ASSUME ShipmentsAssumption ==
  /\ OTP_MAX_ATTEMPTS \in Nat \ {0}
  /\ MaxShipUpsets \in Nat /\ MaxOverlaps \in Nat

ShipTypeOK ==
  /\ ship \in [status : ShipmentStatus \cup {"NONE"}, assigned : BOOLEAN,
               pickupVerified : BOOLEAN, deliveryVerified : BOOLEAN,
               delivered : BOOLEAN, forced : SUBSET OtpTypes]
  /\ shipTrip \in [status : ShipTripStatus, pin : BOOLEAN]
  /\ shipQuote \in {"none", "open", "expired", "accepted"}
  /\ code \in [OtpTypes -> [state : {"none", "open", "expired", "used"},
                            attempts : 0..OTP_MAX_ATTEMPTS, known : BOOLEAN,
                            tries : Nat]]
  /\ proof \in BOOLEAN /\ spent \subseteq OtpTypes
  /\ \A r \in ShipRequests :
       /\ Len(plan[r]) <= 5
       /\ \A i \in 1..Len(plan[r]) : plan[r][i] \in Steps
  /\ upsets \in 0..MaxShipUpsets /\ overlaps \in 0..MaxOverlaps

(* Before any shipment, or with the seeded one, which has been requested,  *)
(* whose quote has not been accepted and whose codes are known.            *)
Seeded == [status |-> "REQUESTED", assigned |-> FALSE,
           pickupVerified |-> FALSE, deliveryVerified |-> FALSE,
           delivered |-> FALSE, forced |-> {}]

NewCode(state, known) ==
  [state |-> state, attempts |-> 0, known |-> known, tries |-> 0]

ShipInit ==
  /\ \/ /\ ship = Seeded
        /\ shipTrip = [status |-> "REQUESTED", pin |-> FALSE]
        /\ shipQuote = "open"
        /\ code = [k \in OtpTypes |-> NewCode("open", TRUE)]
     \/ /\ ship = [Seeded EXCEPT !.status = "NONE"]
        /\ shipTrip = [status |-> "NONE", pin |-> FALSE]
        /\ shipQuote = "none"
        /\ code = [k \in OtpTypes |-> NewCode("none", FALSE)]
  /\ proof = FALSE /\ spent = {}
  /\ plan = [r \in ShipRequests |-> <<>>]
  /\ upsets = 0 /\ overlaps = 0
-----------------------------------------------------------------------------
(* How a request begins, goes on and ends.                                 *)

Start(r, steps) ==
  /\ plan[r] = <<>>
  /\ plan' = [plan EXCEPT ![r] = steps]
  /\ overlaps' = IF \A q \in ShipRequests : plan[q] = <<>> THEN overlaps
                 ELSE overlaps + 1
  /\ overlaps' <= MaxOverlaps

BeginPlan(r, steps) == Start(r, steps) /\ UNCHANGED upsets

(* An admin's request.                                                     *)
Override(r, steps) ==
  /\ upsets < MaxShipUpsets
  /\ upsets' = upsets + 1
  /\ Start(r, steps)

At(r, name) == plan[r] # <<>> /\ plan[r][1][1] = name
Arg(r) == plan[r][1][2]

Instead(r, steps) ==
  /\ plan' = [plan EXCEPT ![r] = steps]
  /\ UNCHANGED <<upsets, overlaps>>
GoOn(r) == Instead(r, Tail(plan[r]))
GiveUp(r) == Instead(r, <<>>)
-----------------------------------------------------------------------------
(* The sender.                                                             *)

(* createQuote: the rows as drafts, then the price, then QUOTED for both,  *)
(* whatever they are by then.                                              *)
CreateQuote(r) ==
  /\ ship.status = "NONE"
  /\ BeginPlan(r, <<<<"price">>, <<"both", "QUOTED", "QUOTED">>>>)
  /\ ship' = [ship EXCEPT !.status = "DRAFT"]
  /\ shipTrip' = [shipTrip EXCEPT !.status = "DRAFT"]
  /\ UNCHANGED <<shipQuote, code, proof, spent>>

(* createShipment looks at the quote only, not at the status.  After the   *)
(* codes it asks for a payment, which throws for want of a fare quote, so  *)
(* that the new codes are told to nobody.                                  *)
CreateShipment(r) ==
  /\ shipQuote = "open"
  /\ BeginPlan(r, <<<<"accept">>,
                    <<"generate", "PICKUP">>, <<"store", "PICKUP">>,
                    <<"generate", "DELIVERY">>, <<"store", "DELIVERY">>>>)
  /\ UNCHANGED shipRows

CanBeCancelled(s) == s \notin ShipTerminal

CancelShipment(r) ==
  /\ ship.status # "NONE" /\ CanBeCancelled(ship.status)
  /\ BeginPlan(r, <<<<"both", "CANCELLED", "CANCELLED_BY_RIDER">>>>)
  /\ UNCHANGED shipRows

(* The quote's and the codes' minutes pass.                                *)
QuoteExpires ==
  /\ shipQuote = "open"
  /\ shipQuote' = "expired"
  /\ UNCHANGED <<ship, shipTrip, code, proof, spent, plan, upsets, overlaps>>

CodeExpires(k) ==
  /\ code[k].state = "open"
  /\ code' = [code EXCEPT ![k].state = "expired"]
  /\ UNCHANGED <<ship, shipTrip, shipQuote, proof, spent, plan, upsets,
                 overlaps>>
-----------------------------------------------------------------------------
(* The driver.  startShipment is missing: it asks for PIN_VERIFIED without *)
(* a PIN, which transition refuses before anything is written.             *)

(* resolveDriverShipment *)
Drivable == ship.assigned /\ ship.status \notin ShipTerminal

DriverAcceptShipment(r) ==
  /\ ship.status = "REQUESTED"
  /\ BeginPlan(r, <<<<"take">>, <<"depart">>,
                    <<"ship", "DRIVER_ASSIGNED">>>>)
  /\ UNCHANGED shipRows

ArriveAtPickup(r) ==
  /\ Drivable
  /\ BeginPlan(r, <<<<"admit", "DRIVER_ARRIVED">>,
                    <<"trip", "DRIVER_ARRIVED">>,
                    <<"ship", "PICKUP_ARRIVED">>>>)
  /\ UNCHANGED shipRows

(* verifyPickupOtp and verifyDeliveryOtp look at no status.                *)
VerifyShipmentOtp(r, k) ==
  /\ Drivable
  /\ BeginPlan(r, <<<<"verify", k>>>>)
  /\ UNCHANGED shipRows

ArriveAtDelivery(r) ==
  /\ Drivable /\ ship.status = "IN_TRANSIT"
  /\ BeginPlan(r, <<<<"ship", "DELIVERY_ARRIVED">>>>)
  /\ UNCHANGED shipRows

(* Bug: the status is not looked at.                                       *)
CompleteUnverified(r) ==
  /\ Drivable
  /\ BeginPlan(r, <<<<"proven">>, <<"admit", "COMPLETED">>,
                    <<"trip", "COMPLETED">>, <<"deliver">>>>)
  /\ UNCHANGED shipRows

CompleteShipment(r) ==
  /\ Drivable /\ ship.status = "DELIVERY_VERIFIED"
  /\ BeginPlan(r, <<<<"proven">>, <<"admit", "COMPLETED">>,
                    <<"trip", "COMPLETED">>, <<"deliver">>>>)
  /\ UNCHANGED shipRows

SubmitProof(r) ==
  /\ Drivable
  /\ ship.status \in {"IN_TRANSIT", "DELIVERY_ARRIVED", "DELIVERY_VERIFIED"}
  /\ BeginPlan(r, <<<<"prove">>>>)
  /\ UNCHANGED shipRows
-----------------------------------------------------------------------------
(* The admin.                                                              *)

AdminAssignDriver(r) ==
  /\ ship.status # "NONE"
  /\ Override(r, <<>>)
  /\ ship' = [ship EXCEPT !.status = "DRIVER_ASSIGNED", !.assigned = TRUE]
  /\ shipTrip' = [shipTrip EXCEPT !.status = "DRIVER_ASSIGNED"]
  /\ UNCHANGED <<shipQuote, code, proof, spent>>

AdminDisputeShipment(r) ==
  /\ ship.status # "NONE"
  /\ Override(r, <<>>)
  /\ ship' = [ship EXCEPT !.status = "DISPUTED"]
  /\ shipTrip' = [shipTrip EXCEPT !.status = "DISPUTED"]
  /\ UNCHANGED <<shipQuote, code, proof, spent>>

(* Bug: the trip is not cancelled along.                                   *)
SyncedUncancelled ==
  [ REQUESTED |-> "REQUESTED", DRIVER_ASSIGNED |-> "DRIVER_ASSIGNED",
    PICKUP_ARRIVED |-> "DRIVER_ARRIVED", IN_TRANSIT |-> "IN_PROGRESS",
    DELIVERED |-> "COMPLETED" ]

(* Bug: the trip is given the shipment's name for the status.              *)
SyncedVerbatim == [s \in ShipmentStatus |-> s]

(* What adminUpdateStatus makes of the trip: nothing, of EXPIRED among     *)
(* others.                                                                 *)
Synced ==
  [ REQUESTED |-> "REQUESTED", DRIVER_ASSIGNED |-> "DRIVER_ASSIGNED",
    PICKUP_ARRIVED |-> "DRIVER_ARRIVED", IN_TRANSIT |-> "IN_PROGRESS",
    DELIVERED |-> "COMPLETED", CANCELLED |-> "CANCELLED_BY_DRIVER",
    DISPUTED |-> "DISPUTED" ]

AdminUpdateStatus(r, s) ==
  /\ ship.status # "NONE" /\ s \in Allowed[ship.status]
  /\ Override(r, IF s \in DOMAIN Synced THEN <<<<"both", s, Synced[s]>>>>
                 ELSE <<<<"ship", s>>>>)
  /\ UNCHANGED shipRows

(* adminForceStatus.  (FAILED, which it also takes, is no ShipmentStatus:  *)
(* the transaction fails.)                                                 *)
AdminCancelShipment(r) ==
  /\ ship.status \notin {"NONE", "DELIVERED"}
  /\ Override(r, <<<<"both", "CANCELLED", "CANCELLED_BY_DRIVER">>>>)
  /\ UNCHANGED shipRows

AdminResolveShipment(r) ==
  /\ ship.status \notin {"NONE", "DELIVERED"}
  /\ Override(r, <<<<"resolve">>>>)
  /\ UNCHANGED shipRows
-----------------------------------------------------------------------------
(* The trip on its own: POST trips/:id/transition and driver/accept.       *)

TripTransition(r, t) ==
  /\ t \in TripAllowed[shipTrip.status]
  /\ BeginPlan(r, IF t = "PIN_VERIFIED" THEN <<<<"pin">>, <<"trip", t>>>>
                  ELSE <<<<"trip", t>>>>)
  /\ UNCHANGED shipRows

DriverAcceptTrip(r) ==
  /\ shipTrip.status = "REQUESTED"
  /\ BeginPlan(r, <<<<"depart">>>>)
  /\ UNCHANGED shipRows
-----------------------------------------------------------------------------
(* The steps of a request.                                                 *)

WriteBoth(r) ==
  /\ At(r, "both")
  /\ ship' = [ship EXCEPT !.status = plan[r][1][2]]
  /\ shipTrip' = [shipTrip EXCEPT !.status = plan[r][1][3]]
  /\ GoOn(r)
  /\ UNCHANGED <<shipQuote, code, proof, spent>>

VerifiedStatus ==
  [PICKUP |-> "PICKUP_VERIFIED", DELIVERY |-> "DELIVERY_VERIFIED"]

(* Only adminUpdateStatus writes a verified status this way.               *)
WriteShip(r) ==
  /\ At(r, "ship")
  /\ ship' = [ship EXCEPT !.status = Arg(r),
                          !.forced = @ \cup {k \in OtpTypes :
                                              VerifiedStatus[k] = Arg(r)}]
  /\ GoOn(r)
  /\ UNCHANGED <<shipTrip, shipQuote, code, proof, spent>>

(* transition: the status is read and looked up; a PIN must be there and   *)
(* right; the status is written.                                           *)
Admit(r) ==
  /\ At(r, "admit")
  /\ IF Arg(r) \in TripAllowed[shipTrip.status] THEN GoOn(r) ELSE GiveUp(r)
  /\ UNCHANGED shipRows

CheckTripPin(r) ==
  /\ At(r, "pin")
  /\ \/ /\ shipTrip.pin
        /\ shipTrip' = [shipTrip EXCEPT !.pin = FALSE]
        /\ GoOn(r)
     \/ GiveUp(r) /\ UNCHANGED shipTrip
  /\ UNCHANGED <<ship, shipQuote, code, proof, spent>>

WriteTrip(r) ==
  /\ At(r, "trip")
  /\ shipTrip' = [shipTrip EXCEPT !.status = Arg(r)]
  /\ GoOn(r)
  /\ UNCHANGED <<ship, shipQuote, code, proof, spent>>

(* driverAcceptTrip: the trip must still be REQUESTED, and the driver fit; *)
(* then it is taken, with a PIN.                                           *)
Take(r) ==
  /\ At(r, "take")
  /\ \/ shipTrip.status = "REQUESTED" /\ GoOn(r)
     \/ GiveUp(r)
  /\ UNCHANGED shipRows

Depart(r) ==
  /\ At(r, "depart")
  /\ shipTrip' = [status |-> "DRIVER_ARRIVING", pin |-> TRUE]
  /\ GoOn(r)
  /\ UNCHANGED <<ship, shipQuote, code, proof, spent>>

PriceQuote(r) ==
  /\ At(r, "price")
  /\ shipQuote' = "open"
  /\ GoOn(r)
  /\ UNCHANGED <<ship, shipTrip, code, proof, spent>>

AcceptQuote(r) ==
  /\ At(r, "accept")
  /\ shipQuote' = "accepted"
  /\ ship' = [ship EXCEPT !.status = "REQUESTED"]
  /\ shipTrip' = [shipTrip EXCEPT !.status = "REQUESTED"]
  /\ GoOn(r)
  /\ UNCHANGED <<code, proof, spent>>

(* generateOtp refuses while there is a code that has not been used, even  *)
(* an expired one; otherwise it stores a new one.                          *)
GenerateOtp(r) ==
  /\ At(r, "generate")
  /\ IF code[Arg(r)].state \in {"none", "used"} THEN GoOn(r) ELSE GiveUp(r)
  /\ UNCHANGED shipRows

StoreOtp(r) ==
  /\ At(r, "store")
  /\ code' = [code EXCEPT ![Arg(r)] = NewCode("open", FALSE)]
  /\ GoOn(r)
  /\ UNCHANGED <<ship, shipTrip, shipQuote, proof, spent>>

AfterRightCode(k) == <<<<"spend", k>>, <<"verified", k>>>>

(* Bug: one attempt too many.                                              *)
VerifiableOnceMore(k) ==
  code[k].state = "open" /\ code[k].attempts <= OTP_MAX_ATTEMPTS

(* The code must be there, unused, in time and not tried too often.        *)
Verifiable(k) ==
  code[k].state = "open" /\ code[k].attempts < OTP_MAX_ATTEMPTS

(* verifyOtp: wrong attempts are counted from what has been read.          *)
VerifyOtp(r) ==
  /\ At(r, "verify")
  /\ LET k == Arg(r) IN
     \/ /\ Verifiable(k)
        /\ \/ code[k].known /\ Instead(r, AfterRightCode(k))
           \/ Instead(r, <<<<"count", k, code[k].attempts + 1>>>>)
     \/ ~Verifiable(k) /\ GiveUp(r)
  /\ UNCHANGED shipRows

CountAttempt(r) ==
  /\ At(r, "count")
  /\ code' = [code EXCEPT ![Arg(r)].attempts = plan[r][1][3],
                          ![Arg(r)].tries = @ + 1]
  /\ GoOn(r)
  /\ UNCHANGED <<ship, shipTrip, shipQuote, proof, spent>>

SpendCode(r) ==
  /\ At(r, "spend")
  /\ code' = [code EXCEPT ![Arg(r)].state = "used"]
  /\ spent' = spent \cup {Arg(r)}
  /\ GoOn(r)
  /\ UNCHANGED <<ship, shipTrip, shipQuote, proof>>

MarkVerified(r) ==
  /\ At(r, "verified")
  /\ ship' = IF Arg(r) = "PICKUP"
             THEN [ship EXCEPT !.status = VerifiedStatus["PICKUP"],
                               !.pickupVerified = TRUE]
             ELSE [ship EXCEPT !.status = VerifiedStatus["DELIVERY"],
                               !.deliveryVerified = TRUE]
  /\ GoOn(r)
  /\ UNCHANGED <<shipTrip, shipQuote, code, proof, spent>>

CountProofs(r) ==
  /\ At(r, "proven")
  /\ IF proof THEN GoOn(r) ELSE GiveUp(r)
  /\ UNCHANGED shipRows

CreateProof(r) ==
  /\ At(r, "prove")
  /\ proof' = TRUE
  /\ GoOn(r)
  /\ UNCHANGED <<ship, shipTrip, shipQuote, code, spent>>

(* completeShipment's last write.                                          *)
Deliver(r) ==
  /\ At(r, "deliver")
  /\ ship' = [ship EXCEPT !.status = "DELIVERED", !.delivered = TRUE]
  /\ GoOn(r)
  /\ UNCHANGED <<shipTrip, shipQuote, code, proof, spent>>

(* adminResolveShipment's transaction.                                     *)
Resolve(r) ==
  /\ At(r, "resolve")
  /\ proof' = TRUE
  /\ ship' = [ship EXCEPT !.status = "DELIVERED", !.delivered = TRUE,
                          !.forced = @ \cup {"DELIVERY"}]
  /\ shipTrip' = [shipTrip EXCEPT !.status = "COMPLETED"]
  /\ GoOn(r)
  /\ UNCHANGED <<shipQuote, code, spent>>

(* A call throws, or the process dies, between two steps.                  *)
RequestStops(r) ==
  /\ plan[r] # <<>> /\ upsets < MaxShipUpsets
  /\ upsets' = upsets + 1
  /\ plan' = [plan EXCEPT ![r] = <<>>]
  /\ UNCHANGED <<shipRows, overlaps>>
-----------------------------------------------------------------------------
SenderRequest(r) == CreateQuote(r) \/ CreateShipment(r) \/ CancelShipment(r)

DriverRequest(r) ==
  \/ DriverAcceptShipment(r)
  \/ ArriveAtPickup(r)
  \/ \E k \in OtpTypes : VerifyShipmentOtp(r, k)
  \/ ArriveAtDelivery(r)
  \/ CompleteShipment(r)
  \/ SubmitProof(r)

AdminRequest(r) ==
  \/ AdminAssignDriver(r)
  \/ AdminDisputeShipment(r)
  \/ \E s \in ShipmentStatus : AdminUpdateStatus(r, s)
  \/ AdminCancelShipment(r)
  \/ AdminResolveShipment(r)

TripRequest(r) ==
  \/ \E t \in ShipTripStatus : TripTransition(r, t)
  \/ DriverAcceptTrip(r)

PlanStep(r) ==
  \/ WriteBoth(r) \/ WriteShip(r) \/ WriteTrip(r)
  \/ Admit(r) \/ CheckTripPin(r) \/ Take(r) \/ Depart(r)
  \/ PriceQuote(r) \/ AcceptQuote(r)
  \/ GenerateOtp(r) \/ StoreOtp(r)
  \/ VerifyOtp(r) \/ CountAttempt(r) \/ SpendCode(r) \/ MarkVerified(r)
  \/ CountProofs(r) \/ CreateProof(r) \/ Deliver(r) \/ Resolve(r)

ShipNext ==
  \/ \E r \in ShipRequests :
       \/ SenderRequest(r) \/ DriverRequest(r) \/ AdminRequest(r)
       \/ TripRequest(r) \/ PlanStep(r) \/ RequestStops(r)
  \/ QuoteExpires
  \/ \E k \in OtpTypes : CodeExpires(k)

ShipSpec == ShipInit /\ [][ShipNext]_shipVars
-----------------------------------------------------------------------------
(* Whatever overlaps, throws or dies.                                      *)

(* The right code of kind k has been used up, or an admin has written the  *)
(* status it leads to (adminUpdateStatus, adminResolveShipment) without.   *)
VouchedFor(k) == k \in spent \cup ship.forced

PickedUp == {"PICKUP_VERIFIED", "IN_TRANSIT", "DELIVERY_ARRIVED"}
HandedOver == {"DELIVERY_VERIFIED", "DELIVERED"}

StatusVouched(s) ==
  /\ s \in PickedUp => VouchedFor("PICKUP")
  /\ s \in HandedOver => VouchedFor("DELIVERY")

(* The times of verification are set only after the right code has been    *)
(* used up, never by an admin.                                             *)
MarkedByCode ==
  /\ ship.pickupVerified => "PICKUP" \in spent
  /\ ship.deliveryVerified => "DELIVERY" \in spent

(* A parcel is under way only after its pickup code, and delivered only    *)
(* after its delivery code, has been used up, or an admin has stood in for *)
(* it; its times of verification are set only by codes; and its time of    *)
(* delivery only with a proof.  A code is looked at before it is used up:  *)
(* it may expire, or be tried too often, in between, and none of this says *)
(* that a delivered parcel was picked up: verifyDeliveryOtp asks for no    *)
(* status.                                                                 *)
HandedOverByCode ==
  /\ MarkedByCode
  /\ StatusVouched(ship.status)
  /\ ship.delivered => proof /\ VouchedFor("DELIVERY")

(* Wrong attempts at a code are counted from a stale read, so overlapping  *)
(* ones count as one; but each request that overlaps another buys at most  *)
(* one more try than OTP_MAX_ATTEMPTS.                                     *)
AttemptsAreLimited ==
  \A k \in OtpTypes : code[k].tries <= OTP_MAX_ATTEMPTS + overlaps

(* As long as no two requests overlap.                                     *)

Together(s, t) ==
  /\ s = "DELIVERED" => t = "COMPLETED"
  /\ s = "CANCELLED" => t \in TripCancelled
  /\ s = "DISPUTED" => t = "DISPUTED"

(* A shipment that is delivered, cancelled or disputed has a trip that is  *)
(* completed, cancelled or disputed, and the two stay so together,         *)
(* although requests die between the two writes, the trip has endpoints of *)
(* its own and an admin may revive the shipment.  Nothing is said of an    *)
(* EXPIRED one: adminUpdateStatus writes that to the shipment alone, and   *)
(* its trip stays as it was and may go on to any end of its own.           *)
EndedTogether == overlaps = 0 => Together(ship.status, shipTrip.status)
-----------------------------------------------------------------------------
(* What makes these inductive.                                             *)

Ended == {"DELIVERED", "CANCELLED", "DISPUTED"}

(* What a request may still have to do: a request's steps, or what is left *)
(* of them.                                                                *)
Plans ==
  {<<>>}
  \cup {<<<<"price">>, <<"both", "QUOTED", "QUOTED">>>>}
  \cup {<<<<"both", s, t>>>> : s \in ShipmentStatus, t \in ShipTripStatus}
  \cup {<<<<"accept">>, <<"generate", "PICKUP">>, <<"store", "PICKUP">>,
          <<"generate", "DELIVERY">>, <<"store", "DELIVERY">>>>}
  \cup {<<<<"generate", "PICKUP">>, <<"store", "PICKUP">>,
          <<"generate", "DELIVERY">>, <<"store", "DELIVERY">>>>}
  \cup {<<<<"store", "PICKUP">>, <<"generate", "DELIVERY">>,
          <<"store", "DELIVERY">>>>}
  \cup {<<<<"generate", "DELIVERY">>, <<"store", "DELIVERY">>>>}
  \cup {<<<<"store", "DELIVERY">>>>}
  \cup {<<<<"take">>, <<"depart">>, <<"ship", "DRIVER_ASSIGNED">>>>}
  \cup {<<<<"depart">>, <<"ship", "DRIVER_ASSIGNED">>>>, <<<<"depart">>>>}
  \cup {<<<<"ship", s>>>> : s \in ShipmentStatus \ Ended}
  \cup {<<<<"admit", "DRIVER_ARRIVED">>, <<"trip", "DRIVER_ARRIVED">>,
          <<"ship", "PICKUP_ARRIVED">>>>}
  \cup {<<<<"trip", "DRIVER_ARRIVED">>, <<"ship", "PICKUP_ARRIVED">>>>}
  \cup {<<<<"verify", k>>>> : k \in OtpTypes}
  \cup {<<<<"spend", k>>, <<"verified", k>>>> : k \in OtpTypes}
  \cup {<<<<"verified", k>>>> : k \in OtpTypes}
  \cup {<<<<"count", k, n>>>> : k \in OtpTypes, n \in 1..OTP_MAX_ATTEMPTS}
  \cup {<<<<"proven">>, <<"admit", "COMPLETED">>, <<"trip", "COMPLETED">>,
          <<"deliver">>>>}
  \cup {<<<<"admit", "COMPLETED">>, <<"trip", "COMPLETED">>, <<"deliver">>>>}
  \cup {<<<<"trip", "COMPLETED">>, <<"deliver">>>>}
  \cup {<<<<"deliver">>>>, <<<<"prove">>>>, <<<<"resolve">>>>}
  \cup {<<<<"pin">>, <<"trip", "PIN_VERIFIED">>>>}
  \cup {<<<<"trip", t>>>> : t \in ShipTripStatus}

PlansOK == plan \in [ShipRequests -> Plans]

(* Only a request that has used up the code is about to mark the shipment  *)
(* as verified.                                                            *)
MarksAreEarned == \A r \in ShipRequests : At(r, "verified") => Arg(r) \in spent

(* While no requests overlap, what a request has checked still stands: the *)
(* shipment it works on has not ended, except that a sender may book one   *)
(* anew and an admin may write over a cancelled or disputed one, with the  *)
(* trip; and a shipment is delivered after its trip is completed.          *)
Stands(r) ==
  /\ ~At(r, "accept") => ship.status # "DELIVERED"
  /\ ~(At(r, "accept") \/ At(r, "both") \/ At(r, "resolve")) =>
       ship.status \notin Ended
  /\ At(r, "both") => Together(plan[r][1][2], plan[r][1][3])
  /\ At(r, "deliver") => shipTrip.status = "COMPLETED"

OneAtATime ==
  \A q, r \in ShipRequests : plan[q] # <<>> /\ plan[r] # <<>> => q = r

ShipSerialInv ==
  overlaps = 0 =>
    /\ OneAtATime
    /\ \A r \in ShipRequests : plan[r] # <<>> => Stands(r)

ShipIInv ==
  /\ ShipTypeOK /\ PlansOK
  /\ MarkedByCode /\ MarksAreEarned
  /\ EndedTogether /\ ShipSerialInv

(* A request that is about to deliver, or to write a status, has found it  *)
(* vouched for, and what vouches for it is never taken back.  p: what the  *)
(* request has still to do.                                                *)
Delivers(p) ==
  \/ p[1][1] \in {"proven", "deliver"}
  \/ p[1][1] = "admit" /\ p[1][2] = "COMPLETED"
  \/ p[1][1] = "trip" /\ p[1][2] = "COMPLETED" /\ Len(p) = 2

Backed(p) ==
  p # <<>> =>
    /\ Delivers(p) => VouchedFor("DELIVERY") /\ (p[1][1] = "proven" \/ proof)
    /\ p[1][1] = "both" => StatusVouched(p[1][2])
    /\ p[1][1] = "ship" => \/ p[1][2] \in {"PICKUP_VERIFIED",
                                          "DELIVERY_VERIFIED"}
                           \/ StatusVouched(p[1][2])

BackedInv == HandedOverByCode /\ \A r \in ShipRequests : Backed(plan[r])
=============================================================================
