------------------------------- MODULE MCTrips -------------------------------
(***************************************************************************)
(* Trips on small instances.                                               *)
(***************************************************************************)
EXTENDS Trips, TLC

(* Drivers, requests and dispatches are interchangeable.                   *)
TripSymmetry ==
  Permutations(Drivers) \cup Permutations(Requests)
    \cup Permutations(Dispatchers)
=============================================================================
