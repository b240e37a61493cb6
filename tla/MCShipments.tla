---------------------------- MODULE MCShipments -----------------------------
(***************************************************************************)
(* Two requests, of which a second one begins once while the first is      *)
(* under way; two upsets, one of which an assignment by an admin takes.    *)
(***************************************************************************)
EXTENDS Shipments, TLC

RequestSymmetry == Permutations(ShipRequests)
=============================================================================
