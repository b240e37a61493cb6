----------------------------- MODULE MCPayments -----------------------------
(***************************************************************************)
(* Payments on small instances.  A gross amount of 7 minor units makes the *)
(* 80/20 split round: the driver's share is 5, the commission 2.           *)
(***************************************************************************)
EXTENDS Payments, TLC

CONSTANTS t1, d1

OneTrip == t1 :> 7
OneDriver == t1 :> d1

HandlerSymmetry == Permutations(Handlers)
=============================================================================
