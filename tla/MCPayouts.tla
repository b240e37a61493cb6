----------------------------- MODULE MCPayouts ------------------------------
(***************************************************************************)
(* One payout of 5 minor units, while 7 are owed to drivers elsewhere: the *)
(* driver may ask for more than is in the driver's own wallet.             *)
(***************************************************************************)
EXTENDS Payouts, TLC

CONSTANTS p1, d1

OneDriver == p1 :> d1
OneAmount == p1 :> 5

RequestSymmetry == Permutations(Requests)
=============================================================================
