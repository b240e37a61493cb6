----------------------------- MODULE MCRefunds ------------------------------
(***************************************************************************)
(* One payment of 7 minor units, of which 5 are the driver's and 1 is the  *)
(* commission that a refund takes back (20% of 7, cut off): a reversal     *)
(* does not add up to what the capture posted, and must still be exactly   *)
(* what the code says.                                                     *)
(***************************************************************************)
EXTENDS Refunds, TLC

CONSTANTS x1, d1

OneDriver == x1 :> d1
OneAmount == x1 :> 7
=============================================================================
