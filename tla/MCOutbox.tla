------------------------------ MODULE MCOutbox ------------------------------
(***************************************************************************)
(* The outbox on small instances.                                          *)
(***************************************************************************)
EXTENDS Outbox, TLC

WorkerSymmetry == Permutations(Workers)
=============================================================================
