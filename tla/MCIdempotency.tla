--------------------------- MODULE MCIdempotency ----------------------------
(***************************************************************************)
(* Three requests under one key, with two bodies: one runs, one may be     *)
(* waiting with what it has read, one comes anew.                          *)
(***************************************************************************)
EXTENDS Idempotency, TLC

Symmetry == Permutations(Requests) \cup Permutations(Bodies)
=============================================================================
