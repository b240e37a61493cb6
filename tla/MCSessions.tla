----------------------------- MODULE MCSessions -----------------------------
(***************************************************************************)
(* Sessions on a small instance: its calls are the model values of the     *)
(* configuration, enough for one that refreshes, one in the queue and one  *)
(* that comes late.                                                        *)
(***************************************************************************)
EXTENDS Sessions
=============================================================================
