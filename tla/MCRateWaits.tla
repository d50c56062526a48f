----------------------------- MODULE MCRateWaits -----------------------------
(***************************************************************************)
(* An instance of RateWaits: two callers, so that one may wait for the     *)
(* mutex while the other is answered.                                      *)
(***************************************************************************)
EXTENDS RateWaits

CONSTANTS i0, t1, t2

=============================================================================
