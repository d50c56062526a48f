---------------------------- MODULE MCRatePolling ----------------------------
(***************************************************************************)
(* An instance of RatePolling: a token every three seconds, so that a call *)
(* each second finds a third of a token more.                              *)
(***************************************************************************)
EXTENDS RatePolling

CONSTANTS i1, i2, t1, t2

=============================================================================
