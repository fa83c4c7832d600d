--------------------------- MODULE MCMeteredBrain ---------------------------
(* Two calls, of either of two merchants, each named by two messages, one  *)
(* payment, one crash; amounts such that a charge may exceed its hold, and *)
(* a hold what its merchant has.                                           *)
EXTENDS MeteredBrain
=============================================================================
