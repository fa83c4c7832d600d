----------------------------- MODULE MCReceiver -----------------------------
(* The receiver with two requests.  Two genuine deliveries carry the same  *)
(* two updates in opposite orders, so that their inserts deadlock; one     *)
(* names an update twice; a third body is forged.                          *)
EXTENDS Receiver, TLC

CONSTANTS d1, d2, forged, u1, u2

Crossed == (d1 :> <<u1, u2, u1>>) @@ (d2 :> <<u2, u1>>) @@ (forged :> <<u2>>)
GenuineBodies == {d1, d2}
=============================================================================
