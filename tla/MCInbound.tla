----------------------------- MODULE MCInbound -----------------------------
(* A delivery of one update, posted to two requests at once and posted     *)
(* again, and two workers over the messages made of it.                    *)
EXTENDS Inbound

CONSTANTS u1, t1

OneUpdate == [d \in Delivery |-> <<u1>>]
OneThread == [u \in Update |-> <<t1>>]
=============================================================================
