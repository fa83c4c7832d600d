----------------------------- MODULE MCDispatch -----------------------------
(* Two senders on one connection, one of them on a host whose clock is     *)
(* ahead; replies of one and two pieces, one with an attachment and one    *)
(* whose brain wants a person; a channel that never closes and one whose   *)
(* window is short.                                                        *)
EXTENDS Dispatch

CONSTANTS worker, api

Reply(text) == [escalate |-> FALSE, attachments |-> FALSE, text |-> text,
                lastInbound |-> 0]

MCDrafts ==
  worker :> {Reply(<<"a", "a", " ", "a">>), [Reply(<<"a">>) EXCEPT !.escalate = TRUE]}
  @@ api :> {Reply(<<"a">>), [Reply(<<>>) EXCEPT !.attachments = TRUE]}

MCManifests ==
  {[media |-> TRUE, limit |-> 2, template |-> FALSE, window |-> Never],
   [media |-> FALSE, limit |-> 3, template |-> TRUE, window |-> 1]}

MCAhead == (worker :> 0) @@ (api :> 1)
=============================================================================
