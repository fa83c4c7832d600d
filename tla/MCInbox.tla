------------------------------ MODULE MCInbox ------------------------------
(* Small inboxes.  SharedThread: every event is one message on one thread, *)
(* so all workers contend for its row.                                     *)
EXTENDS Inbox, TLC

CONSTANTS e1, e2, t1

SharedThread == [e \in Event |-> <<t1>>]

Symmetry ==
  Permutations(Worker) \cup Permutations(Agent) \cup Permutations(Call)
    \cup Permutations(Event)
=============================================================================
