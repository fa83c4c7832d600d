------------------------------ MODULE EventLog ------------------------------
(***************************************************************************)
(* What the inbound side of Botly promises about one customer update, with *)
(* the webhook receiver, the broker, the workers and every crash hidden:   *)
(*                                                                         *)
(*   - an update is recorded once and moves forward only:                  *)
(*     absent -> pending -> processing -> processed | failed;              *)
(*   - the bot replies only while the update is being processed, and never *)
(*     more than once for each message the update carries.                 *)
(*                                                                         *)
(* Receiver, Pipeline and their composition Inbound implement it.          *)
(***************************************************************************)
EXTENDS Naturals

CONSTANTS
  Update,     \* provider updates, one inbound_events row each
  Messages    \* [Update -> Nat], how many messages an update carries

VARIABLES
  status,     \* [Update -> Status], the inbound_events row and its status
  replies     \* [Update -> Nat], replies handed to the provider for it

vars == <<status, replies>>

Closed == {"processed", "failed"}

Status == {"absent", "pending", "processing"} \cup Closed

TypeOK ==
  /\ status \in [Update -> Status]
  /\ replies \in [Update -> Nat]

Init ==
  /\ status \in [Update -> {"absent", "pending"}]
  /\ replies = [u \in Update |-> 0]

(* A webhook transaction may record several updates of one delivery. *)
Record(U) ==
  /\ U # {}
  /\ \A u \in U : status[u] = "absent"
  /\ status' = [u \in Update |-> IF u \in U THEN "pending" ELSE status[u]]
  /\ UNCHANGED replies

Claim(u) ==
  /\ status[u] = "pending"
  /\ status' = [status EXCEPT ![u] = "processing"]
  /\ UNCHANGED replies

Reply(u) ==
  /\ status[u] = "processing"
  /\ replies[u] < Messages[u]
  /\ replies' = [replies EXCEPT ![u] = @ + 1]
  /\ UNCHANGED status

Close(u) ==
  /\ status[u] = "processing"
  /\ \E s \in Closed : status' = [status EXCEPT ![u] = s]
  /\ UNCHANGED replies

Next ==
  \/ \E U \in SUBSET Update : Record(U)
  \/ \E u \in Update : Claim(u) \/ Reply(u) \/ Close(u)

Spec == Init /\ [][Next]_vars

-----------------------------------------------------------------------------
(* However often an update is delivered and its task run, the customer has *)
(* at most one reply to each message of it.                                *)
AnsweredOnce == \A u \in Update : replies[u] <= Messages[u]

(* A late duplicate, redelivery or retry finds a closed update as it was   *)
(* left: it is neither opened nor answered again.                          *)
ClosedIsFinal ==
  [][\A u \in Update : status[u] \in Closed
       => status'[u] = status[u] /\ replies'[u] = replies[u]]_vars

=============================================================================
