------------------------------ MODULE Inbound ------------------------------
(***************************************************************************)
(* The inbound path end to end: the webhook receiver and the workers over  *)
(* the same inbound_events rows and the same broker queue.  No agent acts  *)
(* here; Inbox has them.                                                   *)
(***************************************************************************)
EXTENDS Naturals, Sequences, FiniteSets

CONSTANTS
  Request, Delivery, Update, Batch, Genuine, MaxFaults,    \* of Receiver
  Worker, Thread, Envelopes, MaxBotTurns,                  \* of Pipeline
  MaxKills, MaxErrors, Nobody,
  MaxCopies

ASSUME InboundAssumption ==
  /\ Batch \in [Delivery -> Seq(Update)]
  /\ Genuine \subseteq Delivery
  /\ Envelopes \in [Update -> Seq(Thread)]
  /\ MaxBotTurns \in Nat \ {0}
  /\ MaxCopies \in Nat \ {0}
  /\ MaxFaults \in Nat
  /\ MaxKills \in Nat
  /\ MaxErrors \in Nat
  /\ Nobody \notin Worker \cup Update

VARIABLES
  status, queue,                                           \* shared
  enqueued, request, acked, faults,                        \* the receiver's
  conv, lock, stored, botRun, worker, replies, mishaps     \* the workers'

R == INSTANCE Receiver
P == INSTANCE Pipeline WITH Event <- Update, Agent <- {}

receiving == <<enqueued, request, acked, faults>>

working == <<conv, lock, stored, botRun, worker, replies, mishaps>>

vars == <<status, queue, receiving, working>>

Init == R!Init /\ P!WorkersInit

Next ==
  \/ R!RequestStep /\ UNCHANGED working
  \/ P!WorkerStep /\ UNCHANGED receiving

Spec == Init /\ [][Next]_vars

(* The provider posts a delivery again until it has its 200, a running     *)
(* request proceeds, a message on the queue is taken and its worker goes   *)
(* on.  A request that waits for room in the broker or for another's       *)
(* insert needs no more than weak fairness: receipts are published         *)
(* finitely often, and an insert waits again only after a fault or a       *)
(* deadlock.                                                               *)
FairSpec ==
  /\ Spec
  /\ \A d \in Genuine :
       SF_vars(d \notin acked /\ (\E r \in Request : R!Post(r, d)) /\ UNCHANGED working)
  /\ \A r \in Request : WF_vars(R!Serve(r) /\ UNCHANGED working)
  /\ \A w \in Worker : WF_vars(P!Work(w) /\ UNCHANGED receiving)
  /\ \A u \in Update :
       SF_vars((\E w \in Worker : P!Take(w, u)) /\ UNCHANGED receiving)

-----------------------------------------------------------------------------
Log == INSTANCE EventLog WITH Messages <- [u \in Update |-> Len(Envelopes[u])]

(* End to end, an update is recorded once, handled by one worker and       *)
(* answered at most once per message, whatever is delivered, published or  *)
(* redelivered how often, and whoever dies when.                           *)
ImplementsEventLog == Log!Spec

(* Whatever fails or races on the way -- a request that dies between the   *)
(* store and the publish, a broker that takes the message and answers with *)
(* an error, two requests that publish one receipt -- a provider that      *)
(* keeps retrying gets its 200, and every update of a genuine delivery is  *)
(* closed in the end.  Once a worker has been killed or a task has raised, *)
(* the updates may stay where they were, but are stored and acknowledged.  *)
DeliveredIsHandled ==
  LET excused == mishaps.killed + mishaps.errors > 0
      Handled(u) == status[u] \in Log!Closed \/ (excused /\ status[u] # "absent")
  IN \A d \in Genuine :
       <>(d \in acked /\ \A i \in 1..Len(Batch[d]) : Handled(Batch[d][i]))

=============================================================================
