------------------------------ MODULE Receiver ------------------------------
(***************************************************************************)
(* The webhook receiver (app/ingress/receiver.py): a provider posts a      *)
(* delivery, the receiver stores one receipt per update in one             *)
(* transaction, then submits the receipts to the broker one at a time,     *)
(* marking each as enqueued in a transaction of its own.                   *)
(*                                                                         *)
(* Several requests run at once, and the provider posts a delivery again   *)
(* whenever it likes -- always until it has seen a 200.  A request process *)
(* may die between any two steps and the broker may refuse, or accept and  *)
(* then fail to say so.                                                    *)
(***************************************************************************)
EXTENDS Naturals, Sequences, FiniteSets

CONSTANTS
  Request,      \* API processes, each serving one webhook request at a time
  Delivery,     \* webhook bodies the provider may post
  Update,       \* provider update ids on one connection
  Batch,        \* [Delivery -> Seq(Update)], the updates parsed from a body
  Genuine,      \* the deliveries that pass connection, signature and parse
  MaxCopies,    \* bound: broker messages for one receipt at a time
  MaxFaults     \* bound: request deaths and broker failures in a behaviour

ASSUME ReceiverAssumption ==
  /\ Batch \in [Delivery -> Seq(Update)]
  /\ Genuine \subseteq Delivery
  /\ MaxCopies \in Nat \ {0}
  /\ MaxFaults \in Nat

VARIABLES
  status,       \* [Update -> status], the inbound_events rows, "absent" = no row
  enqueued,     \* updates whose row has enqueued_at set
  queue,        \* [Update -> 0..MaxCopies], messages the broker holds
  request,      \* [Request -> RequestState]
  acked,        \* deliveries the provider has had a 200 for
  faults        \* faults so far

vars == <<status, enqueued, queue, request, acked, faults>>

NoDelivery == "none"

(* Variants of definitions below, each with one mistake, used to see that  *)
(* the properties notice it, stand before the definition they vary.        *)

Idle == [pc |-> "idle", delivery |-> NoDelivery, next |-> 1,
         inserted |-> {}, todo |-> <<>>]

RequestState ==
  [pc : {"idle", "posted", "storing", "publishing", "marking"},
   delivery : Delivery \cup {NoDelivery},
   next : Nat \ {0},              \* position of the envelope being stored
   inserted : SUBSET Update,      \* rows inserted and not yet committed
   todo : Seq(Update)]            \* pending_event_ids, still to publish

TypeOK ==
  /\ status \in [Update -> {"absent", "pending", "processing", "processed", "failed"}]
  /\ enqueued \subseteq Update
  /\ queue \in [Update -> 0..MaxCopies]
  /\ request \in [Request -> RequestState]
  /\ acked \subseteq Delivery
  /\ faults \in 0..MaxFaults

Init ==
  /\ status = [u \in Update |-> "absent"]
  /\ enqueued = {}
  /\ queue = [u \in Update |-> 0]
  /\ request = [r \in Request |-> Idle]
  /\ acked = {}
  /\ faults = 0

-----------------------------------------------------------------------------
BatchOf(r) == Batch[request[r].delivery]

(* The provider posts a body, for the first time or again. *)
Post(r, d) ==
  /\ request[r].pc = "idle"
  /\ request' = [request EXCEPT ![r] = [Idle EXCEPT !.pc = "posted", !.delivery = d]]
  /\ UNCHANGED <<status, enqueued, queue, acked, faults>>

(* 404, 403 or 400: unknown connection, bad signature, malformed body. *)
Refuse(r) ==
  /\ request[r].pc = "posted"
  /\ request[r].delivery \notin Genuine
  /\ request' = [request EXCEPT ![r] = Idle]
  /\ UNCHANGED <<status, enqueued, queue, acked, faults>>

(* A body whose updates are known is refused as a replay. *)
AdmitOnce(r) ==
  /\ request[r].pc = "posted"
  /\ request[r].delivery \in Genuine
  /\ request' = [request EXCEPT ![r] =
       IF \E i \in 1..Len(BatchOf(r)) : status[BatchOf(r)[i]] # "absent"
         THEN Idle ELSE [@ EXCEPT !.pc = "storing"]]
  /\ UNCHANGED <<status, enqueued, queue, acked, faults>>

Admit(r) ==
  /\ request[r].pc = "posted"
  /\ request[r].delivery \in Genuine
  /\ request' = [request EXCEPT ![r].pc = "storing"]
  /\ UNCHANGED <<status, enqueued, queue, acked, faults>>

(* r's next insert waits for the transaction of s, which has inserted the  *)
(* same key and has not committed.                                         *)
WaitsFor(r, s) ==
  /\ s # r
  /\ request[r].pc = "storing"
  /\ request[r].next <= Len(BatchOf(r))
  /\ BatchOf(r)[request[r].next] \in request[s].inserted

(* Only the request that inserts a receipt publishes it. *)
UnpublishedIfNew(u) == status[u] = "absent"

Unpublished(u) == u \notin enqueued

(* INSERT .. ON CONFLICT DO NOTHING, then SELECT: a receipt that is not    *)
(* marked as enqueued is (re)published, each id once.                      *)
InsertReceipt(r) ==
  LET u == BatchOf(r)[request[r].next]
      todo == request[r].todo
  IN
  /\ request[r].pc = "storing"
  /\ request[r].next <= Len(BatchOf(r))
  /\ \A s \in Request : ~WaitsFor(r, s)
  /\ request' = [request EXCEPT
       ![r].next = @ + 1,
       ![r].inserted = IF status[u] = "absent" THEN @ \cup {u} ELSE @,
       ![r].todo = IF Unpublished(u) /\ \A i \in 1..Len(todo) : todo[i] # u
                     THEN Append(@, u) ELSE @]
  /\ UNCHANGED <<status, enqueued, queue, acked, faults>>

(* The receipts are published before they are committed. *)
CommitReceiptsLate(r) ==
  /\ request[r].pc = "storing"
  /\ request[r].next > Len(BatchOf(r))
  /\ request' = [request EXCEPT ![r].pc = "publishing"]
  /\ UNCHANGED <<status, enqueued, queue, acked, faults>>

CommitReceipts(r) ==
  /\ request[r].pc = "storing"
  /\ request[r].next > Len(BatchOf(r))
  /\ status' = [u \in Update |->
                  IF u \in request[r].inserted THEN "pending" ELSE status[u]]
  /\ request' = [request EXCEPT ![r].pc = "publishing", ![r].inserted = {}]
  /\ UNCHANGED <<enqueued, queue, acked, faults>>

(* The broker accepts the next receipt's message. *)
Enqueue(r) ==
  LET u == Head(request[r].todo) IN
  /\ request[r].pc = "publishing"
  /\ request[r].todo # <<>>
  /\ queue[u] < MaxCopies
  /\ queue' = [queue EXCEPT ![u] = @ + 1]
  /\ request' = [request EXCEPT ![r].pc = "marking"]
  /\ UNCHANGED <<status, enqueued, acked, faults>>

(* The broker's error is logged and the receipt marked all the same. *)
EnqueueFailsSwallowed(r) ==
  /\ request[r].pc = "publishing"
  /\ request[r].todo # <<>>
  /\ faults < MaxFaults
  /\ faults' = faults + 1
  /\ request' = [request EXCEPT ![r].pc = "marking"]
  /\ UNCHANGED <<status, enqueued, queue, acked>>

(* enqueue() raises: 503, the rest of the batch is neither published nor   *)
(* marked.  The broker may have accepted the message all the same.         *)
EnqueueFails(r) ==
  LET u == Head(request[r].todo) IN
  /\ request[r].pc = "publishing"
  /\ request[r].todo # <<>>
  /\ faults < MaxFaults
  /\ faults' = faults + 1
  /\ \/ UNCHANGED queue
     \/ /\ queue[u] < MaxCopies
        /\ queue' = [queue EXCEPT ![u] = @ + 1]
  /\ request' = [request EXCEPT ![r] = Idle]
  /\ UNCHANGED <<status, enqueued, acked>>

(* enqueued_at is set and committed before the next receipt is published. *)
MarkEnqueued(r) ==
  /\ request[r].pc = "marking"
  /\ enqueued' = enqueued \cup {Head(request[r].todo)}
  /\ request' = [request EXCEPT ![r].pc = "publishing", ![r].todo = Tail(@)]
  /\ UNCHANGED <<status, queue, acked, faults>>

Respond(r) ==
  /\ request[r].pc = "publishing"
  /\ request[r].todo = <<>>
  /\ acked' = acked \cup {request[r].delivery}
  /\ request' = [request EXCEPT ![r] = Idle]
  /\ UNCHANGED <<status, enqueued, queue, faults>>

(* The API process, or its database connection, dies: what it had not      *)
(* committed is rolled back and the provider sees no 200.                  *)
Die(r) ==
  /\ request[r].pc # "idle"
  /\ faults < MaxFaults
  /\ faults' = faults + 1
  /\ request' = [request EXCEPT ![r] = Idle]
  /\ UNCHANGED <<status, enqueued, queue, acked>>

(* Requests that insert the same updates in opposite orders wait for each  *)
(* other; PostgreSQL aborts one of them and the provider gets a 500.       *)
InDeadlock(r) ==
  \E C \in SUBSET Request :
     /\ r \in C
     /\ \A a \in C : \E b \in C : WaitsFor(a, b)
     /\ \A b \in C : \E a \in C : WaitsFor(a, b)

AbortDeadlock(r) ==
  /\ InDeadlock(r)
  /\ request' = [request EXCEPT ![r] = Idle]
  /\ UNCHANGED <<status, enqueued, queue, acked, faults>>

Serve(r) ==
  \/ Refuse(r)
  \/ Admit(r)
  \/ InsertReceipt(r)
  \/ CommitReceipts(r)
  \/ Enqueue(r)
  \/ MarkEnqueued(r)
  \/ Respond(r)
  \/ AbortDeadlock(r)

RequestStep ==
  \E r \in Request :
     \/ \E d \in Delivery : Post(r, d)
     \/ Serve(r)
     \/ EnqueueFails(r)
     \/ Die(r)

-----------------------------------------------------------------------------
(* The consuming side, for checking the receiver alone: a worker takes a   *)
(* message and, if it is the first for its receipt, handles it.            *)
Consume(u) ==
  /\ queue[u] > 0
  /\ queue' = [queue EXCEPT ![u] = @ - 1]
  /\ status' = [status EXCEPT ![u] = IF @ = "pending" THEN "processed" ELSE @]
  /\ UNCHANGED <<enqueued, request, acked, faults>>

Next == RequestStep \/ \E u \in Update : Consume(u)

Spec == Init /\ [][Next]_vars

-----------------------------------------------------------------------------
(* "Commit all receipts before one is submitted to the queue": a worker    *)
(* that takes a message always finds the committed row it names, even when *)
(* two requests race to store and publish the same update.                 *)
QueuedIsStored == \A u \in Update : queue[u] > 0 => status[u] # "absent"

(* A 200 is a promise: every update of the delivery has a committed row    *)
(* that is marked as handed to the broker.  The provider never posts it    *)
(* again, so an update missing here would be lost for good.                *)
AckedIsPublished ==
  \A d \in acked : \A i \in 1..Len(Batch[d]) :
     status[Batch[d][i]] # "absent" /\ Batch[d][i] \in enqueued

(* enqueued_at stops every later delivery from publishing the receipt, so  *)
(* it may only be set once a message exists that will still be consumed or *)
(* has been: a marked receipt that nobody has handled is on the queue.     *)
MarkedIsNotForgotten ==
  \A u \in enqueued : status[u] = "pending" => queue[u] > 0

=============================================================================
