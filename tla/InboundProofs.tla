---------------------------- MODULE InboundProofs ----------------------------
(***************************************************************************)
(* The inbound path implements EventLog, for any requests, deliveries,     *)
(* updates and workers.                                                    *)
(*                                                                         *)
(* The workers' half of the argument is InboxProofs' invariant, which the  *)
(* workers' steps keep in any company, here without agents.  The           *)
(* receiver's half is that a request holds the keys it has inserted alone, *)
(* so a row is recorded once; the rest of ReceiverProofs' invariant speaks *)
(* of a consumer that never dies with a message in its hands, and these do.*)
(***************************************************************************)
EXTENDS Inbound, TLAPS

W == INSTANCE InboxProofs
       WITH Event <- Update, Agent <- {}, Call <- {}, MaxCalls <- 0, call <- <<>>, calls <- 0

(* What r has in hand: the keys it has inserted, absent until it commits,  *)
(* and the receipt whose publication it is marking.                        *)
InHand(r) ==
  /\ request[r].inserted # {} => request[r].pc = "storing"
  /\ \A u \in request[r].inserted : status[u] = "absent"
  /\ request[r].pc # "idle" => request[r].delivery \in Delivery
  /\ request[r].pc = "marking" => request[r].todo # <<>>

Apart(r, s) == request[r].inserted \cap request[s].inserted = {}

InboundInv ==
  /\ R!TypeOK
  /\ \A r \in Request : InHand(r)
  /\ \A r, s \in Request : r # s => Apart(r, s)
  /\ W!PipelineInv

-----------------------------------------------------------------------------
LEMMA Assumed == R!ReceiverAssumption /\ W!PipelineAssumption /\ W!InboxAssumption
BY InboundAssumption DEF R!ReceiverAssumption, W!PipelineAssumption, W!InboxAssumption

(* The workers of Inbound are those of InboxProofs. *)
LEMMA SameWorkers == P!WorkerStep <=> W!WorkerStep
BY DEF P!WorkerStep, W!WorkerStep, P!Work, W!Work, P!Take, W!Take, P!Claim, W!Claim,
       P!Skip, W!Skip, P!Resolve, W!Resolve, P!StoreInbound, W!StoreInbound,
       P!LockConversation, W!LockConversation, P!Decide, W!Decide, P!Send, W!Send,
       P!MarkProcessed, W!MarkProcessed, P!Fail, W!Fail, P!Killed, W!Killed, P!Raise, W!Raise,
       P!EventOf, W!EventOf, P!ThreadOf, W!ThreadOf, P!AllDone, W!AllDone, P!GoTo, W!GoTo,
       P!Finish, W!Finish, P!NextEnvelope, W!NextEnvelope, P!Unlocked, W!Unlocked,
       P!Flushed, W!Flushed, P!Commit, W!Commit, P!BotMustStayQuiet, W!BotMustStayQuiet,
       P!Escalated, W!Escalated, P!Turns, W!Turns, P!IdleWorker, W!IdleWorker,
       P!NothingPending, W!NothingPending

LEMMA InitInbound == Init => InboundInv
<1>1. SUFFICES ASSUME Init PROVE InboundInv
  OBVIOUS
<1>2. /\ R!TypeOK
      /\ \A r \in Request : InHand(r)
      /\ \A r, s \in Request : Apart(r, s)
  BY <1>1, InboundAssumption
     DEF Init, R!Init, R!TypeOK, R!Idle, R!RequestState, InHand, Apart
<1>3. W!PipelineInv
  <2>1. W!WorkersInit
    BY <1>1 DEF Init, P!WorkersInit, W!WorkersInit, P!NewConversation, W!NewConversation,
                P!IdleWorker, W!IdleWorker, P!NothingPending, W!NothingPending
  <2>2. status \in [Update -> {"absent", "pending"}] /\ queue \in [Update -> 0..MaxCopies]
    BY <1>1, InboundAssumption DEF Init, R!Init
  <2>3. QED
    BY <2>1, <2>2, Assumed, W!FirstState
<1>4. QED
  BY <1>2, <1>3 DEF InboundInv

-----------------------------------------------------------------------------
(* A request's step leaves the invariant as it is if what the request has  *)
(* inserted is still absent and nobody else's, and rows only appear.       *)
LEMMA OneRequest ==
  ASSUME InboundInv, NEW r \in Request, NEW state \in R!RequestState,
         request' = [request EXCEPT ![r] = state],
         state.inserted # {} => state.pc = "storing",
         state.pc # "idle" => state.delivery \in Delivery,
         state.pc = "marking" => state.todo # <<>>,
         \A u \in state.inserted : status'[u] = "absent",
         \A s \in Request \ {r} :
            /\ \A u \in request[s].inserted : status'[u] = "absent"
            /\ state.inserted \cap request[s].inserted = {},
         status' \in [Update -> {"absent", "pending", "processing", "processed", "failed"}],
         \A u \in Update :
            status'[u] = status[u] \/ (status[u] = "absent" /\ status'[u] = "pending"),
         enqueued' \subseteq Update, queue' \in [Update -> 0..MaxCopies],
         acked' \subseteq Delivery, faults' \in 0..MaxFaults,
         UNCHANGED working
  PROVE  InboundInv'
<1>1. R!TypeOK /\ W!PipelineInv
  BY DEF InboundInv
<1>2. R!TypeOK'
  BY <1>1 DEF R!TypeOK
<1>3. request'[r] = state /\ \A s \in Request \ {r} : request'[s] = request[s]
  BY <1>1 DEF R!TypeOK
<1>4. \A s \in Request : InHand(s)'
  BY <1>3 DEF InboundInv, InHand
<1>5. \A s, q \in Request : s # q => Apart(s, q)'
  BY <1>3 DEF InboundInv, Apart
<1>6. UNCHANGED <<conv, lock, stored, botRun, worker, replies, mishaps>>
  BY DEF working
<1>7. W!TypeOK'
  BY <1>1, <1>2, <1>6 DEF W!PipelineInv, W!TypeOK, R!TypeOK
<1>8. W!PipelineInv'
  BY <1>1, <1>6, <1>7, Assumed, W!Upstream DEF W!working
<1>9. QED
  BY <1>2, <1>4, <1>5, <1>8 DEF InboundInv

(* A step that commits no row. *)
LEMMA NoRow ==
  ASSUME InboundInv, NEW r \in Request, NEW state \in R!RequestState,
         request' = [request EXCEPT ![r] = state],
         state.inserted # {} => state.pc = "storing",
         state.pc # "idle" => state.delivery \in Delivery,
         state.pc = "marking" => state.todo # <<>>,
         state.inserted \subseteq request[r].inserted,
         enqueued' \subseteq Update, queue' \in [Update -> 0..MaxCopies],
         acked' \subseteq Delivery, faults' \in 0..MaxFaults,
         UNCHANGED <<status, working>>
  PROVE  InboundInv' /\ UNCHANGED <<status, replies>>
<1>1. UNCHANGED working /\ status' = status
  OBVIOUS
<1>2. \A s \in Request : \A u \in request[s].inserted : status'[u] = "absent"
  BY <1>1 DEF InboundInv, InHand
<1>3. \A s \in Request \ {r} : state.inserted \cap request[s].inserted = {}
  BY DEF InboundInv, Apart
<1>4. status' \in [Update -> {"absent", "pending", "processing", "processed", "failed"}]
  BY <1>1 DEF InboundInv, R!TypeOK
<1>5. \A u \in state.inserted : status'[u] = "absent"
  BY <1>2
<1>6. \A s \in Request \ {r} :
         /\ \A u \in request[s].inserted : status'[u] = "absent"
         /\ state.inserted \cap request[s].inserted = {}
  BY <1>2, <1>3
<1>7. \A u \in Update :
         status'[u] = status[u] \/ (status[u] = "absent" /\ status'[u] = "pending")
  BY <1>1
<1>8. InboundInv'
  BY <1>1, <1>4, <1>5, <1>6, <1>7, OneRequest
<1>9. QED
  BY <1>1, <1>8 DEF working

LEMMA IdleType == R!Idle \in R!RequestState /\ R!Idle.inserted = {} /\ R!Idle.pc = "idle"
BY DEF R!Idle, R!RequestState

(* What a request has, and the type of the rest. *)
LEMMA Facts ==
  ASSUME InboundInv, NEW r \in Request
  PROVE  /\ request[r] \in R!RequestState /\ InHand(r)
         /\ request \in [Request -> R!RequestState]
         /\ enqueued \subseteq Update /\ queue \in [Update -> 0..MaxCopies]
         /\ acked \subseteq Delivery /\ faults \in 0..MaxFaults
         /\ request[r].pc # "idle" => R!BatchOf(r) \in Seq(Update)
BY InboundAssumption DEF InboundInv, R!TypeOK, InHand, R!BatchOf

(* One more message for an update. *)
LEMMA OneMore ==
  ASSUME InboundInv, NEW u \in Update, queue[u] < MaxCopies,
         queue' = [queue EXCEPT ![u] = @ + 1]
  PROVE  queue' \in [Update -> 0..MaxCopies]
<1>1. queue \in [Update -> 0..MaxCopies]
  BY DEF InboundInv, R!TypeOK
<1>2. queue[u] + 1 \in 0..MaxCopies
  BY <1>1, InboundAssumption
<1>3. QED
  BY <1>1, <1>2

(* The receipt to be published next. *)
LEMMA NextReceipt ==
  ASSUME NEW todo \in Seq(Update), todo # <<>>
  PROVE  Head(todo) \in Update /\ Tail(todo) \in Seq(Update)
OBVIOUS

(* A request that ends: refused, aborted, dead, failed or answered. *)
LEMMA EndsInv ==
  ASSUME InboundInv, NEW r \in Request, UNCHANGED working,
         \/ R!Refuse(r) \/ R!AbortDeadlock(r) \/ R!Die(r) \/ R!EnqueueFails(r) \/ R!Respond(r)
  PROVE  InboundInv' /\ UNCHANGED <<status, replies>>
<1>1. /\ request' = [request EXCEPT ![r] = R!Idle] /\ UNCHANGED <<status, enqueued>>
  BY DEF R!Refuse, R!AbortDeadlock, R!Die, R!EnqueueFails, R!Respond
<1>2. queue' \in [Update -> 0..MaxCopies]
  <2>1. request[r].todo \in Seq(Update)
    BY Facts DEF R!RequestState
  <2>2. CASE UNCHANGED queue
    BY <2>2, Facts
  <2>3. CASE R!EnqueueFails(r) /\ queue' # queue
    <3>1. Head(request[r].todo) \in Update
      BY <2>1, <2>3, NextReceipt DEF R!EnqueueFails
    <3>2. QED
      BY <2>3, <3>1, OneMore DEF R!EnqueueFails
  <2>4. QED
    BY <2>2, <2>3 DEF R!Refuse, R!AbortDeadlock, R!Die, R!Respond
<1>3. faults' \in 0..MaxFaults
  BY Facts, InboundAssumption
     DEF R!Refuse, R!AbortDeadlock, R!Die, R!EnqueueFails, R!Respond
<1>4. acked' \subseteq Delivery
  BY Facts DEF R!Refuse, R!AbortDeadlock, R!Die, R!EnqueueFails, R!Respond, InHand
<1>5. QED
  BY <1>1, <1>2, <1>3, <1>4, Facts, IdleType, NoRow

LEMMA PostInv ==
  ASSUME InboundInv, NEW r \in Request, NEW d \in Delivery, UNCHANGED working, R!Post(r, d)
  PROVE  InboundInv' /\ UNCHANGED <<status, replies>>
<1> DEFINE state == [R!Idle EXCEPT !.pc = "posted", !.delivery = d]
<1>1. /\ state \in R!RequestState /\ state.inserted = {} /\ state.delivery = d
      /\ state.pc = "posted"
  <2>1. R!Idle \in R!RequestState /\ R!Idle.inserted = {}
    BY IdleType
  <2>2. QED
    BY <2>1 DEF R!RequestState
<1>2. request' = [request EXCEPT ![r] = state]
      /\ UNCHANGED <<status, enqueued, queue, acked, faults>>
  BY DEF R!Post
<1> HIDE DEF state
<1>3. QED
  BY <1>1, <1>2, Facts, NoRow

(* Admitted, published or marked: a request that goes on. *)
LEMMA ProceedsInv ==
  ASSUME InboundInv, NEW r \in Request, UNCHANGED working,
         R!Admit(r) \/ R!Enqueue(r) \/ R!MarkEnqueued(r)
  PROVE  InboundInv' /\ UNCHANGED <<status, replies>>
<1>1. request[r] \in R!RequestState /\ InHand(r) /\ request[r].pc # "idle"
  BY Facts DEF R!Admit, R!Enqueue, R!MarkEnqueued
<1>2. CASE R!Admit(r)
  <2> DEFINE state == [request[r] EXCEPT !.pc = "storing"]
  <2>1. /\ state \in R!RequestState /\ state.inserted = request[r].inserted
        /\ state.delivery = request[r].delivery /\ state.pc = "storing"
    BY <1>1 DEF R!RequestState
  <2>2. request' = [request EXCEPT ![r] = state]
        /\ UNCHANGED <<status, enqueued, queue, acked, faults>>
    BY <1>2 DEF R!Admit
  <2> HIDE DEF state
  <2>3. QED
    BY <1>1, <2>1, <2>2, Facts, NoRow DEF InHand
<1>3. CASE R!Enqueue(r)
  <2> DEFINE state == [request[r] EXCEPT !.pc = "marking"]
  <2>1. /\ state \in R!RequestState /\ state.inserted = {}
        /\ state.delivery = request[r].delivery /\ state.todo # <<>>
    BY <1>1, <1>3 DEF R!RequestState, InHand, R!Enqueue
  <2>2. request' = [request EXCEPT ![r] = state]
        /\ UNCHANGED <<status, enqueued, acked, faults>>
    BY <1>3 DEF R!Enqueue
  <2>3. queue' \in [Update -> 0..MaxCopies]
    BY <1>1, <1>3, NextReceipt, OneMore DEF R!Enqueue, R!RequestState
  <2> HIDE DEF state
  <2>4. QED
    BY <1>1, <2>1, <2>2, <2>3, Facts, NoRow DEF InHand
<1>4. CASE R!MarkEnqueued(r)
  <2> DEFINE rest == Tail(request[r].todo)
             state == [request[r] EXCEPT !.pc = "publishing", !.todo = rest]
  <2>1. rest \in Seq(Update) /\ Head(request[r].todo) \in Update
    BY <1>1, <1>4, NextReceipt DEF R!RequestState, R!MarkEnqueued, InHand
  <2>2. /\ request' = [request EXCEPT ![r] = state]
        /\ enqueued' = enqueued \cup {Head(request[r].todo)}
        /\ UNCHANGED <<status, queue, acked, faults>>
    BY <1>4 DEF R!MarkEnqueued
  <2> HIDE DEF rest
  <2>3. /\ state \in R!RequestState /\ state.inserted = {}
        /\ state.delivery = request[r].delivery /\ state.pc = "publishing"
    BY <1>1, <1>4, <2>1 DEF R!RequestState, InHand, R!MarkEnqueued
  <2> HIDE DEF state
  <2>4. QED
    BY <1>1, <2>1, <2>2, <2>3, Facts, NoRow DEF InHand
<1>5. QED
  BY <1>2, <1>3, <1>4

(* A row is inserted where there is none and nobody else is inserting. *)
LEMMA InsertInv ==
  ASSUME InboundInv, NEW r \in Request, UNCHANGED working, R!InsertReceipt(r)
  PROVE  InboundInv' /\ UNCHANGED <<status, replies>>
<1> DEFINE u == R!BatchOf(r)[request[r].next]
           new == IF status[u] = "absent" THEN request[r].inserted \cup {u}
                                          ELSE request[r].inserted
           list == IF /\ R!Unpublished(u)
                      /\ \A i \in 1..Len(request[r].todo) : request[r].todo[i] # u
                     THEN Append(request[r].todo, u) ELSE request[r].todo
           next == request[r].next + 1
           state == [request[r] EXCEPT !.next = next, !.inserted = new, !.todo = list]
<1>1. /\ request[r] \in R!RequestState /\ InHand(r) /\ request[r].pc = "storing"
      /\ request[r].next <= Len(R!BatchOf(r)) /\ R!BatchOf(r) \in Seq(Update)
      /\ \A s \in Request : ~R!WaitsFor(r, s)
      /\ UNCHANGED <<status, enqueued, queue, acked, faults>>
  BY Facts DEF R!InsertReceipt
<1>2. u \in Update /\ next \in Nat \ {0}
  BY <1>1 DEF R!RequestState
<1>3. request' = [request EXCEPT ![r] = state]
  BY <1>1 DEF R!InsertReceipt
<1>4. \A s \in Request \ {r} : u \notin request[s].inserted
  BY <1>1 DEF R!WaitsFor
<1> HIDE DEF u, next
<1>5. /\ new \subseteq Update /\ new \subseteq request[r].inserted \cup {u}
      /\ \A v \in new : status[v] = "absent"
  BY <1>1, <1>2 DEF R!RequestState, InHand
<1>6. list \in Seq(Update)
  BY <1>1, <1>2 DEF R!RequestState
<1> HIDE DEF new, list
<1>7. /\ state \in R!RequestState /\ state.pc = "storing" /\ state.inserted = new
      /\ state.delivery = request[r].delivery
  BY <1>1, <1>2, <1>5, <1>6 DEF R!RequestState
<1> HIDE DEF state
<1>8. \A s \in Request \ {r} :
         /\ \A v \in request[s].inserted : status'[v] = "absent"
         /\ state.inserted \cap request[s].inserted = {}
  BY <1>1, <1>4, <1>5, <1>7 DEF InboundInv, InHand, Apart
<1>9. /\ status' \in [Update -> {"absent", "pending", "processing", "processed", "failed"}]
      /\ \A v \in Update :
            status'[v] = status[v] \/ (status[v] = "absent" /\ status'[v] = "pending")
  BY <1>1 DEF InboundInv, R!TypeOK
<1>10. /\ state.delivery \in Delivery
       /\ \A v \in state.inserted : status'[v] = "absent"
       /\ enqueued' \subseteq Update /\ queue' \in [Update -> 0..MaxCopies]
       /\ acked' \subseteq Delivery /\ faults' \in 0..MaxFaults
  BY <1>1, <1>5, <1>7, Facts DEF InHand
<1>11. InboundInv'
  BY <1>3, <1>7, <1>8, <1>9, <1>10, OneRequest
<1>12. QED
  BY <1>1, <1>11 DEF working

(* The commit records what the request has inserted, all of it at once. *)
LEMMA CommitInv ==
  ASSUME InboundInv, NEW r \in Request, UNCHANGED working, R!CommitReceipts(r)
  PROVE  InboundInv' /\ [Log!Next]_<<status, replies>>
<1> DEFINE U == request[r].inserted
           state == [request[r] EXCEPT !.pc = "publishing", !.inserted = {}]
<1>1. /\ request[r] \in R!RequestState /\ InHand(r) /\ request[r].pc = "storing"
      /\ status' = [u \in Update |-> IF u \in U THEN "pending" ELSE status[u]]
      /\ request' = [request EXCEPT ![r] = state]
      /\ UNCHANGED <<enqueued, queue, acked, faults>>
  BY Facts DEF R!CommitReceipts
<1>2. /\ state \in R!RequestState /\ state.pc = "publishing" /\ state.inserted = {}
      /\ state.delivery = request[r].delivery
  BY <1>1 DEF R!RequestState
<1>3. /\ status \in [Update -> {"absent", "pending", "processing", "processed", "failed"}]
      /\ U \subseteq Update /\ \A u \in U : status[u] = "absent"
  BY <1>1 DEF InboundInv, R!TypeOK, R!RequestState, InHand
<1> HIDE DEF state
<1>4. \A s \in Request \ {r} :
         /\ \A v \in request[s].inserted : status'[v] = "absent"
         /\ state.inserted \cap request[s].inserted = {}
  <2>1. TAKE s \in Request \ {r}
  <2>2. \A v \in request[s].inserted : v \in Update /\ v \notin U /\ status[v] = "absent"
    BY Facts DEF InboundInv, InHand, Apart, R!RequestState
  <2>3. QED
    BY <1>1, <1>2, <2>2
<1> HIDE DEF U
<1>5. /\ status' \in [Update -> {"absent", "pending", "processing", "processed", "failed"}]
      /\ \A v \in Update :
            status'[v] = status[v] \/ (status[v] = "absent" /\ status'[v] = "pending")
  BY <1>1, <1>3
<1>a. /\ state.delivery \in Delivery
      /\ enqueued' \subseteq Update /\ queue' \in [Update -> 0..MaxCopies]
      /\ acked' \subseteq Delivery /\ faults' \in 0..MaxFaults
      /\ request' = [request EXCEPT ![r] = state]
  BY <1>1, <1>2, Facts DEF InHand
<1>6. InboundInv'
  BY <1>2, <1>4, <1>5, <1>a, OneRequest
<1>7. UNCHANGED replies
  BY DEF working
<1>8. CASE U = {}
  <2>1. status' = status
    BY <1>1, <1>3, <1>8
  <2>2. QED
    BY <1>6, <1>7, <2>1
<1>9. CASE U # {}
  BY <1>1, <1>3, <1>6, <1>7, <1>9 DEF Log!Next, Log!Record
<1>10. QED
  BY <1>8, <1>9

LEMMA ReceiverStep ==
  ASSUME InboundInv, R!RequestStep, UNCHANGED working
  PROVE  InboundInv' /\ [Log!Next]_<<status, replies>>
BY PostInv, EndsInv, ProceedsInv, InsertInv, CommitInv DEF R!RequestStep, R!Serve

-----------------------------------------------------------------------------
(* What a worker's step is to the log. *)
Handling == \E u \in Update : Log!Claim(u) \/ Log!Reply(u) \/ Log!Close(u)

LEMMA ClaimIsClaim ==
  ASSUME InboundInv, NEW w \in Worker, W!Claim(w)
  PROVE  Handling
<1>1. W!EventOf(w) \in Update
  BY Assumed, W!AtHand DEF InboundInv, W!Claim
<1>2. QED
  BY <1>1 DEF W!Claim, Handling, Log!Claim

(* A reply is the worker's own event's, and at most the one that is due. *)
LEMMA SendIsReply ==
  ASSUME InboundInv, NEW w \in Worker, W!Send(w)
  PROVE  Handling \/ UNCHANGED <<status, replies>>
<1> DEFINE e == W!EventOf(w)
<1>1. /\ e \in Update /\ worker[w].next \in Nat /\ Len(Envelopes[e]) \in Nat
      /\ W!WorkerInv(w) /\ replies \in [Update -> Nat] /\ worker[w].pc = "sending"
  BY Assumed, W!AtHand DEF InboundInv, W!PipelineInv, W!TypeOK, W!Send
<1>2. status[e] = "processing" /\ replies[e] < worker[w].next
  BY <1>1 DEF W!WorkerInv, W!Claimed, W!Owned
<1>3. ~(worker[w].next > Len(Envelopes[e]))
  BY <1>1 DEF W!WorkerInv, W!AllDone
<1>4. replies[e] < Len(Envelopes[e])
  <2> DEFINE a == replies[e]
             b == worker[w].next
             c == Len(Envelopes[e])
  <2>1. a \in Nat /\ b \in Nat /\ c \in Nat /\ a < b /\ ~(b > c)
    BY <1>1, <1>2, <1>3
  <2> HIDE DEF a, b, c
  <2>2. a < c
    BY <2>1
  <2>3. QED
    BY <2>2 DEF a, c
<1>5. /\ UNCHANGED status
      /\ UNCHANGED replies \/ replies' = [replies EXCEPT ![e] = @ + 1]
  BY DEF W!Send
<1> HIDE DEF e
<1>6. CASE replies' = [replies EXCEPT ![e] = @ + 1]
  BY <1>1, <1>2, <1>4, <1>5, <1>6 DEF Handling, Log!Reply
<1>7. QED
  BY <1>5, <1>6

LEMMA ClosingIsClose ==
  ASSUME InboundInv, NEW w \in Worker, W!MarkProcessed(w) \/ W!Fail(w)
  PROVE  Handling
<1> DEFINE e == W!EventOf(w)
<1>1. e \in Update /\ status[e] = "processing" /\ UNCHANGED replies
  BY Assumed, W!AtHand
     DEF InboundInv, W!PipelineInv, W!WorkerInv, W!Claimed, W!Owned, W!MarkProcessed, W!Fail
<1>2. \E s \in {"processed", "failed"} : status' = [status EXCEPT ![e] = s]
  BY DEF W!MarkProcessed, W!Fail
<1> HIDE DEF e
<1>3. QED
  BY <1>1, <1>2 DEF Handling, Log!Close, Log!Closed

LEMMA WorkerIsLog ==
  ASSUME InboundInv, W!WorkerStep
  PROVE  Handling \/ UNCHANGED <<status, replies>>
<1>1. PICK w \in Worker :
         (\E e \in Update : W!Take(w, e)) \/ W!Work(w) \/ W!Killed(w) \/ W!Raise(w)
  BY DEF W!WorkerStep
<1>2. CASE UNCHANGED <<status, replies>>
  BY <1>2
<1>3. QED
  BY <1>1, <1>2, ClaimIsClaim, SendIsReply, ClosingIsClose
     DEF W!Take, W!Work, W!Killed, W!Raise, W!Skip, W!Resolve, W!StoreInbound,
         W!LockConversation, W!Decide

(* No worker makes a row. *)
LEMMA WorkersMakeNoRow ==
  ASSUME InboundInv, W!WorkerStep, UNCHANGED receiving
  PROVE  InboundInv'
<1>1. UNCHANGED <<enqueued, request, acked, faults>>
  BY DEF receiving
<1>2. W!PipelineInv'
  BY Assumed, W!WorkersKeep DEF InboundInv
<1>3. \A u \in Update : status[u] = "absent" => status'[u] = "absent"
  BY WorkerIsLog 
     DEF InboundInv, R!TypeOK, Handling, Log!Claim, Log!Reply, Log!Close
<1>4. QED
  BY <1>1, <1>2, <1>3
     DEF InboundInv, W!PipelineInv, W!TypeOK, R!TypeOK, InHand, Apart, R!RequestState

LEMMA StepInbound ==
  ASSUME InboundInv, [Next]_vars
  PROVE  InboundInv' /\ [Log!Next]_<<status, replies>>
<1>1. CASE R!RequestStep /\ UNCHANGED working
  BY <1>1, ReceiverStep
<1>2. CASE P!WorkerStep /\ UNCHANGED receiving
  BY <1>2, SameWorkers, WorkerIsLog, WorkersMakeNoRow DEF Handling, Log!Next
<1>3. CASE UNCHANGED vars
  <2>1. UNCHANGED <<status, queue, enqueued, request, acked, faults>> /\ UNCHANGED working
        /\ UNCHANGED replies
    BY <1>3 DEF vars, receiving, working
  <2>2. W!TypeOK'
    BY <2>1 DEF InboundInv, W!PipelineInv, W!TypeOK, working
  <2>3. W!PipelineInv'
    BY <2>1, <2>2, Assumed, W!Upstream
       DEF InboundInv, W!PipelineInv, W!TypeOK, W!working, working
  <2>4. QED
    BY <2>1, <2>3 DEF InboundInv, R!TypeOK, InHand, Apart
<1>4. QED
  BY <1>1, <1>2, <1>3 DEF Next

(* End to end, for any number of requests, workers, updates and faults: an *)
(* update is recorded once, handled by one worker and answered at most     *)
(* once for each message it carries.                                       *)
THEOREM InboundImplementsEventLog == Spec => ImplementsEventLog
<1>1. Init => Log!Init
  BY DEF Init, R!Init, P!WorkersInit, Log!Init
<1>2. InboundInv /\ [Next]_vars => InboundInv' /\ [Log!Next]_<<status, replies>>
  BY StepInbound
<1>3. QED
  BY <1>1, <1>2, InitInbound, PTL DEF Spec, ImplementsEventLog, Log!Spec, Log!vars

(* What EventLog promises, and so its implementation: a message has at     *)
(* most one answer, and a closed update is neither opened nor answered     *)
(* again, however often it is delivered, queued or redelivered.            *)
LEMMA LogInit == Log!Init => Log!TypeOK /\ Log!AnsweredOnce
<1>1. \A u \in Update : Len(Envelopes[u]) \in Nat
  BY InboundAssumption
<1>2. QED
  BY <1>1 DEF Log!Init, Log!TypeOK, Log!AnsweredOnce, Log!Status

LEMMA LogKeeps ==
  ASSUME Log!TypeOK, Log!AnsweredOnce, [Log!Next]_Log!vars
  PROVE  /\ Log!TypeOK' /\ Log!AnsweredOnce'
         /\ \A u \in Update : status[u] \in Log!Closed
              => status'[u] = status[u] /\ replies'[u] = replies[u]
<1>1. \A u \in Update : Len(Envelopes[u]) \in Nat /\ replies[u] \in Nat
  BY InboundAssumption DEF Log!TypeOK
<1>2. CASE UNCHANGED Log!vars
  BY <1>2 DEF Log!vars, Log!TypeOK, Log!AnsweredOnce
<1>3. ASSUME NEW U, Log!Record(U) PROVE /\ Log!TypeOK' /\ Log!AnsweredOnce'
         /\ \A u \in Update : status[u] \in Log!Closed
              => status'[u] = status[u] /\ replies'[u] = replies[u]
  BY <1>3 DEF Log!Record, Log!TypeOK, Log!AnsweredOnce, Log!Status, Log!Closed
<1>4. ASSUME NEW u \in Update, Log!Claim(u) \/ Log!Close(u)
      PROVE /\ Log!TypeOK' /\ Log!AnsweredOnce'
         /\ \A v \in Update : status[v] \in Log!Closed
              => status'[v] = status[v] /\ replies'[v] = replies[v]
  BY <1>4 DEF Log!Claim, Log!Close, Log!TypeOK, Log!AnsweredOnce, Log!Status, Log!Closed
<1>5. ASSUME NEW u \in Update, Log!Reply(u)
      PROVE /\ Log!TypeOK' /\ Log!AnsweredOnce'
         /\ \A v \in Update : status[v] \in Log!Closed
              => status'[v] = status[v] /\ replies'[v] = replies[v]
  BY <1>1, <1>5 DEF Log!Reply, Log!TypeOK, Log!AnsweredOnce, Log!Status, Log!Closed
<1>6. QED
  BY <1>2, <1>3, <1>4, <1>5 DEF Log!Next

THEOREM AnsweredAtMostOnce == Spec => [](Log!TypeOK /\ Log!AnsweredOnce) /\ Log!ClosedIsFinal
BY InboundImplementsEventLog, LogInit, LogKeeps, PTL
   DEF ImplementsEventLog, Log!Spec, Log!ClosedIsFinal

=============================================================================
