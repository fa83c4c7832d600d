--------------------------- MODULE ReceiverProofs ---------------------------
(***************************************************************************)
(* The receiver's safety for any requests, deliveries, updates and bounds. *)
(*                                                                         *)
(* What is visible in the database and on the queue is not inductive: the  *)
(* argument is about what a request knows half-way.  A request that is     *)
(* storing holds the keys of the rows it has inserted, alone; what it has  *)
(* looked at it has either seen marked or will publish; and between the    *)
(* broker's answer and the mark the message it sent is on the queue or has *)
(* been handled.                                                           *)
(***************************************************************************)
EXTENDS Receiver, TLAPS

Listed(u, r) == \E j \in 1..Len(request[r].todo) : request[r].todo[j] = u

(* What r has inserted is not yet committed by anyone. *)
HoldsKeys(r) ==
  /\ request[r].inserted # {} => request[r].pc = "storing"
  /\ \A u \in request[r].inserted : status[u] = "absent"

(* r has dealt with u when its row exists, as far as r can see, and it is  *)
(* marked or about to be.                                                  *)
Covered(u, r) ==
  /\ status[u] # "absent" \/ u \in request[r].inserted
  /\ u \in enqueued \/ Listed(u, r)

RequestInv(r) ==
  /\ request[r].pc \in {"idle", "posted"} =>
        request[r].next = 1 /\ request[r].todo = <<>>
  /\ request[r].pc # "idle" => request[r].delivery \in Delivery
  /\ request[r].pc = "storing" =>
        \A i \in 1..Len(BatchOf(r)) : i < request[r].next => Covered(BatchOf(r)[i], r)
  /\ request[r].pc \in {"publishing", "marking"} =>
        \A i \in 1..Len(BatchOf(r)) : Covered(BatchOf(r)[i], r)
  /\ \A j \in 1..Len(request[r].todo) :
        status[request[r].todo[j]] # "absent" \/ request[r].todo[j] \in request[r].inserted
  /\ request[r].pc = "marking" =>
        /\ request[r].todo # <<>>
        /\ status[Head(request[r].todo)] = "pending" => queue[Head(request[r].todo)] > 0

Apart(r, s) == request[r].inserted \cap request[s].inserted = {}

ReceiverInv ==
  /\ TypeOK
  /\ QueuedIsStored
  /\ AckedIsPublished
  /\ MarkedIsNotForgotten
  /\ \A u \in enqueued : status[u] # "absent"
  /\ \A r \in Request : HoldsKeys(r) /\ RequestInv(r)
  /\ \A r, s \in Request : r # s => Apart(r, s)

-----------------------------------------------------------------------------
LEMMA InitInv == Init => ReceiverInv
BY ReceiverAssumption
   DEF Init, ReceiverInv, TypeOK, QueuedIsStored, AckedIsPublished,
       MarkedIsNotForgotten, HoldsKeys, RequestInv, Apart, Idle, RequestState

(* What every step leaves standing: rows stay, marks stay, and a stored    *)
(* receipt that is not on its way to a worker stays so only if handled.    *)
Forward ==
  /\ \A u \in Update : status[u] # "absent" => status'[u] # "absent"
  /\ enqueued \subseteq enqueued'
  /\ \A u \in Update :
        /\ status[u] # "absent"
        /\ status[u] = "pending" => queue[u] > 0
        => (status'[u] = "pending" => queue'[u] > 0)

(* A request the step does not touch keeps what it knows.                  *)
LEMMA Frame ==
  ASSUME ReceiverInv, Forward, NEW s \in Request, request'[s] = request[s],
         \A u \in request[s].inserted : status'[u] = "absent"
  PROVE  HoldsKeys(s)' /\ RequestInv(s)'
<1>1. HoldsKeys(s) /\ RequestInv(s) /\ TypeOK
  BY DEF ReceiverInv
<1>2. /\ request[s].todo \in Seq(Update)
      /\ \A j \in 1..Len(request[s].todo) : request[s].todo[j] \in Update
  BY <1>1 DEF TypeOK, RequestState
<1>3. HoldsKeys(s)'
  BY <1>1 DEF HoldsKeys
<1>4. request[s].pc # "idle" =>
        /\ BatchOf(s) \in Seq(Update)
        /\ \A i \in 1..Len(BatchOf(s)) : BatchOf(s)[i] \in Update
  <2>1. SUFFICES ASSUME request[s].pc # "idle" PROVE BatchOf(s) \in Seq(Update)
    OBVIOUS
  <2>2. QED BY <1>1, <2>1, ReceiverAssumption DEF RequestInv, BatchOf
<1>5. BatchOf(s)' = BatchOf(s)
  BY DEF BatchOf
<1>6. \A u \in Update : Covered(u, s) => Covered(u, s)'
  BY DEF Covered, Listed, Forward
<1>7. request[s].pc = "marking" =>
        /\ request[s].todo # <<>>
        /\ status'[Head(request[s].todo)] = "pending" => queue'[Head(request[s].todo)] > 0
  <2>1. SUFFICES ASSUME request[s].pc = "marking" PROVE
                   /\ request[s].todo # <<>>
                   /\ status'[Head(request[s].todo)] = "pending"
                        => queue'[Head(request[s].todo)] > 0
    OBVIOUS
  <2>2. request[s].inserted = {}
    BY <1>1, <2>1 DEF HoldsKeys
  <2>3. /\ request[s].todo # <<>>
        /\ status[Head(request[s].todo)] = "pending" => queue[Head(request[s].todo)] > 0
    BY <1>1, <2>1 DEF RequestInv
  <2>4. Head(request[s].todo) = request[s].todo[1] /\ 1 \in 1..Len(request[s].todo)
    BY <1>2, <2>3
  <2>5. status[Head(request[s].todo)] # "absent"
    BY <1>1, <2>2, <2>4 DEF RequestInv
  <2>6. QED BY <1>2, <2>3, <2>4, <2>5 DEF Forward
<1>8. RequestInv(s)'
  <2>1. (request[s].pc = "storing" =>
          \A i \in 1..Len(BatchOf(s)) : i < request[s].next => Covered(BatchOf(s)[i], s))'
    BY <1>1, <1>4, <1>5, <1>6 DEF RequestInv
  <2>2. (request[s].pc \in {"publishing", "marking"} =>
          \A i \in 1..Len(BatchOf(s)) : Covered(BatchOf(s)[i], s))'
    BY <1>1, <1>4, <1>5, <1>6 DEF RequestInv
  <2>3. (\A j \in 1..Len(request[s].todo) :
          status[request[s].todo[j]] # "absent"
            \/ request[s].todo[j] \in request[s].inserted)'
    BY <1>1, <1>2 DEF RequestInv, Forward
  <2>4. QED BY <1>1, <1>7, <2>1, <2>2, <2>3 DEF RequestInv
<1>9. QED BY <1>3, <1>8

(* A request that has ended knows nothing. *)
LEMMA Reset ==
  ASSUME NEW r \in Request, request'[r] = Idle
  PROVE  HoldsKeys(r)' /\ RequestInv(r)'
BY DEF HoldsKeys, RequestInv, Idle

-----------------------------------------------------------------------------
(* The updates of the body a request has in hand.                          *)
LEMMA BatchType ==
  ASSUME ReceiverInv, NEW r \in Request, request[r].pc # "idle"
  PROVE  /\ BatchOf(r) \in Seq(Update)
         /\ \A i \in 1..Len(BatchOf(r)) : BatchOf(r)[i] \in Update
<1>1. BatchOf(r) \in Seq(Update)
  BY ReceiverAssumption DEF ReceiverInv, RequestInv, BatchOf
<1>2. QED BY <1>1

(* A step of one request, put together from what it does to that request   *)
(* and what it does to the database and the queue.                         *)
LEMMA OneRequest ==
  ASSUME ReceiverInv, NEW r \in Request, TypeOK', Forward,
         \A s \in Request \ {r} :
            /\ request'[s] = request[s]
            /\ \A u \in request[s].inserted : status'[u] = "absent"
            /\ request'[r].inserted \cap request[s].inserted = {},
         HoldsKeys(r)', RequestInv(r)',
         QueuedIsStored', MarkedIsNotForgotten',
         \A u \in enqueued' : status'[u] # "absent",
         \A d \in acked' : d \in acked \/ \A i \in 1..Len(Batch[d]) :
            Batch[d][i] \in enqueued'
  PROVE  ReceiverInv'
<1>1. \A s \in Request : (HoldsKeys(s) /\ RequestInv(s))'
  <2>1. TAKE s \in Request
  <2>2. CASE s = r BY <2>2
  <2>3. CASE s # r BY <2>3, Frame
  <2>4. QED BY <2>2, <2>3
<1>2. AckedIsPublished'
  <2>1. SUFFICES ASSUME NEW d \in acked', NEW i \in 1..Len(Batch[d])
                 PROVE  status'[Batch[d][i]] # "absent" /\ Batch[d][i] \in enqueued'
    BY DEF AckedIsPublished
  <2>2. Batch[d][i] \in enqueued'
    BY DEF ReceiverInv, AckedIsPublished, Forward
  <2>3. QED BY <2>2
<1>3. (\A s, t \in Request : s # t => Apart(s, t))'
  BY DEF ReceiverInv, Apart
<1>4. QED BY <1>1, <1>2, <1>3 DEF ReceiverInv

(* A step that touches no row, no mark and no message.                     *)
LEMMA Quiet ==
  ASSUME ReceiverInv, UNCHANGED <<status, enqueued, queue>>
  PROVE  /\ Forward
         /\ QueuedIsStored' /\ MarkedIsNotForgotten'
         /\ \A u \in enqueued' : status'[u] # "absent"
BY DEF ReceiverInv, Forward, QueuedIsStored, MarkedIsNotForgotten

(* A request that ends without a 200 leaves the rest as it was.            *)
LEMMA QuietReset ==
  ASSUME ReceiverInv, NEW r \in Request, request' = [request EXCEPT ![r] = Idle],
         UNCHANGED <<status, enqueued, queue>>,
         faults' \in 0..MaxFaults,
         acked' \subseteq Delivery,
         \A d \in acked' : d \in acked \/ \A i \in 1..Len(Batch[d]) :
            Batch[d][i] \in enqueued'
  PROVE  ReceiverInv'
<1>1. TypeOK
  BY DEF ReceiverInv
<1>2. request'[r] = Idle /\ \A s \in Request \ {r} : request'[s] = request[s]
  BY <1>1 DEF TypeOK
<1>3. TypeOK'
  BY <1>1 DEF TypeOK, RequestState, Idle
<1>4. \A s \in Request \ {r} :
        /\ request'[s] = request[s]
        /\ \A u \in request[s].inserted : status'[u] = "absent"
        /\ request'[r].inserted \cap request[s].inserted = {}
  BY <1>2 DEF ReceiverInv, HoldsKeys, Idle
<1>5. (HoldsKeys(r) /\ RequestInv(r))'
  BY <1>2, Reset
<1>6. QED BY <1>3, <1>4, <1>5, Quiet, OneRequest

LEMMA PostInv ==
  ASSUME ReceiverInv, NEW r \in Request, NEW d \in Delivery, Post(r, d)
  PROVE  ReceiverInv'
<1>1. TypeOK
  BY DEF ReceiverInv
<1>2. TypeOK'
  <2>1. Idle \in RequestState
    BY DEF RequestState, Idle
  <2>2. [Idle EXCEPT !.pc = "posted", !.delivery = d] \in RequestState
    BY <2>1 DEF RequestState
  <2>3. QED BY <1>1, <2>2 DEF TypeOK, Post
<1>3. request'[r].pc = "posted" /\ request'[r].delivery = d /\ request'[r].next = 1
      /\ request'[r].inserted = {} /\ request'[r].todo = <<>>
      /\ \A s \in Request \ {r} : request'[s] = request[s]
  BY <1>1 DEF TypeOK, RequestState, Post, Idle
<1>4. (HoldsKeys(r) /\ RequestInv(r))'
  BY <1>3 DEF HoldsKeys, RequestInv
<1>5. \A s \in Request \ {r} : \A u \in request[s].inserted : status'[u] = "absent"
  BY DEF ReceiverInv, HoldsKeys, Post
<1>6. QED BY <1>2, <1>3, <1>4, <1>5, Quiet, OneRequest DEF Post

LEMMA AdmitInv ==
  ASSUME ReceiverInv, NEW r \in Request, Admit(r)
  PROVE  ReceiverInv'
<1>1. TypeOK /\ HoldsKeys(r) /\ RequestInv(r)
  BY DEF ReceiverInv
<1>2. TypeOK'
  BY <1>1 DEF TypeOK, RequestState, Admit
<1>3. /\ request'[r].pc = "storing" /\ request'[r].delivery = request[r].delivery
      /\ request'[r].next = 1 /\ request'[r].inserted = {} /\ request'[r].todo = <<>>
      /\ \A s \in Request \ {r} : request'[s] = request[s]
  BY <1>1 DEF TypeOK, RequestState, Admit, HoldsKeys, RequestInv
<1>4. \A i \in 1..Len(BatchOf(r)') : ~(i < 1)
  OBVIOUS
<1>5. (HoldsKeys(r) /\ RequestInv(r))'
  BY <1>1, <1>3, <1>4 DEF HoldsKeys, RequestInv, Admit
<1>6. \A s \in Request \ {r} : \A u \in request[s].inserted : status'[u] = "absent"
  BY DEF ReceiverInv, HoldsKeys, Admit
<1>7. QED BY <1>2, <1>3, <1>5, <1>6, Quiet, OneRequest DEF Admit

(* What r stores next is covered when it has been looked at: it is marked, *)
(* or it is on r's list now if it was not before.                          *)
LEMMA InsertInv ==
  ASSUME ReceiverInv, NEW r \in Request, InsertReceipt(r)
  PROVE  ReceiverInv'
<1> DEFINE u == BatchOf(r)[request[r].next]
           new == IF status[u] = "absent" THEN request[r].inserted \cup {u}
                                          ELSE request[r].inserted
           list == IF Unpublished(u)
                      /\ \A i \in 1..Len(request[r].todo) : request[r].todo[i] # u
                     THEN Append(request[r].todo, u) ELSE request[r].todo
<1>1. /\ TypeOK /\ HoldsKeys(r) /\ RequestInv(r)
      /\ request[r] \in RequestState
      /\ request[r].pc = "storing" /\ request[r].next \in 1..Len(BatchOf(r))
      /\ u \in Update
  <2>1. request[r] \in RequestState
    BY DEF ReceiverInv, TypeOK
  <2>2. request[r].next \in Nat \ {0}
    BY <2>1 DEF RequestState
  <2>3. QED BY <2>1, <2>2, BatchType DEF ReceiverInv, InsertReceipt
<1>2. /\ request'[r] = [request[r] EXCEPT !.next = @ + 1, !.inserted = new, !.todo = list]
      /\ \A s \in Request \ {r} : request'[s] = request[s]
  BY <1>1 DEF TypeOK, InsertReceipt
<1>3. /\ request'[r].pc = "storing" /\ request'[r].delivery = request[r].delivery
      /\ request'[r].next = request[r].next + 1
      /\ request'[r].inserted = new /\ request'[r].todo = list
  BY <1>1, <1>2 DEF RequestState
<1>4. new \subseteq Update /\ list \in Seq(Update)
  BY <1>1 DEF RequestState
<1>5. TypeOK'
  <2>1. request'[r] \in RequestState
    <3> HIDE DEF u, new, list
    <3>1. request[r].next + 1 \in Nat \ {0}
      BY <1>1 DEF RequestState
    <3>2. QED BY <1>1, <1>2, <1>4, <3>1 DEF RequestState
  <2>2. request' = [request EXCEPT ![r] = request'[r]]
    BY <1>1, <1>2 DEF TypeOK, InsertReceipt
  <2>3. QED BY <1>1, <2>1, <2>2 DEF TypeOK, InsertReceipt
<1>6. /\ \A j \in 1..Len(request[r].todo) : \E k \in 1..Len(list) : list[k] = request[r].todo[j]
      /\ \A k \in 1..Len(list) :
            list[k] = u \/ \E j \in 1..Len(request[r].todo) : request[r].todo[j] = list[k]
      /\ u \in enqueued \/ \E k \in 1..Len(list) : list[k] = u
  <2>1. request[r].todo \in Seq(Update)
    BY <1>1 DEF RequestState
  <2> DEFINE fresh == /\ Unpublished(u)
                      /\ \A i \in 1..Len(request[r].todo) : request[r].todo[i] # u
  <2>2. CASE ~fresh
    <3>1. list = request[r].todo
      BY <2>2
    <3>2. u \in enqueued \/ \E k \in 1..Len(request[r].todo) : request[r].todo[k] = u
      BY <2>2 DEF Unpublished
    <3> HIDE DEF list, u
    <3>3. QED BY <3>1, <3>2
  <2>3. CASE fresh
    <3>0. list = Append(request[r].todo, u)
      BY <2>3
    <3>1. /\ Len(list) = Len(request[r].todo) + 1 /\ Len(request[r].todo) \in Nat
          /\ list[Len(list)] = u
          /\ \A j \in 1..Len(request[r].todo) : list[j] = request[r].todo[j]
      <4> HIDE DEF list, u, fresh
      <4>1. QED BY <1>1, <2>1, <3>0
    <3> HIDE DEF list, u
    <3>2. QED BY <3>1
  <2>4. QED BY <2>2, <2>3
<1> HIDE DEF u, new, list
<1>7. /\ request[r].inserted \subseteq new
      /\ new \subseteq request[r].inserted \cup {u}
      /\ status[u] # "absent" \/ u \in new
      /\ \A v \in new : status[v] = "absent"
  BY <1>1 DEF new, HoldsKeys
<1>8. UNCHANGED <<status, enqueued, queue, acked>>
  BY DEF InsertReceipt
<1>9. HoldsKeys(r)'
  BY <1>3, <1>7, <1>8 DEF HoldsKeys
<1>10. BatchOf(r)' = BatchOf(r)
  BY <1>3 DEF BatchOf
<1>11. \A v \in Update : v = u \/ Covered(v, r) => Covered(v, r)'
  <2>1. TAKE v \in Update
  <2>2. HAVE v = u \/ Covered(v, r)
  <2>3. status'[v] # "absent" \/ v \in new
    BY <1>7, <1>8, <2>2 DEF Covered
  <2>4. v \in enqueued \/ \E k \in 1..Len(list) : list[k] = v
    <3>1. CASE v = u BY <1>6, <3>1
    <3>2. CASE Listed(v, r)
      <4>1. PICK j \in 1..Len(request[r].todo) : request[r].todo[j] = v
        BY <3>2 DEF Listed
      <4>2. QED BY <1>6, <4>1
    <3>3. QED BY <2>2, <3>1, <3>2 DEF Covered
  <2>5. Listed(v, r)' <=> \E k \in 1..Len(list) : list[k] = v
    BY <1>3 DEF Listed
  <2>6. QED BY <1>3, <1>8, <2>3, <2>4, <2>5 DEF Covered
<1>12. RequestInv(r)'
  <2>1. (\A i \in 1..Len(BatchOf(r)) : i < request[r].next => Covered(BatchOf(r)[i], r))'
    <3>1. SUFFICES ASSUME NEW i \in 1..Len(BatchOf(r)), i < request[r].next + 1
                   PROVE  Covered(BatchOf(r)[i], r)'
      BY <1>3, <1>10
    <3>2. CASE i = request[r].next
      BY <1>1, <1>10, <1>11, <3>2 DEF u
    <3>3. CASE i # request[r].next
      <4>1. i < request[r].next
        BY <1>1, <3>1, <3>3
      <4>2. Covered(BatchOf(r)[i], r) /\ BatchOf(r)[i] \in Update
        BY <1>1, <4>1, BatchType DEF RequestInv
      <4>3. QED BY <1>10, <1>11, <4>2
    <3>4. QED BY <3>2, <3>3
  <2>2. (\A j \in 1..Len(request[r].todo) :
          status[request[r].todo[j]] # "absent"
            \/ request[r].todo[j] \in request[r].inserted)'
    <3>1. SUFFICES ASSUME NEW k \in 1..Len(list)
                   PROVE  status[list[k]] # "absent" \/ list[k] \in new
      BY <1>3, <1>8
    <3>2. CASE list[k] = u
      BY <1>7, <3>2
    <3>3. CASE \E j \in 1..Len(request[r].todo) : request[r].todo[j] = list[k]
      BY <1>1, <1>7, <3>3 DEF RequestInv
    <3>4. QED BY <1>6, <3>2, <3>3
  <2>3. QED BY <1>1, <1>3, <2>1, <2>2 DEF RequestInv
<1>13. \A s \in Request \ {r} :
         /\ \A v \in request[s].inserted : status'[v] = "absent"
         /\ request'[r].inserted \cap request[s].inserted = {}
  <2>1. \A s \in Request \ {r} : u \notin request[s].inserted
    BY <1>1 DEF InsertReceipt, WaitsFor, u
  <2>2. QED BY <1>3, <1>7, <1>8, <2>1 DEF ReceiverInv, HoldsKeys, Apart
<1>14. QED BY <1>2, <1>5, <1>8, <1>9, <1>12, <1>13, Quiet, OneRequest

(* The rows r commits were absent, so no mark can be on them yet.          *)
LEMMA CommitInv ==
  ASSUME ReceiverInv, NEW r \in Request, CommitReceipts(r)
  PROVE  ReceiverInv'
<1>1. /\ TypeOK /\ HoldsKeys(r) /\ RequestInv(r)
      /\ request[r] \in RequestState
      /\ request[r].pc = "storing" /\ request[r].next > Len(BatchOf(r))
  BY DEF ReceiverInv, TypeOK, CommitReceipts
<1>2. /\ request'[r] = [request[r] EXCEPT !.pc = "publishing", !.inserted = {}]
      /\ \A s \in Request \ {r} : request'[s] = request[s]
      /\ UNCHANGED <<enqueued, queue, acked>>
  BY <1>1 DEF TypeOK, CommitReceipts
<1>3. /\ request'[r].pc = "publishing" /\ request'[r].delivery = request[r].delivery
      /\ request'[r].inserted = {} /\ request'[r].todo = request[r].todo
  BY <1>1, <1>2 DEF RequestState
<1>4. \A u \in Update : status'[u] = IF u \in request[r].inserted THEN "pending" ELSE status[u]
  BY DEF CommitReceipts
<1>5. TypeOK'
  <2>1. [request[r] EXCEPT !.pc = "publishing", !.inserted = {}] \in RequestState
    BY <1>1 DEF RequestState
  <2>2. QED BY <1>1, <2>1 DEF TypeOK, CommitReceipts
<1>6. Forward
  BY <1>1, <1>2, <1>4 DEF Forward, HoldsKeys
<1>7. QueuedIsStored' /\ MarkedIsNotForgotten' /\ \A u \in enqueued' : status'[u] # "absent"
  <2>1. QueuedIsStored'
    BY <1>2, <1>4 DEF ReceiverInv, QueuedIsStored
  <2>2. enqueued \subseteq Update
    BY <1>1 DEF TypeOK
  <2>3. QED BY <1>1, <1>2, <1>4, <2>1, <2>2
            DEF ReceiverInv, HoldsKeys, MarkedIsNotForgotten
<1>8. HoldsKeys(r)'
  BY <1>3 DEF HoldsKeys
<1>9. BatchOf(r)' = BatchOf(r)
  BY <1>3 DEF BatchOf
<1>10. \A u \in Update : Covered(u, r) => Covered(u, r)'
  BY <1>2, <1>3, <1>4 DEF Covered, Listed
<1>11. RequestInv(r)'
  <2>1. (\A i \in 1..Len(BatchOf(r)) : Covered(BatchOf(r)[i], r))'
    <3>1. SUFFICES ASSUME NEW i \in 1..Len(BatchOf(r)) PROVE Covered(BatchOf(r)[i], r)'
      BY <1>9
    <3>2. BatchOf(r) \in Seq(Update) /\ BatchOf(r)[i] \in Update
      BY <1>1, BatchType
    <3>3. i < request[r].next
      <4>1. Len(BatchOf(r)) \in Nat /\ request[r].next \in Nat
        BY <1>1, <3>2 DEF RequestState
      <4>2. QED BY <1>1, <4>1
    <3>4. Covered(BatchOf(r)[i], r)
      BY <1>1, <3>3 DEF RequestInv
    <3>5. QED BY <1>9, <1>10, <3>2, <3>4
  <2>2. request[r].todo \in Seq(Update)
    BY <1>1 DEF RequestState
  <2>3. (\A j \in 1..Len(request[r].todo) :
          status[request[r].todo[j]] # "absent"
            \/ request[r].todo[j] \in request[r].inserted)'
    BY <1>1, <1>3, <1>4, <2>2 DEF RequestInv
  <2>4. QED BY <1>1, <1>3, <2>1, <2>3 DEF RequestInv
<1>12. \A s \in Request \ {r} :
         /\ \A v \in request[s].inserted : status'[v] = "absent"
         /\ request'[r].inserted \cap request[s].inserted = {}
  <2>1. SUFFICES ASSUME NEW s \in Request \ {r}, NEW v \in request[s].inserted
                 PROVE  status'[v] = "absent"
    BY <1>3
  <2>2. v \in Update
    BY <1>1 DEF TypeOK, RequestState
  <2>3. status[v] = "absent" /\ v \notin request[r].inserted
    BY DEF ReceiverInv, HoldsKeys, Apart
  <2>4. QED BY <1>4, <2>2, <2>3
<1>13. QED BY <1>2, <1>5, <1>6, <1>7, <1>8, <1>11, <1>12, OneRequest

(* The receipt r publishes next has a committed row.                       *)
LEMMA NextIsStored ==
  ASSUME ReceiverInv, NEW r \in Request, request[r].pc \in {"publishing", "marking"},
         request[r].todo # <<>>
  PROVE  /\ Head(request[r].todo) \in Update
         /\ status[Head(request[r].todo)] # "absent"
         /\ request[r].inserted = {}
<1>1. request[r].todo \in Seq(Update) /\ HoldsKeys(r) /\ RequestInv(r)
  BY DEF ReceiverInv, TypeOK, RequestState
<1>2. Head(request[r].todo) = request[r].todo[1] /\ 1 \in 1..Len(request[r].todo)
  BY <1>1
<1>3. request[r].inserted = {}
  BY <1>1 DEF HoldsKeys
<1>4. QED BY <1>1, <1>2, <1>3 DEF RequestInv

(* One more message for a stored receipt.                                  *)
LEMMA MessageSent ==
  ASSUME ReceiverInv, NEW u \in Update, status[u] # "absent",
         queue[u] < MaxCopies, queue' = [queue EXCEPT ![u] = @ + 1],
         UNCHANGED <<status, enqueued>>
  PROVE  /\ Forward
         /\ queue' \in [Update -> 0..MaxCopies] /\ queue'[u] > 0
         /\ QueuedIsStored' /\ MarkedIsNotForgotten'
         /\ \A v \in enqueued' : status'[v] # "absent"
<1>1. queue \in [Update -> 0..MaxCopies] /\ enqueued \subseteq Update
  BY DEF ReceiverInv, TypeOK
<1>2. queue'[u] = queue[u] + 1 /\ \A v \in Update \ {u} : queue'[v] = queue[v]
  BY <1>1
<1>3. queue' \in [Update -> 0..MaxCopies] /\ queue'[u] > 0
  BY <1>1, <1>2, ReceiverAssumption
<1>4. QED BY <1>1, <1>2, <1>3
          DEF ReceiverInv, Forward, QueuedIsStored, MarkedIsNotForgotten

LEMMA EnqueueInv ==
  ASSUME ReceiverInv, NEW r \in Request, Enqueue(r)
  PROVE  ReceiverInv'
<1> DEFINE u == Head(request[r].todo)
<1>1. /\ TypeOK /\ HoldsKeys(r) /\ RequestInv(r)
      /\ request[r] \in RequestState
      /\ request[r].pc = "publishing" /\ request[r].todo # <<>>
  BY DEF ReceiverInv, TypeOK, Enqueue
<1>2. u \in Update /\ status[u] # "absent" /\ request[r].inserted = {}
  BY <1>1, NextIsStored
<1>3. UNCHANGED <<status, enqueued, acked>>
  BY DEF Enqueue
<1>4. /\ Forward
      /\ queue' \in [Update -> 0..MaxCopies] /\ queue'[u] > 0
      /\ QueuedIsStored' /\ MarkedIsNotForgotten'
      /\ \A v \in enqueued' : status'[v] # "absent"
  <2>1. queue[u] < MaxCopies /\ queue' = [queue EXCEPT ![u] = @ + 1]
    BY DEF Enqueue
  <2> HIDE DEF u
  <2>2. QED BY <1>2, <1>3, <2>1, MessageSent
<1>5. /\ request'[r].pc = "marking" /\ request'[r].delivery = request[r].delivery
      /\ request'[r].inserted = {} /\ request'[r].todo = request[r].todo
      /\ \A s \in Request \ {r} : request'[s] = request[s]
  BY <1>1, <1>2 DEF TypeOK, RequestState, Enqueue
<1>6. TypeOK'
  <2>1. [request[r] EXCEPT !.pc = "marking"] \in RequestState
    BY <1>1 DEF RequestState
  <2>2. QED BY <1>1, <1>4, <2>1 DEF TypeOK, Enqueue
<1>7. HoldsKeys(r)'
  BY <1>5 DEF HoldsKeys
<1>8. RequestInv(r)'
  <2>1. BatchOf(r)' = BatchOf(r)
    BY <1>5 DEF BatchOf
  <2>2. (\A i \in 1..Len(BatchOf(r)) : Covered(BatchOf(r)[i], r))'
    BY <1>1, <1>2, <1>3, <1>5, <2>1 DEF RequestInv, Covered, Listed
  <2>3. QED BY <1>1, <1>2, <1>3, <1>4, <1>5, <2>2 DEF RequestInv
<1>9. \A s \in Request \ {r} :
        /\ \A v \in request[s].inserted : status'[v] = "absent"
        /\ request'[r].inserted \cap request[s].inserted = {}
  BY <1>3, <1>5 DEF ReceiverInv, HoldsKeys
<1>10. QED BY <1>3, <1>4, <1>5, <1>6, <1>7, <1>8, <1>9, OneRequest

(* 503: the broker may have taken the message, which does no harm.         *)
LEMMA EnqueueFailsInv ==
  ASSUME ReceiverInv, NEW r \in Request, EnqueueFails(r)
  PROVE  ReceiverInv'
<1> DEFINE u == Head(request[r].todo)
<1>1. /\ TypeOK
      /\ request[r].pc = "publishing" /\ request[r].todo # <<>>
      /\ request' = [request EXCEPT ![r] = Idle]
      /\ UNCHANGED <<status, enqueued, acked>>
      /\ faults' \in 0..MaxFaults
  BY ReceiverAssumption DEF ReceiverInv, TypeOK, EnqueueFails
<1>2. CASE UNCHANGED queue
  BY <1>1, <1>2, QuietReset DEF TypeOK
<1>3. CASE queue[u] < MaxCopies /\ queue' = [queue EXCEPT ![u] = @ + 1]
  <2>1. u \in Update /\ status[u] # "absent"
    BY <1>1, NextIsStored
  <2>2. /\ Forward
        /\ queue' \in [Update -> 0..MaxCopies]
        /\ QueuedIsStored' /\ MarkedIsNotForgotten'
        /\ \A v \in enqueued' : status'[v] # "absent"
    <3> HIDE DEF u
    <3>1. QED BY <1>1, <1>3, <2>1, MessageSent
  <2>3. request'[r] = Idle /\ \A s \in Request \ {r} : request'[s] = request[s]
    BY <1>1 DEF TypeOK
  <2>4. TypeOK'
    <3>1. Idle \in RequestState
      BY DEF RequestState, Idle
    <3>2. QED BY <1>1, <2>2, <3>1 DEF TypeOK
  <2>5. (HoldsKeys(r) /\ RequestInv(r))'
    BY <2>3, Reset
  <2>6. \A s \in Request \ {r} :
          /\ \A v \in request[s].inserted : status'[v] = "absent"
          /\ request'[r].inserted \cap request[s].inserted = {}
    BY <1>1, <2>3 DEF ReceiverInv, HoldsKeys, Idle
  <2>7. QED BY <1>1, <2>2, <2>3, <2>4, <2>5, <2>6, OneRequest
<1>4. QED BY <1>2, <1>3 DEF EnqueueFails

(* What is marked was sent: on the queue still, or handled.                *)
LEMMA MarkInv ==
  ASSUME ReceiverInv, NEW r \in Request, MarkEnqueued(r)
  PROVE  ReceiverInv'
<1> DEFINE u == Head(request[r].todo)
           rest == Tail(request[r].todo)
<1>1. /\ TypeOK /\ HoldsKeys(r) /\ RequestInv(r)
      /\ request[r] \in RequestState
      /\ request[r].pc = "marking" /\ request[r].todo # <<>>
      /\ request[r].todo \in Seq(Update)
  BY DEF ReceiverInv, TypeOK, MarkEnqueued, RequestInv, RequestState
<1>2. /\ u \in Update /\ status[u] # "absent" /\ request[r].inserted = {}
      /\ status[u] = "pending" => queue[u] > 0
  BY <1>1, NextIsStored DEF RequestInv
<1>3. UNCHANGED <<status, queue, acked>> /\ enqueued' = enqueued \cup {u}
  BY DEF MarkEnqueued
<1>4. /\ rest \in Seq(Update)
      /\ \A j \in 1..Len(request[r].todo) :
            request[r].todo[j] = u \/ \E k \in 1..Len(rest) : rest[k] = request[r].todo[j]
      /\ \A k \in 1..Len(rest) : \E j \in 1..Len(request[r].todo) : request[r].todo[j] = rest[k]
  <2>1. /\ rest \in Seq(Update)
        /\ Len(request[r].todo) \in Nat /\ Len(rest) = Len(request[r].todo) - 1
        /\ u = request[r].todo[1]
        /\ \A k \in 1..Len(rest) : rest[k] = request[r].todo[k + 1]
    BY <1>1
  <2>2. SUFFICES ASSUME NEW j \in 1..Len(request[r].todo), j # 1
                 PROVE  \E k \in 1..Len(rest) : rest[k] = request[r].todo[j]
    <3> HIDE DEF rest, u
    <3>1. \A k \in 1..Len(rest) : k + 1 \in 1..Len(request[r].todo)
      BY <2>1
    <3>2. QED BY <2>1, <3>1
  <2> HIDE DEF rest, u
  <2>3. j - 1 \in 1..Len(rest) /\ (j - 1) + 1 = j
    BY <2>1, <2>2
  <2>4. rest[j - 1] = request[r].todo[j]
    BY <2>1, <2>3
  <2>5. QED BY <2>3, <2>4
<1>5. /\ request'[r].pc = "publishing" /\ request'[r].delivery = request[r].delivery
      /\ request'[r].inserted = {} /\ request'[r].todo = rest
      /\ \A s \in Request \ {r} : request'[s] = request[s]
  BY <1>1, <1>2 DEF TypeOK, RequestState, MarkEnqueued
<1>6. TypeOK'
  <2>1. [request[r] EXCEPT !.pc = "publishing", !.todo = rest] \in RequestState
    <3> HIDE DEF rest
    <3>1. QED BY <1>1, <1>4 DEF RequestState
  <2>2. request' = [request EXCEPT ![r] = [request[r] EXCEPT !.pc = "publishing", !.todo = rest]]
    BY DEF MarkEnqueued
  <2> HIDE DEF rest
  <2>3. QED BY <1>1, <1>2, <1>3, <2>1, <2>2 DEF TypeOK, MarkEnqueued
<1> HIDE DEF u, rest
<1>7. HoldsKeys(r)'
  BY <1>5 DEF HoldsKeys
<1>8. RequestInv(r)'
  <2>1. BatchOf(r)' = BatchOf(r)
    BY <1>5 DEF BatchOf
  <2>2. \A v \in Update : Covered(v, r) => Covered(v, r)'
    <3>1. TAKE v \in Update
    <3>2. HAVE Covered(v, r)
    <3>3. v \in enqueued' \/ \E k \in 1..Len(rest) : rest[k] = v
      BY <1>3, <1>4, <3>2 DEF Covered, Listed
    <3>4. Listed(v, r)' <=> \E k \in 1..Len(rest) : rest[k] = v
      BY <1>5 DEF Listed
    <3>5. QED BY <1>2, <1>3, <1>5, <3>2, <3>3, <3>4 DEF Covered
  <2>3. (\A i \in 1..Len(BatchOf(r)) : Covered(BatchOf(r)[i], r))'
    <3>1. \A i \in 1..Len(BatchOf(r)) : Covered(BatchOf(r)[i], r) /\ BatchOf(r)[i] \in Update
      BY <1>1, BatchType DEF RequestInv
    <3>2. QED BY <2>1, <2>2, <3>1
  <2>4. (\A j \in 1..Len(request[r].todo) :
          status[request[r].todo[j]] # "absent"
            \/ request[r].todo[j] \in request[r].inserted)'
    BY <1>1, <1>2, <1>3, <1>4, <1>5 DEF RequestInv
  <2>5. QED BY <1>1, <1>5, <2>3, <2>4 DEF RequestInv
<1>9. \A s \in Request \ {r} :
        /\ \A v \in request[s].inserted : status'[v] = "absent"
        /\ request'[r].inserted \cap request[s].inserted = {}
  BY <1>3, <1>5 DEF ReceiverInv, HoldsKeys
<1>10. Forward /\ QueuedIsStored' /\ MarkedIsNotForgotten'
       /\ \A v \in enqueued' : status'[v] # "absent"
  BY <1>2, <1>3 DEF ReceiverInv, Forward, QueuedIsStored, MarkedIsNotForgotten
<1>11. QED BY <1>3, <1>5, <1>6, <1>7, <1>8, <1>9, <1>10, OneRequest

(* A 200 is sent when nothing is left to publish: all of it is marked.     *)
LEMMA RespondInv ==
  ASSUME ReceiverInv, NEW r \in Request, Respond(r)
  PROVE  ReceiverInv'
<1>1. /\ TypeOK /\ RequestInv(r)
      /\ request[r].pc = "publishing" /\ request[r].todo = <<>>
  BY DEF ReceiverInv, Respond
<1>2. request[r].delivery \in Delivery
  BY <1>1 DEF RequestInv
<1>3. \A i \in 1..Len(BatchOf(r)) : BatchOf(r)[i] \in enqueued
  BY <1>1 DEF RequestInv, Covered, Listed
<1>4. QED BY <1>1, <1>2, <1>3, QuietReset DEF Respond, TypeOK, BatchOf

(* A worker that takes the last message of a receipt handles it.           *)
LEMMA ConsumeInv ==
  ASSUME ReceiverInv, NEW u \in Update, Consume(u)
  PROVE  ReceiverInv'
<1>1. TypeOK
  BY DEF ReceiverInv
<1>2. /\ queue'[u] = queue[u] - 1 /\ \A v \in Update \ {u} : queue'[v] = queue[v]
      /\ status'[u] = (IF status[u] = "pending" THEN "processed" ELSE status[u])
      /\ \A v \in Update \ {u} : status'[v] = status[v]
      /\ queue[u] > 0
      /\ UNCHANGED <<enqueued, request, acked>>
  BY <1>1 DEF TypeOK, Consume
<1>3. TypeOK'
  <2>1. queue[u] \in 0..MaxCopies /\ queue[u] - 1 \in 0..MaxCopies
    BY <1>1, <1>2, ReceiverAssumption DEF TypeOK
  <2>2. QED BY <1>1, <2>1 DEF TypeOK, Consume
<1>4. \A v \in Update : status'[v] = "absent" <=> status[v] = "absent"
  BY <1>2
<1>5. Forward
  BY <1>2, <1>4 DEF Forward
<1>6. QueuedIsStored'
  BY <1>2, <1>4 DEF ReceiverInv, QueuedIsStored
<1>7. MarkedIsNotForgotten' /\ \A v \in enqueued' : status'[v] # "absent"
  BY <1>1, <1>2, <1>4 DEF ReceiverInv, MarkedIsNotForgotten, TypeOK
<1>8. AckedIsPublished'
  BY <1>1, <1>2, <1>4 DEF ReceiverInv, AckedIsPublished, TypeOK
<1>9. \A s \in Request : (HoldsKeys(s) /\ RequestInv(s))'
  <2>1. \A s \in Request : \A v \in request[s].inserted : status'[v] = "absent"
    BY <1>1, <1>4 DEF ReceiverInv, HoldsKeys, TypeOK, RequestState
  <2>2. QED BY <1>2, <1>5, <2>1, Frame
<1>10. (\A s, t \in Request : s # t => Apart(s, t))'
  BY <1>2 DEF ReceiverInv, Apart
<1>11. QED BY <1>3, <1>6, <1>7, <1>8, <1>9, <1>10 DEF ReceiverInv

LEMMA StepInv == ReceiverInv /\ [Next]_vars => ReceiverInv'
<1> SUFFICES ASSUME ReceiverInv, [Next]_vars PROVE ReceiverInv'
  OBVIOUS
<1>1. ASSUME NEW r \in Request, NEW d \in Delivery, Post(r, d) PROVE ReceiverInv'
  BY <1>1, PostInv
<1>2. ASSUME NEW r \in Request, Refuse(r) \/ AbortDeadlock(r) \/ Die(r) PROVE ReceiverInv'
  <2>1. /\ request' = [request EXCEPT ![r] = Idle]
        /\ UNCHANGED <<status, enqueued, queue, acked>>
        /\ acked \subseteq Delivery /\ faults' \in 0..MaxFaults
    BY <1>2, ReceiverAssumption DEF Refuse, AbortDeadlock, Die, ReceiverInv, TypeOK
  <2>2. QED BY <2>1, QuietReset
<1>3. ASSUME NEW r \in Request, Admit(r) PROVE ReceiverInv'
  BY <1>3, AdmitInv
<1>4. ASSUME NEW r \in Request, InsertReceipt(r) PROVE ReceiverInv'
  BY <1>4, InsertInv
<1>5. ASSUME NEW r \in Request, CommitReceipts(r) PROVE ReceiverInv'
  BY <1>5, CommitInv
<1>6. ASSUME NEW r \in Request, Enqueue(r) PROVE ReceiverInv'
  BY <1>6, EnqueueInv
<1>7. ASSUME NEW r \in Request, EnqueueFails(r) PROVE ReceiverInv'
  BY <1>7, EnqueueFailsInv
<1>8. ASSUME NEW r \in Request, MarkEnqueued(r) PROVE ReceiverInv'
  BY <1>8, MarkInv
<1>9. ASSUME NEW r \in Request, Respond(r) PROVE ReceiverInv'
  BY <1>9, RespondInv
<1>10. ASSUME NEW u \in Update, Consume(u) PROVE ReceiverInv'
  BY <1>10, ConsumeInv
<1>11. CASE UNCHANGED vars
  BY <1>11
     DEF vars, ReceiverInv, TypeOK, QueuedIsStored, AckedIsPublished, MarkedIsNotForgotten,
         HoldsKeys, RequestInv, Apart, BatchOf, Covered, Listed
<1>12. QED
  BY <1>1, <1>2, <1>3, <1>4, <1>5, <1>6, <1>7, <1>8, <1>9, <1>10, <1>11
     DEF Next, RequestStep, Serve

THEOREM InvariantHolds == Spec => []ReceiverInv
BY InitInv, StepInv, PTL DEF Spec

-----------------------------------------------------------------------------
(* The state of the receiver has its type for any number of requests.      *)
THEOREM TypeCorrect == Spec => []TypeOK
<1>1. ReceiverInv => TypeOK BY DEF ReceiverInv
<1>2. QED BY <1>1, InvariantHolds, PTL

(* A worker that takes a message always finds the row it names, whatever   *)
(* requests race to store and publish it ("commit all receipts before one  *)
(* is submitted").                                                         *)
THEOREM QueuedAlwaysStored == Spec => []QueuedIsStored
<1>1. ReceiverInv => QueuedIsStored BY DEF ReceiverInv
<1>2. QED BY <1>1, InvariantHolds, PTL

(* Whatever dies or fails, a 200 means that every update of the delivery   *)
(* has a row and that the row is marked as handed to the broker.           *)
THEOREM AckedAlwaysPublished == Spec => []AckedIsPublished
<1>1. ReceiverInv => AckedIsPublished BY DEF ReceiverInv
<1>2. QED BY <1>1, InvariantHolds, PTL

(* The mark that stops every later publication is never on a pending row   *)
(* without a message.                                                      *)
THEOREM MarkedNeverForgotten == Spec => []MarkedIsNotForgotten
<1>1. ReceiverInv => MarkedIsNotForgotten BY DEF ReceiverInv
<1>2. QED BY <1>1, InvariantHolds, PTL

=============================================================================
