----------------------------- MODULE InboxProofs -----------------------------
(***************************************************************************)
(* Workers and agents over one conversation, for any number of workers,    *)
(* agents, events, threads and calls.                                      *)
(*                                                                         *)
(* Everything rests on the row lock.  From its decision to its commit a    *)
(* worker holds the lock of every thread it has something unflushed for    *)
(* (Unflushed), so what it decided on is what is there when it commits.    *)
(* The claim is the other half: an event that is being processed belongs   *)
(* to one worker at most (Owned, Apart), so the replies counted for it are *)
(* that worker's own.                                                      *)
(***************************************************************************)
EXTENDS Inbox, TLAPS

Claimed == {"claimed", "storing", "locking", "deciding", "sending", "failing"}

HandsOff(row) == row.handoff \in {"pending_human", "human"}
Handed(row) == HandsOff(row) \/ row.mute # "none"

(* What w has not flushed for t is about a row nobody else can write. *)
Unflushed(w, t) ==
  /\ worker[w].pending[t].escalate => lock[t] = w /\ ~HandsOff(conv[t])
  /\ worker[w].pending[t].said > 0 => lock[t] = w
  /\ botRun[t] + worker[w].pending[t].said < MaxBotTurns

(* The message before the one w has come to was answered, or w still holds *)
(* its thread, which people will find in front of them after the commit.   *)
LastSettled(w) ==
  LET t == Envelopes[EventOf(w)][worker[w].next - 1] IN
  \/ replies[EventOf(w)] > 0
  \/ lock[t] = w /\ (worker[w].pending[t].escalate \/ Handed(conv[t]))

(* The thread at hand is locked, the bot may speak in it. *)
Speaking(w) ==
  /\ lock[ThreadOf(w)] = w
  /\ ~BotMustStayQuiet(ThreadOf(w))
  /\ worker[w].pc = "sending" => Turns(ThreadOf(w)) < MaxBotTurns

(* The event w has claimed. *)
Owned(w) ==
  /\ status[EventOf(w)] = "processing"
  /\ worker[w].pc # "failing" => replies[EventOf(w)] < worker[w].next

WorkerInv(w) ==
  /\ worker[w].pc # "idle" => EventOf(w) \in Event
  /\ worker[w].pc \notin {"storing", "failing"} => worker[w].pending = NothingPending
  /\ worker[w].pc \in {"idle", "taken", "claimed"} => worker[w].next = 1
  /\ worker[w].pc \in {"locking", "deciding", "sending"} => ~AllDone(w)
  /\ worker[w].pc = "storing" => worker[w].next <= Len(Envelopes[EventOf(w)]) + 1
  /\ worker[w].pc \in {"deciding", "sending"} => Speaking(w)
  /\ worker[w].pc \in Claimed => Owned(w)
  /\ worker[w].pc = "storing" /\ worker[w].next > 1 => LastSettled(w)
  /\ \A t \in Thread : Unflushed(w, t)

Apart(v, w) ==
  worker[v].pc \in Claimed /\ worker[w].pc \in Claimed => EventOf(v) # EventOf(w)

(* Nothing is said for an event before it is claimed. *)
Unsaid(e) == status[e] \in {"absent", "pending"} => replies[e] = 0

PipelineInv ==
  /\ TypeOK
  /\ BotRunBelowLimit
  /\ \A e \in Event : Unsaid(e)
  /\ \A w \in Worker : WorkerInv(w)
  /\ \A v, w \in Worker : v # w => Apart(v, w)

-----------------------------------------------------------------------------
(* The message at hand. *)
LEMMA AtHand ==
  ASSUME PipelineInv, NEW w \in Worker, worker[w].pc # "idle"
  PROVE  /\ EventOf(w) \in Event
         /\ Envelopes[EventOf(w)] \in Seq(Thread)
         /\ Len(Envelopes[EventOf(w)]) \in Nat
         /\ worker[w].next \in Nat \ {0}
         /\ ~AllDone(w) => ThreadOf(w) \in Thread
<1>1. EventOf(w) \in Event /\ worker[w] \in WorkerState
  BY DEF PipelineInv, WorkerInv, TypeOK
<1>2. Envelopes[EventOf(w)] \in Seq(Thread) /\ worker[w].next \in Nat \ {0}
  BY <1>1, PipelineAssumption DEF WorkerState
<1>3. QED
  BY <1>1, <1>2 DEF AllDone, ThreadOf

(* The row a while later, untouched. *)
Later(row, new) ==
  /\ new.handoff = row.handoff
  /\ new.mute = row.mute \/ (row.mute = "active" /\ new.mute = "expired")

(* A worker the step does not take keeps what it knows, if the step stays  *)
(* off the threads it has locked, its event and its replies.               *)
LEMMA Bystander ==
  ASSUME PipelineInv, NEW v \in Worker, worker'[v] = worker[v],
         \A t \in Thread :
            lock[t] = v => /\ lock'[t] = v
                           /\ Later(conv[t], conv'[t])
                           /\ botRun'[t] = botRun[t],
         BotRunBelowLimit',
         \A t \in Thread : botRun'[t] \in Nat,
         worker[v].pc \in Claimed =>
            status'[EventOf(v)] = "processing" /\ replies'[EventOf(v)] = replies[EventOf(v)]
  PROVE  WorkerInv(v)'
<1>1. /\ WorkerInv(v) /\ TypeOK /\ worker[v] \in WorkerState
      /\ EventOf(v)' = EventOf(v) /\ ThreadOf(v)' = ThreadOf(v) /\ AllDone(v)' = AllDone(v)
  BY DEF PipelineInv, TypeOK, EventOf, ThreadOf, AllDone
<1>2. worker[v].pc \in Claimed => Owned(v)'
  BY <1>1 DEF WorkerInv, Owned
<1>3. worker[v].pc \in {"deciding", "sending"} => Speaking(v)'
  <2>1. SUFFICES ASSUME worker[v].pc \in {"deciding", "sending"} PROVE Speaking(v)'
    OBVIOUS
  <2>2. ThreadOf(v) \in Thread /\ Speaking(v)
    BY <1>1, <2>1, AtHand DEF WorkerInv
  <2>3. QED
    BY <1>1, <2>2 DEF Speaking, BotMustStayQuiet, Turns, Later
<1>4. worker[v].pc = "storing" /\ worker[v].next > 1 => LastSettled(v)'
  <2>1. SUFFICES ASSUME worker[v].pc = "storing", worker[v].next > 1 PROVE LastSettled(v)'
    OBVIOUS
  <2>2. Envelopes[EventOf(v)][worker[v].next - 1] \in Thread
    BY <1>1, <2>1, AtHand DEF WorkerInv
  <2>3. LastSettled(v) /\ replies'[EventOf(v)] = replies[EventOf(v)]
    BY <1>1, <2>1 DEF WorkerInv, Claimed
  <2>4. QED
    BY <1>1, <2>2, <2>3 DEF LastSettled, Handed, HandsOff, Later
<1>5. \A t \in Thread : Unflushed(v, t)'
  <2>1. TAKE t \in Thread
  <2>2. Unflushed(v, t) /\ worker[v].pending[t].said \in Nat /\ botRun'[t] < MaxBotTurns
    BY <1>1 DEF WorkerInv, WorkerState, BotRunBelowLimit
  <2>3. CASE lock[t] = v
    BY <2>2, <2>3 DEF Unflushed, HandsOff, Later
  <2>4. CASE lock[t] # v
    <3>1. worker[v].pending[t].said = 0 /\ ~worker[v].pending[t].escalate
      BY <2>2, <2>4 DEF Unflushed
    <3>2. QED
      BY <2>2, <3>1 DEF Unflushed
  <2>5. QED
    BY <2>3, <2>4
<1>6. QED
  BY <1>1, <1>2, <1>3, <1>4, <1>5 DEF WorkerInv

-----------------------------------------------------------------------------
(* One worker's step, put together from what it does to that worker and    *)
(* what others can see of it.                                              *)
LEMMA OneWorker ==
  ASSUME PipelineInv, NEW w \in Worker, TypeOK', BotRunBelowLimit', WorkerInv(w)',
         \A v \in Worker \ {w} : worker'[v] = worker[v],
         \A t \in Thread : lock[t] \notin {w, Nobody} =>
            /\ lock'[t] = lock[t]
            /\ conv'[t] = conv[t]
            /\ botRun'[t] = botRun[t],
         \A e \in Event :
            \/ status'[e] = status[e] /\ replies'[e] = replies[e]
            \/ status[e] = "pending" /\ status'[e] = "processing" /\ replies'[e] = replies[e]
            \/ e = EventOf(w) /\ worker[w].pc \in Claimed
               /\ status'[e] \in {"processing", "processed", "failed"},
         worker'[w].pc \in Claimed =>
            \/ worker[w].pc \in Claimed /\ worker'[w].event = EventOf(w)
            \/ status[worker'[w].event] = "pending"
  PROVE  PipelineInv'
<1>1. \A v \in Worker \ {w} : WorkerInv(v)'
  <2>1. TAKE v \in Worker \ {w}
  <2>2. worker[v].pc \in Claimed =>
           status'[EventOf(v)] = "processing" /\ replies'[EventOf(v)] = replies[EventOf(v)]
    <3>1. SUFFICES ASSUME worker[v].pc \in Claimed
                   PROVE  /\ status'[EventOf(v)] = "processing"
                          /\ replies'[EventOf(v)] = replies[EventOf(v)]
      OBVIOUS
    <3>2. EventOf(v) \in Event /\ status[EventOf(v)] = "processing"
      BY <3>1 DEF PipelineInv, WorkerInv, Owned, Claimed
    <3>3. ~(EventOf(v) = EventOf(w) /\ worker[w].pc \in Claimed)
      BY <3>1 DEF PipelineInv, Apart
    <3>4. QED
      BY <3>2, <3>3
  <2>3. v # Nobody
    BY PipelineAssumption
  <2>4. \A t \in Thread : botRun'[t] \in Nat
    BY DEF TypeOK
  <2>5. \A t \in Thread :
           lock[t] = v => /\ lock'[t] = v
                          /\ Later(conv[t], conv'[t])
                          /\ botRun'[t] = botRun[t]
    BY <2>3 DEF Later
  <2>6. v \in Worker /\ worker'[v] = worker[v]
    OBVIOUS
  <2>7. QED
    BY <2>2, <2>4, <2>5, <2>6, Bystander
<1>2. \A v \in Worker \ {w} : Apart(v, w)' /\ Apart(w, v)'
  <2>1. TAKE v \in Worker \ {w}
  <2>2. worker[v].pc \in Claimed => status[EventOf(v)] = "processing"
    BY DEF PipelineInv, WorkerInv, Owned
  <2>3. Apart(v, w)
    BY DEF PipelineInv
  <2>4. QED
    BY <2>2, <2>3 DEF Apart, EventOf
<1>3. \A u, v \in Worker : u # v => Apart(u, v)'
  <2>1. \A u, v \in Worker \ {w} : u # v => Apart(u, v)'
    BY DEF PipelineInv, Apart, EventOf
  <2>2. QED
    BY <1>2, <2>1
<1>4. \A e \in Event : Unsaid(e)'
  <2>1. TAKE e \in Event
  <2>2. Unsaid(e)
    BY DEF PipelineInv
  <2>3. QED
    BY <2>2 DEF Unsaid
<1>5. QED
  BY <1>1, <1>3, <1>4 DEF PipelineInv

(* A worker with nothing begun knows nothing. *)
LEMMA Fresh ==
  ASSUME NEW w \in Worker, TypeOK', BotRunBelowLimit',
         worker'[w].pc \in {"idle", "taken"},
         worker'[w].pc = "taken" => worker'[w].event \in Event,
         worker'[w].pending = NothingPending, worker'[w].next = 1
  PROVE  WorkerInv(w)'
<1>1. \A t \in Thread : Unflushed(w, t)'
  BY DEF Unflushed, NothingPending, TypeOK, BotRunBelowLimit
<1>2. QED
  BY <1>1 DEF WorkerInv, Claimed, EventOf

LEMMA UnlockedFrame ==
  ASSUME PipelineInv, NEW w \in Worker
  PROVE  /\ Unlocked(w) \in [Thread -> Worker \cup {Nobody}]
         /\ \A t \in Thread : lock[t] # w => Unlocked(w)[t] = lock[t]
BY DEF Unlocked, PipelineInv, TypeOK

(* The workers' first state, whatever the receiver has done so far. *)
LEMMA FirstState ==
  ASSUME WorkersInit, status \in [Event -> {"absent", "pending"}],
         queue \in [Event -> 0..MaxCopies]
  PROVE  PipelineInv
<1>1. TypeOK
  BY PipelineAssumption
     DEF WorkersInit, TypeOK, ConversationRow, Handoff, NewConversation,
         IdleWorker, WorkerState, NothingPending
<1>2. BotRunBelowLimit
  BY PipelineAssumption DEF WorkersInit, BotRunBelowLimit
<1>3. \A w \in Worker : WorkerInv(w)
  <2>1. TAKE w \in Worker
  <2>2. worker[w] = IdleWorker
    BY DEF WorkersInit
  <2>3. \A t \in Thread : Unflushed(w, t)
    BY <2>2, PipelineAssumption DEF WorkersInit, Unflushed, IdleWorker, NothingPending
  <2>4. QED
    BY <2>2, <2>3 DEF WorkerInv, IdleWorker, Claimed
<1>4. QED
  BY <1>1, <1>2, <1>3 DEF PipelineInv, WorkersInit, Unsaid, Apart, IdleWorker, Claimed

LEMMA InitPipeline == Init => PipelineInv
BY FirstState, PipelineAssumption DEF Init

-----------------------------------------------------------------------------
LEMMA TakeInv ==
  ASSUME PipelineInv, NEW w \in Worker, NEW e \in Event, Take(w, e)
  PROVE  PipelineInv'
<1>1. /\ TypeOK /\ worker[w] \in WorkerState
      /\ worker[w].pending = NothingPending /\ worker[w].next = 1
  BY DEF PipelineInv, TypeOK, WorkerInv, Take
<1>2. TypeOK'
  <2>1. worker'[w] \in WorkerState
    BY <1>1 DEF Take, TypeOK, WorkerState
  <2>2. worker' \in [Worker -> WorkerState]
    BY <1>1, <2>1 DEF Take, TypeOK
  <2>3. queue' \in [Event -> 0..MaxCopies]
    BY <1>1, PipelineAssumption DEF Take, TypeOK
  <2>4. QED
    BY <1>1, <2>2, <2>3 DEF Take, TypeOK
<1>3. BotRunBelowLimit'
  BY DEF PipelineInv, Take, BotRunBelowLimit
<1>4. WorkerInv(w)'
  <2>1. /\ worker'[w].pc = "taken" /\ worker'[w].event = e
        /\ worker'[w].pending = NothingPending /\ worker'[w].next = 1
    BY <1>1 DEF Take, TypeOK, WorkerState
  <2>2. QED
    BY <1>2, <1>3, <2>1, Fresh
<1>5. QED
  BY <1>1, <1>2, <1>3, <1>4, OneWorker DEF Take, TypeOK, WorkerState, Claimed

LEMMA ClaimInv ==
  ASSUME PipelineInv, NEW w \in Worker, Claim(w)
  PROVE  PipelineInv'
<1>1. /\ TypeOK /\ WorkerInv(w) /\ worker[w] \in WorkerState
      /\ worker[w].pending = NothingPending /\ EventOf(w) \in Event /\ worker[w].next = 1
      /\ worker' = [worker EXCEPT ![w].pc = "claimed"]
  BY DEF PipelineInv, TypeOK, WorkerInv, Claim, GoTo
<1>2. TypeOK'
  BY <1>1 DEF Claim, TypeOK, WorkerState
<1>3. BotRunBelowLimit'
  BY DEF PipelineInv, Claim, BotRunBelowLimit
<1>4. WorkerInv(w)'
  <2>1. /\ worker'[w].pc = "claimed" /\ worker'[w].pending = NothingPending
        /\ worker'[w].event = EventOf(w) /\ worker'[w].next = 1
    BY <1>1 DEF TypeOK, WorkerState, EventOf
  <2>2. \A t \in Thread : Unflushed(w, t)'
    BY <1>2, <1>3, <2>1 DEF Unflushed, NothingPending, TypeOK, BotRunBelowLimit
  <2>3. Owned(w)'
    BY <1>1, <2>1 DEF Owned, Claim, TypeOK, EventOf, PipelineInv, Unsaid
  <2>4. QED
    BY <1>1, <2>1, <2>2, <2>3 DEF WorkerInv, EventOf
<1>5. QED
  BY <1>1, <1>2, <1>3, <1>4, OneWorker DEF Claim, TypeOK, WorkerState, Claimed, EventOf

LEMMA SkipInv ==
  ASSUME PipelineInv, NEW w \in Worker, Skip(w)
  PROVE  PipelineInv'
<1>1. TypeOK /\ worker' = [worker EXCEPT ![w] = IdleWorker]
  BY DEF PipelineInv, Skip, Finish
<1>2. TypeOK'
  BY <1>1, PipelineAssumption DEF Skip, TypeOK, WorkerState, IdleWorker, NothingPending
<1>3. BotRunBelowLimit'
  BY DEF PipelineInv, Skip, BotRunBelowLimit
<1>4. WorkerInv(w)'
  BY <1>1, <1>2, <1>3, Fresh DEF IdleWorker, TypeOK
<1>5. QED
  BY <1>1, <1>2, <1>3, <1>4, OneWorker DEF Skip, TypeOK, Claimed, IdleWorker

LEMMA ResolveInv ==
  ASSUME PipelineInv, NEW w \in Worker, Resolve(w)
  PROVE  PipelineInv'
<1>1. /\ TypeOK /\ WorkerInv(w) /\ worker[w] \in WorkerState /\ worker[w].pc = "claimed"
      /\ worker[w].pending = NothingPending /\ EventOf(w) \in Event
      /\ worker[w].next = 1 /\ Len(Envelopes[EventOf(w)]) \in Nat
  BY AtHand DEF PipelineInv, TypeOK, WorkerInv, Resolve
<1>2. PICK pc \in {"failing", "storing"} : worker' = [worker EXCEPT ![w].pc = pc]
  BY DEF Resolve, GoTo
<1>3. TypeOK'
  BY <1>1, <1>2 DEF Resolve, TypeOK, WorkerState
<1>4. BotRunBelowLimit'
  BY DEF PipelineInv, Resolve, BotRunBelowLimit
<1>5. WorkerInv(w)'
  <2>1. /\ worker'[w].pc = pc /\ worker'[w].pending = NothingPending
        /\ EventOf(w)' = EventOf(w) /\ worker'[w].next = worker[w].next
    BY <1>1, <1>2 DEF TypeOK, WorkerState, EventOf
  <2>2. \A t \in Thread : Unflushed(w, t)'
    BY <1>3, <1>4, <2>1 DEF Unflushed, NothingPending, TypeOK, BotRunBelowLimit
  <2>3. Owned(w)'
    BY <1>1, <2>1 DEF WorkerInv, Owned, Resolve, Claimed
  <2>4. QED
    BY <1>1, <2>1, <2>2, <2>3 DEF WorkerInv
<1>6. QED
  BY <1>1, <1>2, <1>3, <1>4, <1>5, OneWorker
     DEF Resolve, TypeOK, WorkerState, Claimed, EventOf

-----------------------------------------------------------------------------
(* What a flush writes: nothing to a row someone else has locked. *)
LEMMA FlushFrame ==
  ASSUME PipelineInv, NEW w \in Worker, NEW t \in Thread
  PROVE  /\ Flushed(w, t) \in ConversationRow
         /\ botRun[t] + worker[w].pending[t].said \in Nat
         /\ botRun[t] + worker[w].pending[t].said < MaxBotTurns
         /\ lock[t] # w => /\ Flushed(w, t) = conv[t]
                           /\ botRun[t] + worker[w].pending[t].said = botRun[t]
<1>1. /\ TypeOK /\ Unflushed(w, t) /\ conv[t] \in ConversationRow /\ botRun[t] \in Nat
      /\ worker[w].pending[t] \in [escalate : BOOLEAN, said : Nat]
  BY DEF PipelineInv, WorkerInv, TypeOK, WorkerState
<1>2. Flushed(w, t) \in ConversationRow
  BY <1>1 DEF Flushed, ConversationRow, Handoff
<1>3. lock[t] # w => worker[w].pending[t].said = 0 /\ ~worker[w].pending[t].escalate
  BY <1>1 DEF Unflushed
<1>4. QED
  BY <1>1, <1>2, <1>3 DEF Unflushed, Flushed

LEMMA StoreInboundInv ==
  ASSUME PipelineInv, NEW w \in Worker, StoreInbound(w)
  PROVE  PipelineInv'
<1> DEFINE t == ThreadOf(w)
<1>1. /\ TypeOK /\ WorkerInv(w) /\ worker[w] \in WorkerState
      /\ worker[w].pc = "storing" /\ ~AllDone(w) /\ lock[t] \in {Nobody, w}
      /\ EventOf(w) \in Event /\ t \in Thread /\ worker[w].next \in Nat \ {0}
  BY AtHand DEF PipelineInv, TypeOK, WorkerInv, StoreInbound
<1>2. worker' = [worker EXCEPT ![w] = [worker[w] EXCEPT !.pc = "locking",
                                                        !.pending = NothingPending]]
  BY <1>1 DEF StoreInbound, TypeOK, WorkerState
<1>3. /\ worker'[w].pc = "locking" /\ worker'[w].pending = NothingPending
      /\ worker'[w].event = EventOf(w) /\ worker'[w].next = worker[w].next
      /\ worker'[w] \in WorkerState
  BY <1>1, <1>2 DEF TypeOK, WorkerState, EventOf, NothingPending
<1>4. conv' \in [Thread -> ConversationRow]
  <2> DEFINE reopened == IF conv[t].handoff = "resolved"
                           THEN [conv[t] EXCEPT !.handoff = "bot"] ELSE conv[t]
  <2>1. conv' = [s \in Thread |-> IF s = t THEN reopened ELSE Flushed(w, s)]
    BY DEF StoreInbound
  <2>2. reopened \in ConversationRow
    BY <1>1 DEF TypeOK, ConversationRow, Handoff
  <2>3. QED
    BY <2>1, <2>2, FlushFrame
<1>5. /\ botRun' \in [Thread -> Nat]
      /\ BotRunBelowLimit'
  BY FlushFrame DEF StoreInbound, BotRunBelowLimit
<1>6. TypeOK'
  <2>1. worker' \in [Worker -> WorkerState]
    BY <1>1, <1>2, <1>3 DEF TypeOK
  <2>2. lock' \in [Thread -> Worker \cup {Nobody}]
    BY UnlockedFrame DEF StoreInbound
  <2>3. stored' \subseteq Event \X (Nat \ {0})
    BY <1>1 DEF TypeOK, StoreInbound
  <2>4. QED
    BY <1>1, <1>4, <1>5, <2>1, <2>2, <2>3 DEF TypeOK, StoreInbound
<1>7. WorkerInv(w)'
  <2>1. \A s \in Thread : Unflushed(w, s)'
    BY <1>3, <1>5 DEF Unflushed, NothingPending, BotRunBelowLimit
  <2>2. Owned(w)'
    BY <1>1, <1>3 DEF WorkerInv, Owned, StoreInbound, EventOf, Claimed
  <2>3. ~AllDone(w)'
    BY <1>1, <1>3 DEF AllDone, EventOf
  <2>4. QED
    BY <1>1, <1>3, <2>1, <2>2, <2>3 DEF WorkerInv, EventOf
<1>8. \A s \in Thread : lock[s] \notin {w, Nobody} =>
         lock'[s] = lock[s] /\ conv'[s] = conv[s] /\ botRun'[s] = botRun[s]
  <2>1. SUFFICES ASSUME NEW s \in Thread, lock[s] \notin {w, Nobody}
                 PROVE  lock'[s] = lock[s] /\ conv'[s] = conv[s] /\ botRun'[s] = botRun[s]
    OBVIOUS
  <2>2. s # t
    BY <1>1, <2>1
  <2>3. Flushed(w, s) = conv[s] /\ botRun[s] + worker[w].pending[s].said = botRun[s]
    BY <2>1, FlushFrame
  <2>4. QED
    BY <2>1, <2>2, <2>3, UnlockedFrame DEF StoreInbound
<1>9. /\ \A v \in Worker \ {w} : worker'[v] = worker[v]
      /\ UNCHANGED <<status, replies>>
      /\ worker[w].pc \in Claimed
  BY <1>1, <1>2 DEF TypeOK, StoreInbound, Claimed
<1>10. QED
  BY <1>3, <1>5, <1>6, <1>7, <1>8, <1>9, OneWorker

(* The worker goes on to the event's next message. *)
LEMMA Onward ==
  ASSUME PipelineInv, NEW w \in Worker, worker[w].pc \in {"locking", "deciding", "sending"},
         NEW state \in WorkerState,
         state.event = EventOf(w), state.next = worker[w].next,
         NextEnvelope(w, state)
  PROVE  /\ worker' \in [Worker -> WorkerState]
         /\ \A v \in Worker \ {w} : worker'[v] = worker[v]
         /\ worker'[w].pc = "storing" /\ worker'[w].pending = state.pending
         /\ worker'[w].event = EventOf(w) /\ worker'[w].next = worker[w].next + 1
         /\ worker'[w].next <= Len(Envelopes[EventOf(w)]) + 1
         /\ Envelopes[EventOf(w)][worker'[w].next - 1] = ThreadOf(w)
<1>1. /\ worker \in [Worker -> WorkerState] /\ ~AllDone(w)
      /\ worker[w].next \in Nat \ {0} /\ Len(Envelopes[EventOf(w)]) \in Nat
  BY AtHand DEF PipelineInv, TypeOK, WorkerInv
<1> DEFINE next == worker[w].next + 1
<1>2. next \in Nat \ {0} /\ next - 1 = worker[w].next
  BY <1>1
<1>3. worker' = [worker EXCEPT ![w] = [state EXCEPT !.pc = "storing", !.next = next]]
  BY DEF NextEnvelope
<1>4. /\ worker'[w] = [state EXCEPT !.pc = "storing", !.next = next]
      /\ \A v \in Worker \ {w} : worker'[v] = worker[v]
      /\ DOMAIN worker' = Worker
  BY <1>1, <1>3
<1> HIDE DEF next
<1>5. /\ worker'[w].pc = "storing" /\ worker'[w].pending = state.pending
      /\ worker'[w].event = EventOf(w) /\ worker'[w].next = next
      /\ worker'[w] \in WorkerState
  BY <1>2, <1>4 DEF WorkerState
<1>6. worker' \in [Worker -> WorkerState]
  BY <1>1, <1>3, <1>5
<1>7. next <= Len(Envelopes[EventOf(w)]) + 1
  BY <1>1, <1>2 DEF AllDone, next
<1>8. QED
  BY <1>2, <1>4, <1>5, <1>6, <1>7 DEF ThreadOf, next

LEMMA LockConversationInv ==
  ASSUME PipelineInv, NEW w \in Worker, LockConversation(w)
  PROVE  PipelineInv'
<1> DEFINE t == ThreadOf(w)
<1>1. /\ TypeOK /\ WorkerInv(w) /\ worker[w] \in WorkerState
      /\ worker[w].pc = "locking" /\ worker[w].pending = NothingPending
      /\ ~AllDone(w) /\ lock[t] = Nobody
      /\ EventOf(w) \in Event /\ t \in Thread /\ worker[w].next \in Nat \ {0}
      /\ Len(Envelopes[EventOf(w)]) \in Nat /\ lock' = [lock EXCEPT ![t] = w]
  BY AtHand DEF PipelineInv, TypeOK, WorkerInv, LockConversation
<1>2. BotRunBelowLimit' /\ BotRunBelowLimit
  BY DEF PipelineInv, BotRunBelowLimit, LockConversation
<1>3. lock' \in [Thread -> Worker \cup {Nobody}] /\ lock'[t] = w
  BY <1>1 DEF TypeOK
<1>4. CASE BotMustStayQuiet(t)
  <2>1. NextEnvelope(w, worker[w])
    BY <1>1, <1>4 DEF LockConversation
  <2>2. /\ worker' \in [Worker -> WorkerState]
        /\ \A v \in Worker \ {w} : worker'[v] = worker[v]
        /\ worker'[w].pc = "storing" /\ worker'[w].pending = NothingPending
        /\ worker'[w].event = EventOf(w) /\ worker'[w].next = worker[w].next + 1
        /\ worker'[w].next <= Len(Envelopes[EventOf(w)]) + 1
        /\ Envelopes[EventOf(w)][worker'[w].next - 1] = t
    BY <1>1, <2>1, Onward DEF EventOf
  <2>3. TypeOK'
    BY <1>1, <1>3, <2>2 DEF TypeOK, LockConversation
  <2>4. WorkerInv(w)'
    <3>1. \A s \in Thread : Unflushed(w, s)'
      BY <1>2, <2>2, <2>3 DEF Unflushed, NothingPending, BotRunBelowLimit, TypeOK
    <3>2. Owned(w)'
      BY <1>1, <2>2 DEF WorkerInv, Owned, LockConversation, EventOf, Claimed, TypeOK
    <3>3. LastSettled(w)'
      <4>1. Handed(conv[t])
        BY <1>4 DEF Handed, HandsOff, BotMustStayQuiet
      <4>2. QED
        BY <1>3, <2>2, <4>1 DEF LastSettled, EventOf, LockConversation
    <3>4. QED
      BY <1>1, <2>2, <3>1, <3>2, <3>3 DEF WorkerInv, EventOf
  <2>5. UNCHANGED <<status, replies, conv, botRun>> /\ worker[w].pc \in Claimed
    BY <1>1 DEF LockConversation, Claimed
  <2>6. QED
    BY <1>1, <1>2, <2>2, <2>3, <2>4, <2>5, OneWorker DEF TypeOK
<1>5. CASE ~BotMustStayQuiet(t)
  <2>1. worker' = [worker EXCEPT ![w] = [worker[w] EXCEPT !.pc = "deciding"]]
    BY <1>1, <1>5 DEF LockConversation, GoTo
  <2>2. /\ worker'[w].pc = "deciding" /\ worker'[w].pending = NothingPending
        /\ worker'[w].event = EventOf(w) /\ worker'[w].next = worker[w].next
        /\ worker'[w] \in WorkerState
    BY <1>1, <2>1 DEF TypeOK, WorkerState, EventOf
  <2>3. TypeOK'
    <3>1. worker' \in [Worker -> WorkerState]
      BY <1>1, <2>1, <2>2 DEF TypeOK
    <3>2. QED
      BY <1>1, <1>3, <3>1 DEF TypeOK, LockConversation
  <2>4. WorkerInv(w)'
    <3>1. \A s \in Thread : Unflushed(w, s)'
      BY <1>2, <2>2, <2>3 DEF Unflushed, NothingPending, BotRunBelowLimit, TypeOK
    <3>2. Owned(w)'
      BY <1>1, <2>2 DEF WorkerInv, Owned, LockConversation, EventOf, Claimed, TypeOK
    <3>3. Speaking(w)' /\ ~AllDone(w)'
      BY <1>1, <1>3, <1>5, <2>2
         DEF Speaking, EventOf, ThreadOf, AllDone, BotMustStayQuiet, LockConversation
    <3>4. QED
      BY <1>1, <2>2, <3>1, <3>2, <3>3 DEF WorkerInv, EventOf
  <2>5. /\ \A v \in Worker \ {w} : worker'[v] = worker[v]
        /\ UNCHANGED <<status, replies, conv, botRun>>
        /\ worker[w].pc \in Claimed
    BY <1>1, <2>1 DEF TypeOK, LockConversation, Claimed
  <2>6. QED
    BY <1>1, <1>2, <2>2, <2>3, <2>4, <2>5, OneWorker DEF TypeOK
<1>6. QED
  BY <1>4, <1>5

(* A worker that is deciding or sending, and what it may rely on. *)
LEMMA Spoken ==
  ASSUME PipelineInv, NEW w \in Worker, worker[w].pc \in {"deciding", "sending"}
  PROVE  /\ TypeOK /\ WorkerInv(w) /\ worker[w] \in WorkerState /\ worker[w].pc \in Claimed
         /\ worker[w].pending = NothingPending /\ ~AllDone(w) /\ Speaking(w) /\ Owned(w)
         /\ EventOf(w) \in Event /\ ThreadOf(w) \in Thread /\ worker[w].next \in Nat \ {0}
         /\ Len(Envelopes[EventOf(w)]) \in Nat
BY AtHand DEF PipelineInv, TypeOK, WorkerInv, Claimed

(* A session with one more thing to write. *)
Session == [escalate : BOOLEAN, said : Nat]

LEMMA Marked ==
  ASSUME NEW f \in [Thread -> Session], NEW t \in Thread
  PROVE  /\ [f EXCEPT ![t].escalate = TRUE] \in [Thread -> Session]
         /\ [f EXCEPT ![t].said = @ + 1] \in [Thread -> Session]
<1>1. [f[t] EXCEPT !.escalate = TRUE] \in Session
  BY DEF Session
<1>2. f[t].said + 1 \in Nat
  BY DEF Session
<1>3. [f[t] EXCEPT !.said = f[t].said + 1] \in Session
  BY <1>2 DEF Session
<1>4. QED
  BY <1>1, <1>3

LEMMA EscalatedInv ==
  ASSUME PipelineInv, NEW w \in Worker, worker[w].pc \in {"deciding", "sending"},
         Escalated(w),
         UNCHANGED <<status, queue, conv, lock, stored, botRun, replies, mishaps>>
  PROVE  PipelineInv'
<1> DEFINE t == ThreadOf(w)
           state == [worker[w] EXCEPT !.pending[t].escalate = TRUE]
<1>1. /\ TypeOK /\ WorkerInv(w) /\ worker[w] \in WorkerState /\ worker[w].pc \in Claimed
      /\ worker[w].pending = NothingPending /\ ~AllDone(w) /\ Speaking(w) /\ Owned(w)
      /\ EventOf(w) \in Event /\ t \in Thread /\ worker[w].next \in Nat \ {0}
  BY Spoken
<1>2. BotRunBelowLimit' /\ BotRunBelowLimit
  BY DEF PipelineInv, BotRunBelowLimit
<1>3. /\ state \in WorkerState /\ state.event = EventOf(w) /\ state.next = worker[w].next
      /\ state.pending = [NothingPending EXCEPT ![t].escalate = TRUE]
  <2> DEFINE marked == [worker[w].pending EXCEPT ![t].escalate = TRUE]
  <2>1. marked \in [Thread -> Session]
    BY <1>1, Marked DEF WorkerState, Session
  <2>2. state = [worker[w] EXCEPT !.pending = marked]
    BY <1>1 DEF WorkerState
  <2> HIDE DEF marked
  <2>3. [worker[w] EXCEPT !.pending = marked] \in WorkerState
    BY <1>1, <2>1 DEF WorkerState, Session
  <2>4. QED
    BY <1>1, <2>2, <2>3 DEF WorkerState, EventOf, marked
<1>4. /\ worker' \in [Worker -> WorkerState]
      /\ \A v \in Worker \ {w} : worker'[v] = worker[v]
      /\ worker'[w].pc = "storing" /\ worker'[w].pending = state.pending
      /\ worker'[w].event = EventOf(w) /\ worker'[w].next = worker[w].next + 1
      /\ worker'[w].next <= Len(Envelopes[EventOf(w)]) + 1
      /\ Envelopes[EventOf(w)][worker'[w].next - 1] = t
  BY <1>3, Onward DEF Escalated
<1>5. TypeOK'
  BY <1>1, <1>4 DEF TypeOK
<1>6. WorkerInv(w)'
  <2>1. \A s \in Thread : Unflushed(w, s)'
    <3>1. TAKE s \in Thread
    <3>2. worker'[w].pending[s].said = 0 /\ (worker'[w].pending[s].escalate <=> s = t)
      BY <1>1, <1>3, <1>4 DEF NothingPending
    <3>3. lock'[t] = w /\ ~HandsOff(conv'[t])
      BY <1>1 DEF Speaking, BotMustStayQuiet, HandsOff
    <3>4. botRun'[s] \in Nat /\ botRun'[s] < MaxBotTurns
      BY <1>2, <1>5 DEF TypeOK, BotRunBelowLimit
    <3>5. QED
      BY <3>2, <3>3, <3>4 DEF Unflushed
  <2>2. Owned(w)'
    <3>1. replies[EventOf(w)] < worker[w].next \/ worker[w].pc = "failing"
      BY <1>1 DEF Owned
    <3>2. replies[EventOf(w)] \in Nat
      BY <1>1 DEF TypeOK
    <3>3. QED
      BY <1>1, <1>4, <3>1, <3>2 DEF Owned, EventOf
  <2>3. LastSettled(w)'
    <3>1. worker'[w].pending[t].escalate
      BY <1>1, <1>3, <1>4 DEF NothingPending
    <3>2. QED
      BY <1>1, <1>4, <3>1 DEF LastSettled, EventOf, Speaking
  <2>4. QED
    BY <1>1, <1>4, <2>1, <2>2, <2>3 DEF WorkerInv, EventOf
<1>7. QED
  BY <1>1, <1>2, <1>4, <1>5, <1>6, OneWorker

LEMMA DecideInv ==
  ASSUME PipelineInv, NEW w \in Worker, Decide(w)
  PROVE  PipelineInv'
<1> DEFINE t == ThreadOf(w)
<1>1. /\ TypeOK /\ WorkerInv(w) /\ worker[w] \in WorkerState /\ worker[w].pc \in Claimed
      /\ worker[w].pending = NothingPending /\ ~AllDone(w) /\ Speaking(w) /\ Owned(w)
      /\ EventOf(w) \in Event /\ t \in Thread /\ worker[w].next \in Nat \ {0}
  BY Spoken DEF Decide
<1>2. CASE Escalated(w)
  BY <1>2, EscalatedInv DEF Decide
<1>3. CASE Turns(t) < MaxBotTurns /\ GoTo(w, "sending")
  <2>1. BotRunBelowLimit'
    BY DEF PipelineInv, Decide, BotRunBelowLimit
  <2>2. worker' = [worker EXCEPT ![w].pc = "sending"]
    BY <1>3 DEF GoTo
  <2>3. /\ worker'[w].pc = "sending" /\ worker'[w].pending = NothingPending
        /\ worker'[w].event = EventOf(w) /\ worker'[w].next = worker[w].next
        /\ worker'[w] \in WorkerState
        /\ \A v \in Worker \ {w} : worker'[v] = worker[v]
    BY <1>1, <2>2 DEF TypeOK, WorkerState, EventOf
  <2>4. TypeOK'
    <3>1. worker' \in [Worker -> WorkerState]
      BY <1>1, <2>2, <2>3 DEF TypeOK
    <3>2. QED
      BY <1>1, <3>1 DEF TypeOK, Decide
  <2>5. WorkerInv(w)'
    <3>1. \A s \in Thread : Unflushed(w, s)'
      BY <2>1, <2>3, <2>4 DEF Unflushed, NothingPending, BotRunBelowLimit, TypeOK
    <3>2. Owned(w)' /\ ~AllDone(w)'
      BY <1>1, <2>3 DEF Owned, AllDone, EventOf, Decide
    <3>3. Speaking(w)'
      BY <1>1, <1>3, <2>3
         DEF Speaking, EventOf, ThreadOf, BotMustStayQuiet, Turns, Decide
    <3>4. QED
      BY <1>1, <2>3, <3>1, <3>2, <3>3 DEF WorkerInv, EventOf
  <2>6. UNCHANGED <<status, replies, conv, botRun, lock>>
    BY DEF Decide
  <2>7. QED
    BY <1>1, <2>1, <2>3, <2>4, <2>5, <2>6, OneWorker
<1>4. QED
  BY <1>2, <1>3 DEF Decide

LEMMA SendInv ==
  ASSUME PipelineInv, NEW w \in Worker, Send(w)
  PROVE  PipelineInv'
<1> DEFINE t == ThreadOf(w)
           e == EventOf(w)
           said == [worker[w] EXCEPT !.pending[t].said = @ + 1]
<1>1. /\ TypeOK /\ WorkerInv(w) /\ worker[w] \in WorkerState /\ worker[w].pc \in Claimed
      /\ worker[w].pending = NothingPending /\ ~AllDone(w) /\ Speaking(w) /\ Owned(w)
      /\ EventOf(w) \in Event /\ t \in Thread /\ worker[w].next \in Nat \ {0}
      /\ worker[w].pc = "sending"
  BY Spoken DEF Send
<1>2. CASE Escalated(w) /\ UNCHANGED replies
  BY <1>1, <1>2, EscalatedInv DEF Send
<1>3. CASE /\ replies' = [replies EXCEPT ![e] = @ + 1]
           /\ \/ NextEnvelope(w, said)
              \/ worker' = [worker EXCEPT ![w] = [said EXCEPT !.pc = "failing"]]
  <2>1. BotRunBelowLimit' /\ BotRunBelowLimit
    BY DEF PipelineInv, Send, BotRunBelowLimit
  <2>2. /\ said \in WorkerState /\ said.event = e /\ said.next = worker[w].next
        /\ said.pending = [NothingPending EXCEPT ![t].said = 1]
    <3> DEFINE marked == [worker[w].pending EXCEPT ![t].said = @ + 1]
    <3>1. marked \in [Thread -> Session]
      BY <1>1, Marked DEF WorkerState, Session
    <3>2. marked = [NothingPending EXCEPT ![t].said = 1]
      <4>1. NothingPending[t].said + 1 = 1
        BY <1>1 DEF NothingPending
      <4>2. marked = [NothingPending EXCEPT ![t].said = NothingPending[t].said + 1]
        BY <1>1
      <4>3. QED
        BY <4>1, <4>2
    <3>3. said = [worker[w] EXCEPT !.pending = marked]
      BY <1>1 DEF WorkerState
    <3> HIDE DEF marked
    <3>4. [worker[w] EXCEPT !.pending = marked] \in WorkerState
      BY <1>1, <3>1 DEF WorkerState, Session
    <3>5. QED
      BY <1>1, <3>2, <3>3, <3>4 DEF WorkerState, EventOf
  <2>3. /\ replies' \in [Event -> Nat] /\ replies'[e] = replies[e] + 1 /\ replies[e] \in Nat
        /\ replies[e] < worker[w].next
        /\ \A f \in Event : f # e => replies'[f] = replies[f]
    BY <1>1, <1>3 DEF TypeOK, Owned
  <2>4. /\ worker' \in [Worker -> WorkerState]
        /\ \A v \in Worker \ {w} : worker'[v] = worker[v]
        /\ worker'[w].pending = said.pending /\ worker'[w].event = e
        /\ \/ /\ worker'[w].pc = "storing" /\ worker'[w].next = worker[w].next + 1
              /\ worker'[w].next <= Len(Envelopes[EventOf(w)]) + 1
           \/ worker'[w].pc = "failing"
    <3>1. CASE NextEnvelope(w, said)
      BY <1>1, <2>2, <3>1, Onward
    <3>2. CASE worker' = [worker EXCEPT ![w] = [said EXCEPT !.pc = "failing"]]
      <4> HIDE DEF said
      <4>1. [said EXCEPT !.pc = "failing"] \in WorkerState
        BY <2>2 DEF WorkerState
      <4>2. QED
        BY <1>1, <2>2, <3>2, <4>1 DEF TypeOK, WorkerState
    <3>3. QED
      BY <1>3, <3>1, <3>2
  <2>5. TypeOK'
    BY <1>1, <2>3, <2>4 DEF TypeOK, Send
  <2>6. WorkerInv(w)'
    <3>1. \A s \in Thread : Unflushed(w, s)'
      <4>1. TAKE s \in Thread
      <4>2. /\ worker'[w].pending[s].said = (IF s = t THEN 1 ELSE 0)
            /\ ~worker'[w].pending[s].escalate
        BY <1>1, <2>2, <2>4 DEF NothingPending
      <4>3. lock'[t] = w /\ botRun'[t] + 1 < MaxBotTurns
        BY <1>1 DEF Speaking, Turns, Send
      <4>4. botRun'[s] \in Nat /\ botRun'[s] < MaxBotTurns
        BY <2>1, <2>5 DEF TypeOK, BotRunBelowLimit
      <4>5. QED
        BY <4>2, <4>3, <4>4 DEF Unflushed
    <3>2. Owned(w)'
      BY <1>1, <2>3, <2>4 DEF Owned, EventOf, Send
    <3>3. LastSettled(w)'
      <4>1. replies'[e] > 0 /\ EventOf(w)' = e
        BY <2>3, <2>4 DEF EventOf
      <4>2. QED
        BY <4>1 DEF LastSettled
    <3>4. QED
      BY <1>1, <2>4, <3>1, <3>2, <3>3 DEF WorkerInv, EventOf
  <2>7. UNCHANGED <<status, conv, botRun, lock>> /\ status[e] = "processing"
    BY <1>1 DEF Send, Owned
  <2>8. QED
    <3>1. \A f \in Event :
             \/ status'[f] = status[f] /\ replies'[f] = replies[f]
             \/ f = EventOf(w) /\ worker[w].pc \in Claimed /\ status'[f] = "processing"
      BY <1>1, <2>3, <2>7
    <3>2. QED
      BY <1>1, <2>1, <2>4, <2>5, <2>6, <2>7, <3>1, OneWorker
<1>4. QED
  BY <1>2, <1>3 DEF Send

-----------------------------------------------------------------------------
(* A worker ends its task and commits: processed or failed. *)
LEMMA ClosingInv ==
  ASSUME PipelineInv, NEW w \in Worker, worker[w].pc \in {"storing", "failing"},
         NEW verdict \in {"processed", "failed"},
         status' = [status EXCEPT ![EventOf(w)] = verdict],
         Commit(w), Finish(w), UNCHANGED <<queue, stored, replies, mishaps>>
  PROVE  PipelineInv'
<1>1. /\ TypeOK /\ worker[w] \in WorkerState /\ EventOf(w) \in Event
      /\ worker' = [worker EXCEPT ![w] = IdleWorker] /\ worker[w].pc \in Claimed
  BY AtHand DEF PipelineInv, TypeOK, Finish, Claimed
<1>2. /\ conv' \in [Thread -> ConversationRow] /\ botRun' \in [Thread -> Nat]
      /\ BotRunBelowLimit' /\ lock' \in [Thread -> Worker \cup {Nobody}]
  BY FlushFrame, UnlockedFrame DEF Commit, BotRunBelowLimit
<1>3. /\ IdleWorker \in WorkerState /\ worker'[w] = IdleWorker
      /\ \A v \in Worker \ {w} : worker'[v] = worker[v]
  BY <1>1, PipelineAssumption DEF TypeOK, WorkerState, IdleWorker, NothingPending
<1>4. TypeOK'
  <2>1. worker' \in [Worker -> WorkerState]
    BY <1>1, <1>3 DEF TypeOK
  <2>2. status' \in [Event -> {"absent", "pending", "processing", "processed", "failed"}]
    BY <1>1 DEF TypeOK
  <2>3. QED
    BY <1>1, <1>2, <2>1, <2>2 DEF TypeOK
<1>5. WorkerInv(w)'
  BY <1>2, <1>3, <1>4, Fresh DEF IdleWorker
<1>6. \A t \in Thread : lock[t] \notin {w, Nobody} =>
         lock'[t] = lock[t] /\ conv'[t] = conv[t] /\ botRun'[t] = botRun[t]
  BY FlushFrame, UnlockedFrame DEF Commit
<1>7. \A e \in Event :
         \/ status'[e] = status[e] /\ replies'[e] = replies[e]
         \/ /\ e = EventOf(w) /\ worker[w].pc \in Claimed
            /\ status'[e] \in {"processing", "processed", "failed"}
  BY <1>1 DEF TypeOK
<1>8. worker'[w].pc \notin Claimed
  BY <1>3 DEF IdleWorker, Claimed
<1>9. QED
  BY <1>2, <1>3, <1>4, <1>5, <1>6, <1>7, <1>8, OneWorker

(* A worker's transaction is rolled back. *)
LEMMA RolledBackInv ==
  ASSUME PipelineInv, NEW w \in Worker, Killed(w) \/ Raise(w)
  PROVE  PipelineInv'
<1>1. /\ TypeOK /\ worker[w] \in WorkerState /\ EventOf(w) \in Event
      /\ worker' = [worker EXCEPT ![w] = IdleWorker] /\ lock' = Unlocked(w)
      /\ UNCHANGED <<status, conv, stored, botRun, replies>>
  BY AtHand DEF PipelineInv, TypeOK, Killed, Raise, Finish
<1>2. BotRunBelowLimit' /\ lock' \in [Thread -> Worker \cup {Nobody}]
  BY <1>1, UnlockedFrame DEF PipelineInv, BotRunBelowLimit
<1>3. /\ IdleWorker \in WorkerState /\ worker'[w] = IdleWorker
      /\ \A v \in Worker \ {w} : worker'[v] = worker[v]
  BY <1>1, PipelineAssumption DEF TypeOK, WorkerState, IdleWorker, NothingPending
<1>4. TypeOK'
  <2>1. worker' \in [Worker -> WorkerState]
    BY <1>1, <1>3 DEF TypeOK
  <2>2. queue' \in [Event -> 0..MaxCopies]
    <3>1. /\ queue \in [Event -> 0..MaxCopies] /\ MaxCopies \in Nat
          /\ EventOf(w) \in Event
      BY <1>1, PipelineAssumption DEF TypeOK
    <3>2. CASE UNCHANGED queue
      BY <3>1, <3>2
    <3>3. CASE /\ queue[EventOf(w)] < MaxCopies
               /\ queue' = [queue EXCEPT ![EventOf(w)] = @ + 1]
      BY <3>1, <3>3
    <3>4. QED
      BY <3>2, <3>3 DEF Killed, Raise
  <2>3. mishaps' \in [killed : 0..MaxKills, errors : 0..MaxErrors]
    <3>1. mishaps \in [killed : 0..MaxKills, errors : 0..MaxErrors]
      BY <1>1 DEF TypeOK
    <3>2. MaxKills \in Nat /\ MaxErrors \in Nat
      BY PipelineAssumption
    <3>3. CASE /\ mishaps.killed < MaxKills
               /\ mishaps' = [mishaps EXCEPT !.killed = @ + 1]
      BY <3>1, <3>2, <3>3
    <3>4. CASE /\ mishaps.errors < MaxErrors
               /\ mishaps' = [mishaps EXCEPT !.errors = @ + 1]
      BY <3>1, <3>2, <3>4
    <3>5. QED
      BY <3>3, <3>4 DEF Killed, Raise
  <2>4. QED
    BY <1>1, <1>2, <2>1, <2>2, <2>3 DEF TypeOK
<1>5. WorkerInv(w)'
  BY <1>2, <1>3, <1>4, Fresh DEF IdleWorker
<1>6. \A t \in Thread : lock[t] \notin {w, Nobody} => lock'[t] = lock[t]
  BY <1>1, UnlockedFrame
<1>7. worker'[w].pc \notin Claimed
  BY <1>3 DEF IdleWorker, Claimed
<1>8. QED
  BY <1>1, <1>2, <1>3, <1>4, <1>5, <1>6, <1>7, OneWorker

(* Every step of a worker, in whatever company. *)
LEMMA WorkersKeep == PipelineInv /\ WorkerStep => PipelineInv'
<1> SUFFICES ASSUME PipelineInv, WorkerStep PROVE PipelineInv'
  OBVIOUS
<1>1. ASSUME NEW w \in Worker, NEW e \in Event, Take(w, e) PROVE PipelineInv'
  BY <1>1, TakeInv
<1>2. ASSUME NEW w \in Worker, Work(w) PROVE PipelineInv'
  <2>1. CASE Claim(w) BY <2>1, <1>2, ClaimInv
  <2>2. CASE Skip(w) BY <2>2, <1>2, SkipInv
  <2>3. CASE Resolve(w) BY <2>3, <1>2, ResolveInv
  <2>4. CASE StoreInbound(w) BY <2>4, <1>2, StoreInboundInv
  <2>5. CASE LockConversation(w) BY <2>5, <1>2, LockConversationInv
  <2>6. CASE Decide(w) BY <2>6, <1>2, DecideInv
  <2>7. CASE Send(w) BY <2>7, <1>2, SendInv
  <2>8. CASE MarkProcessed(w) BY <2>8, <1>2, ClosingInv DEF MarkProcessed
  <2>9. CASE Fail(w) BY <2>9, <1>2, ClosingInv DEF Fail
  <2>10. QED
    BY <1>2, <2>1, <2>2, <2>3, <2>4, <2>5, <2>6, <2>7, <2>8, <2>9 DEF Work
<1>3. ASSUME NEW w \in Worker, Killed(w) \/ Raise(w) PROVE PipelineInv'
  BY <1>3, RolledBackInv
<1>4. QED
  BY <1>1, <1>2, <1>3 DEF WorkerStep

(* A step of the receiver: it stores events and publishes them. *)
LEMMA Upstream ==
  ASSUME PipelineInv, TypeOK', UNCHANGED working,
         \A e \in Event :
            status'[e] = status[e] \/ (status[e] = "absent" /\ status'[e] = "pending")
  PROVE  PipelineInv'
<1>1. UNCHANGED <<conv, lock, stored, botRun, worker, replies, mishaps>>
  BY DEF working
<1>2. BotRunBelowLimit'
  BY <1>1 DEF PipelineInv, BotRunBelowLimit
<1>3. \A v \in Worker : WorkerInv(v)'
  <2>1. TAKE v \in Worker
  <2>2. worker[v].pc \in Claimed =>
           status'[EventOf(v)] = "processing" /\ replies'[EventOf(v)] = replies[EventOf(v)]
    BY <1>1 DEF PipelineInv, WorkerInv, Owned, Claimed
  <2>3. \A t \in Thread : botRun'[t] \in Nat
    BY DEF TypeOK
  <2>4. QED
    BY <1>1, <1>2, <2>2, <2>3, Bystander DEF Later
<1>4. QED
  BY <1>1, <1>2, <1>3 DEF PipelineInv, Unsaid, Apart, EventOf

(* A step of someone else, who writes no row that is locked. *)
LEMMA Outside ==
  ASSUME PipelineInv, TypeOK', UNCHANGED <<status, lock, worker, replies>>,
         \A t \in Thread :
            /\ lock[t] # Nobody => Later(conv[t], conv'[t]) /\ botRun'[t] = botRun[t]
            /\ botRun'[t] <= botRun[t]
  PROVE  PipelineInv'
<1>1. BotRunBelowLimit'
  BY PipelineAssumption DEF PipelineInv, BotRunBelowLimit, TypeOK
<1>2. \A v \in Worker : WorkerInv(v)'
  <2>1. TAKE v \in Worker
  <2>2. v # Nobody
    BY PipelineAssumption
  <2>3. worker[v].pc \in Claimed => status[EventOf(v)] = "processing"
    BY DEF PipelineInv, WorkerInv, Owned
  <2>4. \A t \in Thread : botRun'[t] \in Nat
    BY DEF TypeOK
  <2>5. QED
    BY <1>1, <2>2, <2>3, <2>4, Bystander
<1>3. QED
  BY <1>1, <1>2 DEF PipelineInv, Unsaid, Apart, EventOf

LEMMA MuteExpiresInv ==
  ASSUME PipelineInv, NEW t \in Thread, MuteExpires(t)
  PROVE  PipelineInv'
<1>1. /\ TypeOK /\ conv' = [conv EXCEPT ![t].mute = "expired"] /\ conv[t].mute = "active"
      /\ UNCHANGED <<status, queue, lock, stored, botRun, worker, replies, mishaps>>
  BY DEF PipelineInv, MuteExpires
<1>2. TypeOK'
  BY <1>1 DEF TypeOK, ConversationRow
<1>3. \A s \in Thread : Later(conv[s], conv'[s])
  BY <1>1 DEF TypeOK, ConversationRow, Later
<1>4. QED
  BY <1>1, <1>2, <1>3, Outside DEF TypeOK

-----------------------------------------------------------------------------
(* The agents' calls beside the workers. *)
InboxInv ==
  /\ PipelineInv
  /\ call \in [Call -> CallState]
  /\ calls \in 0..MaxCalls
  /\ \A k \in Call : call[k].pc # "idle" =>
        call[k].agent \in Agent /\ call[k].thread \in Thread

LEMMA InitInbox == InboxInit => InboxInv
<1>1. SUFFICES ASSUME InboxInit PROVE InboxInv
  OBVIOUS
<1>2. NoCall \in CallState
  BY DEF NoCall, CallState, Operation, ConversationRow, Handoff, NewConversation
<1>3. QED
  BY <1>1, <1>2, InitPipeline, InboxAssumption DEF InboxInit, InboxInv, NoCall

(* A call that has ended. *)
LEMMA Ended ==
  ASSUME InboxInv, NEW k \in Call, call' = [call EXCEPT ![k] = NoCall]
  PROVE  /\ call' \in [Call -> CallState]
         /\ \A j \in Call : call'[j].pc # "idle" =>
               call'[j].agent \in Agent /\ call'[j].thread \in Thread
<1>1. NoCall \in CallState /\ NoCall.pc = "idle"
  BY DEF NoCall, CallState, Operation, ConversationRow, Handoff, NewConversation
<1>2. QED
  BY <1>1 DEF InboxInv

LEMMA LoadInv ==
  ASSUME InboxInv, NEW k \in Call, NEW a \in Agent, NEW op \in Operation,
         NEW t \in Thread, Load(k, a, op, t)
  PROVE  InboxInv'
<1> DEFINE loaded == [pc |-> "loaded", op |-> op, agent |-> a, thread |-> t,
                      row |-> conv[t]]
<1>1. /\ call' = [call EXCEPT ![k] = loaded] /\ UNCHANGED vars
      /\ calls < MaxCalls /\ calls' = calls + 1
  BY DEF Load, Unchanged, vars, working
<1>2. PipelineInv'
  <2>1. TypeOK'
    BY <1>1 DEF InboxInv, PipelineInv, vars, working, TypeOK
  <2>2. QED
    BY <1>1, <2>1, Outside DEF InboxInv, PipelineInv, TypeOK, vars, working, Later
<1>3. loaded \in CallState
  BY DEF InboxInv, PipelineInv, TypeOK, CallState
<1>4. QED
  BY <1>1, <1>2, <1>3, InboxAssumption DEF InboxInv

(* An UPDATE of the columns D of a row. *)
Updated(result, row, new, D) ==
  result = [c \in DOMAIN row |-> IF c \in D THEN new[c] ELSE row[c]]

LEMMA Merged ==
  ASSUME NEW row \in ConversationRow, NEW new \in ConversationRow, NEW D,
         NEW result, Updated(result, row, new, D)
  PROVE  /\ result \in ConversationRow
         /\ result.handoff = (IF "handoff" \in D THEN new.handoff ELSE row.handoff)
         /\ result.assignee = (IF "assignee" \in D THEN new.assignee ELSE row.assignee)
         /\ result.mute = (IF "mute" \in D THEN new.mute ELSE row.mute)
BY DEF Updated, ConversationRow

LEMMA AssignedType ==
  ASSUME NEW op \in Operation \ {"send"}, NEW a \in Agent, NEW row \in ConversationRow
  PROVE  Assigned(op, a, row) \in ConversationRow
BY DEF Assigned, Operation, ConversationRow, Handoff

(* What a commit makes of the row. *)
LEMMA Written ==
  ASSUME InboxInv, NEW k \in Call, Write(k)
  PROVE  LET t == call[k].thread
             row == call[k].row
             new == Assigned(call[k].op, call[k].agent, row)
             dirty == Dirty(call[k].op, row, new)
         IN /\ t \in Thread /\ row \in ConversationRow /\ new \in ConversationRow
            /\ call[k].op \in Operation \ {"send"} /\ call[k].agent \in Agent
            /\ conv' \in [Thread -> ConversationRow]
            /\ \A s \in Thread \ {t} : conv'[s] = conv[s]
            /\ conv'[t].handoff = (IF "handoff" \in dirty THEN new ELSE conv[t]).handoff
            /\ conv'[t].assignee = (IF "assignee" \in dirty THEN new ELSE conv[t]).assignee
            /\ conv'[t].mute = (IF "mute" \in dirty THEN new ELSE conv[t]).mute
<1> DEFINE t == call[k].thread
           row == call[k].row
           new == Assigned(call[k].op, call[k].agent, row)
           dirty == Dirty(call[k].op, row, new)
           result == [c \in DOMAIN conv[t] |-> IF c \in dirty THEN new[c] ELSE conv[t][c]]
<1>1. /\ t \in Thread /\ row \in ConversationRow /\ call[k].agent \in Agent
      /\ call[k].op \in Operation \ {"send"} /\ conv \in [Thread -> ConversationRow]
  BY DEF InboxInv, PipelineInv, TypeOK, CallState, Write
<1>2. new \in ConversationRow
  BY <1>1, AssignedType
<1>3. conv' = [conv EXCEPT ![t] = result]
  BY DEF Write
<1>4. Updated(result, conv[t], new, dirty)
  BY DEF Updated
<1>5. conv[t] \in ConversationRow
  BY <1>1
<1> HIDE DEF dirty, new, result
<1>6. /\ result \in ConversationRow
      /\ result.handoff = (IF "handoff" \in dirty THEN new.handoff ELSE conv[t].handoff)
      /\ result.assignee = (IF "assignee" \in dirty THEN new.assignee ELSE conv[t].assignee)
      /\ result.mute = (IF "mute" \in dirty THEN new.mute ELSE conv[t].mute)
  BY <1>2, <1>4, <1>5, Merged
<1>7. QED
  BY <1>1, <1>2, <1>3, <1>6 DEF new, dirty

LEMMA WriteInv ==
  ASSUME InboxInv, NEW k \in Call, Write(k)
  PROVE  InboxInv'
<1> DEFINE t == call[k].thread
           dirty == Dirty(call[k].op, call[k].row,
                          Assigned(call[k].op, call[k].agent, call[k].row))
<1>1. /\ UNCHANGED <<status, queue, lock, stored, worker, replies, mishaps, botRun, calls>>
      /\ call' = [call EXCEPT ![k] = NoCall]
      /\ dirty # {} => lock[t] = Nobody
  BY DEF Write, Unchanged
<1>2. conv' \in [Thread -> ConversationRow]
  BY Written
<1>3. \A s \in Thread : lock[s] # Nobody => Later(conv[s], conv'[s])
  BY <1>1, Written DEF Later
<1>4. PipelineInv'
  <2>1. TypeOK'
    BY <1>1, <1>2 DEF InboxInv, PipelineInv, TypeOK
  <2>2. QED
    BY <1>1, <1>3, <2>1, Outside DEF InboxInv, PipelineInv, TypeOK
<1>5. QED
  BY <1>1, <1>4, Ended DEF InboxInv

LEMMA SpeakInv ==
  ASSUME InboxInv, NEW k \in Call, Speak(k)
  PROVE  InboxInv'
<1>1. /\ UNCHANGED vars /\ UNCHANGED calls
      /\ \/ call' = [call EXCEPT ![k] = NoCall]
         \/ call[k].pc # "idle" /\ call' = [call EXCEPT ![k].pc = "recording"]
  BY DEF Speak, Unchanged, vars, working
<1>2. PipelineInv'
  <2>1. TypeOK'
    BY <1>1 DEF InboxInv, PipelineInv, vars, working, TypeOK
  <2>2. QED
    BY <1>1, <2>1, Outside DEF InboxInv, PipelineInv, TypeOK, vars, working, Later
<1>3. CASE call' = [call EXCEPT ![k] = NoCall]
  BY <1>1, <1>2, <1>3, Ended DEF InboxInv
<1>4. CASE call[k].pc # "idle" /\ call' = [call EXCEPT ![k].pc = "recording"]
  BY <1>1, <1>2, <1>4 DEF InboxInv, CallState
<1>5. QED
  BY <1>1, <1>3, <1>4

LEMMA RecordSpokenInv ==
  ASSUME InboxInv, NEW k \in Call, RecordSpoken(k)
  PROVE  InboxInv'
<1> DEFINE t == call[k].thread
<1>1. /\ UNCHANGED <<status, queue, lock, stored, worker, replies, mishaps, conv, calls>>
      /\ call' = [call EXCEPT ![k] = NoCall] /\ lock[t] = Nobody
      /\ botRun' = [botRun EXCEPT ![t] = 0] /\ t \in Thread
  BY DEF RecordSpoken, Unchanged, InboxInv
<1>2. PipelineInv'
  <2>1. TypeOK'
    BY <1>1 DEF InboxInv, PipelineInv, TypeOK
  <2>2. \A s \in Thread : botRun[s] \in Nat
    BY DEF InboxInv, PipelineInv, TypeOK
  <2>3. QED
    BY <1>1, <2>1, <2>2, Outside DEF InboxInv, PipelineInv, TypeOK, Later
<1>3. QED
  BY <1>1, <1>2, Ended DEF InboxInv

LEMMA DropInv ==
  ASSUME InboxInv, NEW k \in Call, Drop(k)
  PROVE  InboxInv'
<1>1. /\ UNCHANGED <<status, queue, conv, lock, stored, botRun, worker, replies, calls>>
      /\ call' = [call EXCEPT ![k] = NoCall]
      /\ mishaps.killed < MaxKills /\ mishaps' = [mishaps EXCEPT !.killed = @ + 1]
  BY DEF Drop
<1>2. PipelineInv'
  <2>a. mishaps \in [killed : 0..MaxKills, errors : 0..MaxErrors] /\ MaxKills \in Nat
    BY PipelineAssumption DEF InboxInv, PipelineInv, TypeOK
  <2>1. mishaps' \in [killed : 0..MaxKills, errors : 0..MaxErrors]
    BY <1>1, <2>a
  <2>2. TypeOK'
    BY <1>1, <2>1 DEF InboxInv, PipelineInv, TypeOK
  <2>3. QED
    BY <1>1, <2>2, Outside DEF InboxInv, PipelineInv, TypeOK, Later
<1>3. QED
  BY <1>1, <1>2, Ended DEF InboxInv

LEMMA InboxKeeps == InboxInv /\ [InboxNext]_inboxVars => InboxInv'
<1> SUFFICES ASSUME InboxInv, [InboxNext]_inboxVars PROVE InboxInv'
  OBVIOUS
<1>1. CASE WorkerStep /\ UNCHANGED <<call, calls>>
  BY <1>1, WorkersKeep DEF InboxInv
<1>2. ASSUME NEW t \in Thread, MuteExpires(t), UNCHANGED <<call, calls>> PROVE InboxInv'
  BY <1>2, MuteExpiresInv DEF InboxInv
<1>3. ASSUME NEW k \in Call,
             \/ \E a \in Agent, op \in Operation, t \in Thread : Load(k, a, op, t)
             \/ Serve(k)
             \/ Drop(k)
      PROVE  InboxInv'
  BY <1>3, LoadInv, WriteInv, SpeakInv, RecordSpokenInv, DropInv DEF Serve
<1>4. CASE UNCHANGED inboxVars
  <2>1. TypeOK'
    BY <1>4 DEF inboxVars, vars, working, InboxInv, PipelineInv, TypeOK
  <2>2. PipelineInv'
    BY <1>4, <2>1, Outside DEF inboxVars, vars, working, InboxInv, PipelineInv, TypeOK, Later
  <2>3. QED
    BY <1>4, <2>2 DEF InboxInv, inboxVars
<1>5. QED
  BY <1>1, <1>2, <1>3, <1>4 DEF InboxNext, ApiStep

THEOREM InboxInvariant == InboxSpec => []InboxInv
BY InitInbox, InboxKeeps, PTL DEF InboxSpec

-----------------------------------------------------------------------------
(* Every reachable state is made of proper values. *)
THEOREM InboxTypeCorrect == InboxSpec => []InboxTypeOK
<1>1. InboxInv => InboxTypeOK
  BY DEF InboxInv, PipelineInv, InboxTypeOK
<1>2. QED
  BY <1>1, InboxInvariant, PTL

(* From the decision to speak until the send, the conversation is one the  *)
(* bot may speak in, whatever agents do while the brain is thinking.       *)
THEOREM BotKeepsQuiet == InboxSpec => []BotNeverTalksOverHuman
<1>1. InboxInv => BotNeverTalksOverHuman
  BY DEF InboxInv, PipelineInv, WorkerInv, Speaking, BotNeverTalksOverHuman
<1>2. QED
  BY <1>1, InboxInvariant, PTL

(* The bot's unanswered run stays below the limit, however many workers    *)
(* serve one conversation.                                                 *)
THEOREM BotRunBounded == InboxSpec => []BotRunBelowLimit
<1>1. InboxInv => BotRunBelowLimit
  BY DEF InboxInv, PipelineInv
<1>2. QED
  BY <1>1, InboxInvariant, PTL

-----------------------------------------------------------------------------
(* Telegram, WhatsApp, Messenger and Instagram adapters make one message of *)
(* an update.                                                              *)
OneMessageEach == \A e \in Event : Len(Envelopes[e]) <= 1

(* Only a commit closes an event as processed. *)
LEMMA ClosedByCommit ==
  ASSUME InboxInv, InboxNext, NEW e \in Event,
         status[e] = "processing", status'[e] = "processed"
  PROVE  \E w \in Worker : MarkProcessed(w) /\ EventOf(w) = e
<1>1. status \in [Event -> {"absent", "pending", "processing", "processed", "failed"}]
  BY DEF InboxInv, PipelineInv, TypeOK
<1>2. status' # status
  OBVIOUS
<1>3. PICK w \in Worker : Work(w)
  BY <1>2 DEF InboxNext, WorkerStep, Take, Killed, Raise, MuteExpires, ApiStep, Serve,
              Load, Write, Speak, RecordSpoken, Drop, Unchanged
<1>4. MarkProcessed(w)
  BY <1>1, <1>2, <1>3
     DEF Work, Claim, Skip, Resolve, StoreInbound, LockConversation, Decide, Send, Fail
<1>5. EventOf(w) = e
  BY <1>1, <1>4 DEF MarkProcessed
<1>6. QED
  BY <1>4, <1>5

LEMMA ClosedHandedOver ==
  ASSUME OneMessageEach, InboxInv, NEW w \in Worker, MarkProcessed(w),
         replies[EventOf(w)] < Len(Envelopes[EventOf(w)])
  PROVE  \E i \in 1..Len(Envelopes[EventOf(w)]) :
            LET row == conv'[Envelopes[EventOf(w)][i]] IN
              row.handoff \in {"pending_human", "human"} \/ row.mute # "none"
<1> DEFINE e == EventOf(w)
           t == Envelopes[e][1]
<1>1. /\ e \in Event /\ Len(Envelopes[e]) \in Nat /\ worker[w].next \in Nat
      /\ Envelopes[e] \in Seq(Thread) /\ replies[e] \in Nat /\ WorkerInv(w) /\ TypeOK
  BY AtHand DEF MarkProcessed, InboxInv, PipelineInv, TypeOK
<1>2. Len(Envelopes[e]) = 1 /\ replies[e] = 0 /\ worker[w].next = 2 /\ t \in Thread
  <2>1. Len(Envelopes[e]) <= 1
    BY <1>1 DEF OneMessageEach
  <2>2. Len(Envelopes[e]) = 1 /\ replies[e] = 0
    <3> DEFINE n == Len(Envelopes[e])
               r == replies[e]
    <3>1. n \in Nat /\ r \in Nat /\ r < n /\ n <= 1
      BY <1>1, <2>1
    <3> HIDE DEF n, r
    <3>2. n = 1 /\ r = 0
      BY <3>1
    <3>3. QED
      BY <3>2 DEF n, r
  <2>3. worker[w].next > Len(Envelopes[e]) /\ worker[w].next <= Len(Envelopes[e]) + 1
    BY <1>1 DEF MarkProcessed, WorkerInv, AllDone
  <2>4. worker[w].next = 2
    BY <1>1, <2>2, <2>3
  <2>5. QED
    BY <1>1, <2>2, <2>4
<1>3. worker[w].pending[t].escalate \/ Handed(conv[t])
  BY <1>1, <1>2 DEF MarkProcessed, WorkerInv, LastSettled
<1>4. conv'[t] = Flushed(w, t) /\ conv[t] \in ConversationRow
  BY <1>1, <1>2 DEF MarkProcessed, Commit, TypeOK
<1>5. conv'[t].handoff \in {"pending_human", "human"} \/ conv'[t].mute # "none"
  BY <1>3, <1>4 DEF Flushed, Handed, HandsOff, ConversationRow
<1>6. QED
  BY <1>2, <1>5

(* An event of one message that closes as processed and unanswered leaves  *)
(* its conversation in front of people.  Of several messages the earlier   *)
(* ones are committed, and their rows let go, before the last is done, and *)
(* what the session had decided for them may be overwritten: there it does *)
(* not hold.                                                               *)
THEOREM UnansweredHandedOver ==
  ASSUME OneMessageEach PROVE InboxSpec => UnansweredIsHandedOver
<1> DEFINE Step ==
      \A e \in Event :
         /\ status[e] = "processing" /\ status'[e] = "processed"
         /\ replies[e] < Len(Envelopes[e])
         => \E i \in 1..Len(Envelopes[e]) :
              LET row == conv'[Envelopes[e][i]] IN
                row.handoff \in {"pending_human", "human"} \/ row.mute # "none"
<1>1. InboxInv /\ [InboxNext]_inboxVars => [Step]_vars
  <2>1. CASE UNCHANGED inboxVars
    BY <2>1 DEF inboxVars
  <2>2. ASSUME InboxInv, InboxNext PROVE Step
    BY <2>2, ClosedByCommit, ClosedHandedOver
  <2>3. QED
    BY <2>1, <2>2
<1>2. UnansweredIsHandedOver <=> [][Step]_vars
  BY DEF UnansweredIsHandedOver
<1> HIDE DEF Step
<1>3. QED
  BY <1>1, <1>2, InboxInvariant, PTL DEF InboxSpec

-----------------------------------------------------------------------------
(* Whose a conversation is, is decided by the API alone. *)
LEMMA FlushKeepsHands ==
  ASSUME PipelineInv, NEW w \in Worker, NEW t \in Thread
  PROVE  SameHands(conv[t], Flushed(w, t))
BY DEF PipelineInv, TypeOK, WorkerInv, Unflushed, ConversationRow, Flushed, HandsOff, SameHands

LEMMA WorkersKeepHands ==
  ASSUME PipelineInv, WorkerStep, NEW t \in Thread
  PROVE  SameHands(conv[t], conv'[t])
<1>1. PICK w \in Worker : (\E e \in Event : Take(w, e)) \/ Work(w) \/ Killed(w) \/ Raise(w)
  BY DEF WorkerStep
<1>2. CASE UNCHANGED conv
  BY <1>2 DEF SameHands
<1>3. CASE Commit(w)
  BY <1>3, FlushKeepsHands DEF Commit
<1>4. CASE StoreInbound(w)
  <2>1. conv[t] \in ConversationRow
    BY DEF PipelineInv, TypeOK
  <2>2. conv'[t] = Flushed(w, t)
        \/ conv'[t] = (IF conv[t].handoff = "resolved"
                         THEN [conv[t] EXCEPT !.handoff = "bot"] ELSE conv[t])
    BY <1>4 DEF StoreInbound
  <2>3. QED
    BY <2>1, <2>2, FlushKeepsHands DEF ConversationRow, SameHands
<1>5. QED
  BY <1>1, <1>2, <1>3, <1>4
     DEF Take, Work, Killed, Raise, Claim, Skip, Resolve, LockConversation, Decide, Send,
         MarkProcessed, Fail

(* A takeover goes on only over a row that was nobody's or its own. *)
Checked(k) ==
  call[k].pc # "idle" /\ call[k].op = "takeover"
    => call[k].row.assignee \in {Nobody, call[k].agent}

HandsInv == InboxInv /\ \A k \in Call : Checked(k)

LEMMA HandsInvariant == InboxSpec => []HandsInv
<1>1. InboxInit => HandsInv
  BY InitInbox DEF InboxInit, NoCall, HandsInv, Checked
<1>2. HandsInv /\ [InboxNext]_inboxVars => HandsInv'
  <2>1. SUFFICES ASSUME HandsInv, [InboxNext]_inboxVars PROVE HandsInv'
    OBVIOUS
  <2>2. InboxInv' /\ call \in [Call -> CallState]
    BY <2>1, InboxKeeps DEF HandsInv, InboxInv
  <2>3. CASE UNCHANGED call
    BY <2>1, <2>2, <2>3 DEF HandsInv, Checked
  <2>4. ASSUME NEW k \in Call, NEW a \in Agent, NEW op \in Operation, NEW t \in Thread,
               Load(k, a, op, t)
        PROVE  HandsInv'
    BY <2>1, <2>2, <2>4 DEF Load, Allowed, HandsInv, Checked
  <2>5. ASSUME NEW k \in Call, Serve(k) \/ Drop(k) PROVE HandsInv'
    <3>1. \/ call' = [call EXCEPT ![k] = NoCall]
          \/ call[k].pc # "idle" /\ call' = [call EXCEPT ![k].pc = "recording"]
      BY <2>5 DEF Serve, Write, Speak, RecordSpoken, Drop
    <3>2. Checked(k)'
      BY <2>1, <2>2, <3>1 DEF HandsInv, Checked, NoCall, CallState
    <3>3. QED
      BY <2>1, <2>2, <3>1, <3>2 DEF HandsInv, Checked
  <2>6. QED
    BY <2>1, <2>3, <2>4, <2>5 DEF InboxNext, ApiStep, inboxVars
<1>3. QED
  BY <1>1, <1>2, PTL DEF InboxSpec

(* A call that commits on the hands it loaded assigns the conversation to  *)
(* its own agent, with people, or to nobody, and takes it from nobody.     *)
LEMMA InformedWrite ==
  ASSUME HandsInv, NEW k \in Call, Write(k),
         SameHands(call[k].row, conv[call[k].thread])
  PROVE  LET t == call[k].thread IN
         ~Misassigned(conv'[t]) /\ ~Stolen(conv[t], conv'[t])
<1> DEFINE t == call[k].thread
           row == call[k].row
           new == Assigned(call[k].op, call[k].agent, row)
           dirty == Dirty(call[k].op, row, new)
<1>1. /\ t \in Thread /\ row \in ConversationRow /\ new \in ConversationRow
      /\ call[k].op \in Operation \ {"send"} /\ call[k].agent \in Agent
      /\ conv'[t].handoff = (IF "handoff" \in dirty THEN new ELSE conv[t]).handoff
      /\ conv'[t].assignee = (IF "assignee" \in dirty THEN new ELSE conv[t]).assignee
  BY Written DEF HandsInv
<1>2. /\ "handoff" \in dirty <=> new.handoff # row.handoff
      /\ "assignee" \in dirty <=> new.assignee # row.assignee
  BY <1>1 DEF Dirty, ConversationRow
<1>3. conv'[t].assignee = new.assignee
  BY <1>1, <1>2 DEF SameHands
<1>4. CASE call[k].op = "takeover"
  <2>1. new.handoff = "human" /\ new.assignee = call[k].agent
    BY <1>4 DEF Assigned
  <2>2. conv'[t].handoff = "human"
    BY <1>1, <1>2, <2>1 DEF SameHands
  <2>3. conv[t].assignee \in {Nobody, call[k].agent}
    BY <1>4 DEF HandsInv, Checked, Write, SameHands
  <2>4. QED
    BY <1>3, <2>1, <2>2, <2>3, PipelineAssumption DEF Misassigned, Stolen
<1>5. CASE call[k].op \in {"release", "resolve"}
  <2>1. new.assignee = Nobody
    BY <1>1, <1>5 DEF Assigned, ConversationRow
  <2>2. QED
    BY <1>3, <2>1, PipelineAssumption DEF Misassigned, Stolen
<1>6. QED
  BY <1>1, <1>4, <1>5 DEF Operation

(* No conversation is taken from under an agent or left under a name with  *)
(* nobody in charge, but by a call that another call has overtaken --      *)
(* whatever calls overlap, and whatever the workers do meanwhile.          *)
THEOREM MisassignedOnlyByOverlap == InboxSpec => OnlyOverlapMisassigns
<1> DEFINE Wrong(t) ==
             \/ Misassigned(conv'[t]) /\ ~Misassigned(conv[t])
             \/ Stolen(conv[t], conv'[t])
           Step == \A t \in Thread : Wrong(t) => \E k \in Call : EndsStale(k, t)
<1>1. ASSUME NEW t \in Thread, SameHands(conv[t], conv'[t]) PROVE ~Wrong(t)
  BY <1>1 DEF SameHands, Misassigned, Stolen
<1>2. HandsInv /\ [InboxNext]_inboxVars => [Step]_inboxVars
  <2>1. SUFFICES ASSUME HandsInv, InboxNext PROVE Step
    OBVIOUS
  <2>2. CASE WorkerStep
    BY <1>1, <2>1, <2>2, WorkersKeepHands DEF HandsInv, InboxInv
  <2>3. ASSUME NEW t \in Thread, MuteExpires(t) PROVE Step
    <3>1. \A s \in Thread : SameHands(conv[s], conv'[s])
      BY <2>1, <2>3
         DEF MuteExpires, HandsInv, InboxInv, PipelineInv, TypeOK, ConversationRow, SameHands
    <3>2. QED
      BY <1>1, <3>1
  <2>4. ASSUME NEW k \in Call, Write(k), NEW t \in Thread, Wrong(t)
        PROVE  EndsStale(k, t)
    <3>1. call[k].thread = t
      BY <1>1, <2>1, <2>4, Written DEF HandsInv, SameHands
    <3>2. ~SameHands(call[k].row, conv[t])
      BY <2>1, <2>4, <3>1, InformedWrite
    <3>3. call[k].pc = "loaded" /\ call'[k].pc = "idle"
      BY <2>1, <2>4 DEF Write, NoCall, HandsInv, InboxInv
    <3>4. QED
      BY <3>1, <3>2, <3>3 DEF EndsStale
  <2>5. CASE UNCHANGED conv
    BY <1>1, <2>5 DEF SameHands
  <2>6. QED
    BY <2>1, <2>2, <2>3, <2>4, <2>5
       DEF InboxNext, ApiStep, Serve, Load, Speak, RecordSpoken, Drop
<1>3. OnlyOverlapMisassigns <=> [][Step]_inboxVars
  BY DEF OnlyOverlapMisassigns
<1> HIDE DEF Step
<1>4. QED
  BY <1>2, <1>3, HandsInvariant, PTL DEF InboxSpec

=============================================================================
