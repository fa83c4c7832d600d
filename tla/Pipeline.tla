------------------------------ MODULE Pipeline ------------------------------
(***************************************************************************)
(* The worker side: run_inbound_pipeline (app/runtime/pipeline.py) as the  *)
(* Celery task runs it, for several workers at once.                       *)
(*                                                                         *)
(* A worker takes a message from the broker, claims the event with one     *)
(* conditional UPDATE and commits the claim.  For every message of the     *)
(* event it stores the customer's words and commits, then takes the        *)
(* conversation's row lock and holds it while it decides, asks the brain   *)
(* and sends.  What it decided stays in its session, unflushed, until the  *)
(* next commit.  It may die at any step: the session is rolled back and    *)
(* the broker delivers the message again (acks_late).                      *)
(***************************************************************************)
EXTENDS Naturals, Sequences, FiniteSets

CONSTANTS
  Worker,         \* Celery worker processes
  Event,          \* inbound_events rows
  Thread,         \* conversations
  Agent,          \* users who can be assigned to a conversation
  Envelopes,      \* [Event -> Seq(Thread)], the messages of the event's update
  MaxBotTurns,    \* bots.escalation_max_bot_turns
  MaxCopies,      \* bound: broker messages for one event at a time
  MaxKills,       \* bound: workers killed in a behaviour
  MaxErrors,      \* bound: tasks ended by an uncaught exception
  Nobody          \* no assignee, no lock holder, no event

ASSUME PipelineAssumption ==
  /\ Envelopes \in [Event -> Seq(Thread)]
  /\ MaxBotTurns \in Nat \ {0}
  /\ MaxCopies \in Nat \ {0}
  /\ MaxKills \in Nat
  /\ MaxErrors \in Nat
  /\ Nobody \notin Worker \cup Event \cup Agent

VARIABLES
  status,       \* [Event -> status]
  queue,        \* [Event -> 0..MaxCopies], messages the broker holds
  conv,         \* [Thread -> ConversationRow], committed
  lock,         \* [Thread -> Worker \cup {Nobody}], SELECT .. FOR UPDATE
  stored,       \* committed customer messages: <<event, position>>
  botRun,       \* [Thread -> Nat], committed bot messages since an agent's
  worker,       \* [Worker -> WorkerState]
  replies,      \* [Event -> Nat], replies handed to the provider
  mishaps       \* [killed, errors], how many of each so far

(* Everything but the rows and messages shared with the receiver. *)
working == <<conv, lock, stored, botRun, worker, replies, mishaps>>

vars == <<status, queue, working>>

Handoff == {"bot", "pending_human", "human", "resolved"}

ConversationRow ==
  [handoff : Handoff,
   assignee : Agent \cup {Nobody},
   mute : {"none", "active", "expired"}]   \* bot_muted_until: null, ahead, past

NewConversation == [handoff |-> "bot", assignee |-> Nobody, mute |-> "none"]

(* What a worker's session holds for a thread and has not flushed: an      *)
(* escalation, and bot messages.                                           *)
NothingPending == [t \in Thread |-> [escalate |-> FALSE, said |-> 0]]

(* Variants of definitions below, each with one mistake, used to see that  *)
(* the properties notice it, stand before the definition they vary.        *)

IdleWorker == [pc |-> "idle", event |-> Nobody, next |-> 1,
               pending |-> NothingPending]

WorkerState ==
  [pc : {"idle", "taken", "claimed", "storing", "locking", "deciding",
         "sending", "failing"},
   event : Event \cup {Nobody},
   next : Nat \ {0},
   pending : [Thread -> [escalate : BOOLEAN, said : Nat]]]

TypeOK ==
  /\ status \in [Event -> {"absent", "pending", "processing", "processed", "failed"}]
  /\ queue \in [Event -> 0..MaxCopies]
  /\ conv \in [Thread -> ConversationRow]
  /\ lock \in [Thread -> Worker \cup {Nobody}]
  /\ stored \subseteq Event \X (Nat \ {0})
  /\ botRun \in [Thread -> Nat]
  /\ worker \in [Worker -> WorkerState]
  /\ replies \in [Event -> Nat]
  /\ mishaps \in [killed : 0..MaxKills, errors : 0..MaxErrors]

WorkersInit ==
  /\ conv = [t \in Thread |-> NewConversation]
  /\ lock = [t \in Thread |-> Nobody]
  /\ stored = {}
  /\ botRun = [t \in Thread |-> 0]
  /\ worker = [w \in Worker |-> IdleWorker]
  /\ replies = [e \in Event |-> 0]
  /\ mishaps = [killed |-> 0, errors |-> 0]

(* Without the receiver: every event is stored and published, some twice. *)
Init ==
  /\ status = [e \in Event |-> "pending"]
  /\ queue \in [Event -> 1..MaxCopies]
  /\ WorkersInit

-----------------------------------------------------------------------------
EventOf(w) == worker[w].event
ThreadOf(w) == Envelopes[EventOf(w)][worker[w].next]
AllDone(w) == worker[w].next > Len(Envelopes[EventOf(w)])

GoTo(w, pc) == worker' = [worker EXCEPT ![w].pc = pc]
Finish(w) == worker' = [worker EXCEPT ![w] = IdleWorker]

(* Leave the current message for the next one, as `continue` does: the row *)
(* lock stays with the transaction.                                        *)
NextEnvelope(w, state) ==
  worker' = [worker EXCEPT ![w] = [state EXCEPT !.pc = "storing", !.next = @ + 1]]

Unlocked(w) == [t \in Thread |-> IF lock[t] = w THEN Nobody ELSE lock[t]]

(* The escalation stays in memory. *)
FlushedNothing(w, t) == conv[t]

(* The row after w's session is flushed. *)
Flushed(w, t) ==
  IF worker[w].pending[t].escalate
    THEN [conv[t] EXCEPT !.handoff = "pending_human"] ELSE conv[t]

(* db.commit(): the session is written, the transaction's locks released.  *)
Commit(w) ==
  /\ conv' = [t \in Thread |-> Flushed(w, t)]
  /\ botRun' = [t \in Thread |-> botRun[t] + worker[w].pending[t].said]
  /\ lock' = Unlocked(w)

-----------------------------------------------------------------------------
(* A worker prefetches one message; it is acknowledged when the task ends. *)
Take(w, e) ==
  /\ worker[w].pc = "idle"
  /\ queue[e] > 0
  /\ queue' = [queue EXCEPT ![e] = @ - 1]
  /\ worker' = [worker EXCEPT ![w].pc = "taken", ![w].event = e]
  /\ UNCHANGED <<status, conv, lock, stored, botRun, replies, mishaps>>

(* A redelivered event is worked on again. *)
ClaimAgain(w) ==
  /\ worker[w].pc = "taken"
  /\ status[EventOf(w)] \in {"pending", "processing"}
  /\ status' = [status EXCEPT ![EventOf(w)] = "processing"]
  /\ GoTo(w, "claimed")
  /\ UNCHANGED <<queue, conv, lock, stored, botRun, replies, mishaps>>

(* UPDATE .. SET processing WHERE pending RETURNING, committed at once. *)
Claim(w) ==
  /\ worker[w].pc = "taken"
  /\ status[EventOf(w)] = "pending"
  /\ status' = [status EXCEPT ![EventOf(w)] = "processing"]
  /\ GoTo(w, "claimed")
  /\ UNCHANGED <<queue, conv, lock, stored, botRun, replies, mishaps>>

(* "Already handled, or the row is gone": the redelivery is a no-op. *)
Skip(w) ==
  /\ worker[w].pc = "taken"
  /\ status[EventOf(w)] # "pending"
  /\ Finish(w)
  /\ UNCHANGED <<status, queue, conv, lock, stored, botRun, replies, mishaps>>

(* The task returns when something is gone, and leaves the event claimed. *)
ResolveSilently(w) ==
  /\ worker[w].pc = "claimed"
  /\ \/ Finish(w)
     \/ GoTo(w, "storing")
  /\ UNCHANGED <<status, queue, conv, lock, stored, botRun, replies, mishaps>>

(* The connection, its adapter, the bot or the brand may be gone. *)
Resolve(w) ==
  /\ worker[w].pc = "claimed"
  /\ \/ GoTo(w, "failing")
     \/ GoTo(w, "storing")
  /\ UNCHANGED <<status, queue, conv, lock, stored, botRun, replies, mishaps>>

(* _get_or_create_conversation, _store_inbound, commit.  The first selects *)
(* the row with populate_existing and no autoflush, so what the session    *)
(* had decided for this thread and not flushed is overwritten; messages    *)
(* already added are flushed.  A resolved conversation goes back to the    *)
(* bot.                                                                    *)
StoreInbound(w) ==
  LET t == ThreadOf(w)
      reopened == IF conv[t].handoff = "resolved"
                    THEN [conv[t] EXCEPT !.handoff = "bot"] ELSE conv[t]
  IN
  /\ worker[w].pc = "storing"
  /\ ~AllDone(w)
  /\ lock[t] \in {Nobody, w}
  /\ conv' = [s \in Thread |-> IF s = t THEN reopened ELSE Flushed(w, s)]
  /\ botRun' = [s \in Thread |-> botRun[s] + worker[w].pending[s].said]
  /\ lock' = Unlocked(w)
  /\ stored' = stored \cup {<<EventOf(w), worker[w].next>>}
  /\ worker' = [worker EXCEPT ![w].pc = "locking", ![w].pending = NothingPending]
  /\ UNCHANGED <<status, queue, replies, mishaps>>

BotMustStayQuiet(t) ==
  conv[t].handoff \in {"pending_human", "human"} \/ conv[t].mute = "active"

(* The row is read again, but without FOR UPDATE. *)
LockConversationNot(w) ==
  /\ worker[w].pc = "locking"
  /\ IF BotMustStayQuiet(ThreadOf(w)) THEN NextEnvelope(w, worker[w])
                                      ELSE GoTo(w, "deciding")
  /\ UNCHANGED <<status, queue, conv, lock, stored, botRun, replies, mishaps>>

(* SELECT .. FOR UPDATE, populate_existing: the row as committed by whoever *)
(* held it last.                                                           *)
LockConversation(w) ==
  LET t == ThreadOf(w) IN
  /\ worker[w].pc = "locking"
  /\ lock[t] = Nobody
  /\ lock' = [lock EXCEPT ![t] = w]
  /\ IF BotMustStayQuiet(t) THEN NextEnvelope(w, worker[w])
                            ELSE GoTo(w, "deciding")
  /\ UNCHANGED <<status, queue, conv, stored, botRun, replies, mishaps>>

Escalated(w) ==
  NextEnvelope(w, [worker[w] EXCEPT !.pending[ThreadOf(w)].escalate = TRUE])

(* The replies made so far. *)
TurnsBefore(t) == botRun[t]

(* The reply about to be made, counted from 1. *)
Turns(t) == botRun[t] + 1

(* The preflight policy, then the brain, then the policy on its draft.     *)
(* Escalation: the turn limit, the customer's words, no model, or a brain  *)
(* that asks for a human.  Otherwise there is a draft to send.             *)
Decide(w) ==
  /\ worker[w].pc = "deciding"
  /\ \/ Escalated(w)
     \/ /\ Turns(ThreadOf(w)) < MaxBotTurns
        /\ GoTo(w, "sending")
  /\ UNCHANGED <<status, queue, conv, lock, stored, botRun, replies, mishaps>>

(* dispatch() and record_outbound(): the channel refuses before anything   *)
(* is sent (closed window, media), or the provider is called and the reply *)
(* is delivered or fails.  Both of the latter record a bot message.        *)
Send(w) ==
  LET t == ThreadOf(w)
      said == [worker[w] EXCEPT !.pending[t].said = @ + 1]
  IN
  /\ worker[w].pc = "sending"
  /\ \/ Escalated(w) /\ UNCHANGED replies
     \/ /\ replies' = [replies EXCEPT ![EventOf(w)] = @ + 1]
        /\ \/ NextEnvelope(w, said)
           \/ worker' = [worker EXCEPT ![w] = [said EXCEPT !.pc = "failing"]]
  /\ UNCHANGED <<status, queue, conv, lock, stored, botRun, mishaps>>

MarkProcessed(w) ==
  /\ worker[w].pc = "storing"
  /\ AllDone(w)
  /\ status' = [status EXCEPT ![EventOf(w)] = "processed"]
  /\ Commit(w)
  /\ Finish(w)
  /\ UNCHANGED <<queue, stored, replies, mishaps>>

(* _fail: the event and a failed_jobs row for it, in one transaction. *)
Fail(w) ==
  /\ worker[w].pc = "failing"
  /\ status' = [status EXCEPT ![EventOf(w)] = "failed"]
  /\ Commit(w)
  /\ Finish(w)
  /\ UNCHANGED <<queue, stored, replies, mishaps>>

(* The worker is killed and its transaction rolled back.  When the whole   *)
(* of it dies, the broker has had no acknowledgement and delivers the      *)
(* message again; for a process of its pool the worker acknowledges it:    *)
(* task_acks_late is set, task_reject_on_worker_lost is not.               *)
Killed(w) ==
  /\ worker[w].pc # "idle"
  /\ mishaps.killed < MaxKills
  /\ mishaps' = [mishaps EXCEPT !.killed = @ + 1]
  /\ \/ /\ queue[EventOf(w)] < MaxCopies
        /\ queue' = [queue EXCEPT ![EventOf(w)] = @ + 1]
     \/ UNCHANGED queue
  /\ lock' = Unlocked(w)
  /\ Finish(w)
  /\ UNCHANGED <<status, conv, stored, botRun, replies>>

(* An exception the pipeline does not catch -- the database, Redis -- ends *)
(* the task: rolled back too, but acknowledged, and nothing retries it.    *)
Raise(w) ==
  /\ worker[w].pc # "idle"
  /\ mishaps.errors < MaxErrors
  /\ mishaps' = [mishaps EXCEPT !.errors = @ + 1]
  /\ lock' = Unlocked(w)
  /\ Finish(w)
  /\ UNCHANGED <<status, queue, conv, stored, botRun, replies>>

(* bot_muted_until passes. *)
MuteExpires(t) ==
  /\ conv[t].mute = "active"
  /\ conv' = [conv EXCEPT ![t].mute = "expired"]
  /\ UNCHANGED <<status, queue, lock, stored, botRun, worker, replies, mishaps>>

Work(w) ==
  \/ Claim(w)
  \/ Skip(w)
  \/ Resolve(w)
  \/ StoreInbound(w)
  \/ LockConversation(w)
  \/ Decide(w)
  \/ Send(w)
  \/ MarkProcessed(w)
  \/ Fail(w)

WorkerStep ==
  \E w \in Worker :
     \/ \E e \in Event : Take(w, e)
     \/ Work(w)
     \/ Killed(w)
     \/ Raise(w)

WorkerFairness ==
  /\ \A w \in Worker : WF_vars(Work(w))
  /\ \A e \in Event : SF_vars(\E w \in Worker : Take(w, e))

-----------------------------------------------------------------------------
(* A worker may be thinking for seconds, and agents act meanwhile: from    *)
(* the decision to speak until the send, the committed conversation is one *)
(* the bot may speak in.  "A bot talking over a human is worse than a bot  *)
(* saying nothing."                                                        *)
BotNeverTalksOverHuman ==
  \A w \in Worker :
     worker[w].pc \in {"deciding", "sending"} => ~BotMustStayQuiet(ThreadOf(w))

(* The bot's unanswered run stays under the limit however many workers     *)
(* serve one conversation: the reply that would reach it is escalated.     *)
BotRunBelowLimit == \A t \in Thread : botRun[t] < MaxBotTurns

(* When an event closes as processed with a message left unanswered, its   *)
(* conversation is in front of people: waiting for one, held by one, or in *)
(* the grace period after one released it.                                 *)
UnansweredIsHandedOver ==
  [][\A e \in Event :
       /\ status[e] = "processing" /\ status'[e] = "processed"
       /\ replies[e] < Len(Envelopes[e])
       => \E i \in 1..Len(Envelopes[e]) :
            LET row == conv'[Envelopes[e][i]] IN
              row.handoff \in {"pending_human", "human"} \/ row.mute # "none"]_vars

(* Every event that a worker can still reach is eventually closed. *)
EveryEventCloses ==
  \A e \in Event : status[e] = "pending" ~> status[e] \in {"processed", "failed"}

=============================================================================
