-------------------------------- MODULE Turn --------------------------------
(***************************************************************************)
(* One customer message on its way to a reply or to a person: the          *)
(* escalation policy before and after the brain (app/runtime), the manager *)
(* graph and its workers, the metered brain of MeteredBrain, the auditor   *)
(* and the trace of the run (app/orchestration).                           *)
(*                                                                         *)
(* The run and its trace are written in the pipeline's session, which is   *)
(* committed when the message is done with; the wallet has a session of    *)
(* its own.  So a worker that dies leaves the hold and not the run.        *)
(***************************************************************************)
EXTENDS MeteredBrain, Sequences, Sublist

CONSTANTS
  Messages,       \* [Usage -> SUBSET Message], what each message may be
  MaxPersisted    \* MAX_PERSISTED_EVENTS


VARIABLES
  message,    \* [Usage -> Message]; never changes
  orch,       \* [Usage -> OrchState], the turn in the worker's session
  run,        \* [Usage -> Run], the llm_runs row committed last
  retrieved   \* the messages for which the RAG worker asked a text model

orchVars == <<message, orch, run, retrieved>>
allVars == <<meteredVars, orchVars>>

WorkerKey == {"voice", "ocr", "rag"}

(* What the policy, the planner, the auditor and the bot's settings tell   *)
(* apart: what the text says, what is attached ("image" stands for a file  *)
(* too), whether this reply would be one too many, and what the bot has    *)
(* enabled.                                                                *)
Message ==
  [text : BOOLEAN, kinds : SUBSET {"audio", "image"},
   asksHuman : BOOLEAN, raisesMoney : BOOLEAN, business : BOOLEAN,
   tooMany : BOOLEAN, workers : SUBSET WorkerKey, auditor : BOOLEAN]

ASSUME TurnAssumption ==
  /\ \A k \in Usage : Messages[k] \subseteq Message
  /\ MaxPersisted \in Nat \ {0}

NoRun == [status |-> "none", trace |-> <<>>]

Idle == [pc |-> "idle", pending |-> <<>>, rag |-> "none", events |-> <<>>,
         reply |-> FALSE, reason |-> "none", run |-> NoRun]

Reason == {"none", "brain", "human", "money", "turns"}
RunStatus == {"none", "running", "completed", "escalated", "failed"}

TurnTypeOK ==
  /\ MeteredTypeOK
  /\ message \in [Usage -> Message]
  /\ \A k \in Usage :
       /\ orch[k].pc \in {"idle", "planning", "working", "answering", "audited",
                          "handed", "replied", "lost"}
       /\ orch[k].rag \in {"none", "failed", "empty", "found"}
       /\ orch[k].reply \in BOOLEAN /\ orch[k].reason \in Reason
       /\ \A r \in {run[k], orch[k].run} :
            r.status \in RunStatus /\ Len(r.trace) <= MaxPersisted
  /\ retrieved \subseteq Usage

TurnInit ==
  /\ MeteredInit
  /\ message \in {m \in [Usage -> UNION {Messages[k] : k \in Usage}] :
                    \A k \in Usage : m[k] \in Messages[k]}
  /\ orch = [k \in Usage |-> Idle]
  /\ run = [k \in Usage |-> NoRun]
  /\ retrieved = {}

-----------------------------------------------------------------------------
(* Variants of definitions below, each with one mistake, used to see that  *)
(* the properties notice it, stand before the definition they vary.        *)

(* The triggers that can fire, in the policy's order; the low-confidence   *)
(* and sentiment triggers always abstain.                                  *)
Fires(k, draftEscalates) ==
  [brain |-> draftEscalates,
   human |-> message[k].text /\ message[k].asksHuman,
   money |-> message[k].text /\ message[k].raisesMoney,
   turns |-> message[k].tooMany]

Trigger == <<"brain", "human", "money", "turns">>

(* EscalationPolicy.evaluate: the first to fire wins. *)
Signal(k, draftEscalates) ==
  LET fires == Fires(k, draftEscalates)
      first == {i \in 1..4 : /\ fires[Trigger[i]]
                             /\ \A j \in 1..(i - 1) : ~fires[Trigger[j]]}
  IN IF first = {} THEN "none" ELSE Trigger[CHOOSE i \in first : TRUE]

(* SafeDefaultPlanner.plan: media to its reader, text to retrieval. *)
Plan(k) ==
  LET wanted == [voice |-> "audio" \in message[k].kinds,
                 ocr |-> "image" \in message[k].kinds,
                 rag |-> message[k].text]
  IN SelectSeq(<<"voice", "ocr", "rag">>,
               LAMBDA w : w \in message[k].workers /\ wanted[w])

Priority(event) ==
  CASE event \in {"run.failed", "run.escalated"} -> 1000
    [] event = "manager.plan" -> 800
    [] event = "worker.failed" -> 700
    [] event = "worker.completed" -> 500
    [] event = "worker.started" -> 200
    [] event = "worker.skipped" -> 100
    [] OTHER -> 300

(* The first events of the run. *)
SelectFirst(events) ==
  SubSeq(events, 1, IF Len(events) > MaxPersisted THEN MaxPersisted ELSE Len(events))

(* Everything is kept. *)
SelectAll(events) == events

(* The events with a better claim to be kept: of higher priority, or as    *)
(* high and earlier.                                                       *)
Above(events, i) ==
  {j \in DOMAIN events :
     \/ Priority(events[j]) > Priority(events[i])
     \/ Priority(events[j]) = Priority(events[i]) /\ j < i}

Kept(events) ==
  {i \in DOMAIN events : Cardinality(Above(events, i)) < MaxPersisted}

(* select_events: the best by priority, the earlier of equals, in the      *)
(* order of time.                                                          *)
SelectEvents(events) == Picked(events, Kept(events))

Set(k, state) == orch' = [orch EXCEPT ![k] = state]

(* The metered brain is not asked about this message. *)
Unasked(k) ==
  /\ EndTurn(k)
  /\ UNCHANGED <<vars, text, asked, drafted, desk, crashes>>

(* The words are looked at once there is a draft. *)
PreflightNever(k) ==
  /\ orch[k].pc = "idle"
  /\ Beginning(k)
  /\ Set(k, [Idle EXCEPT !.pc = "planning"]) /\ UNCHANGED meteredVars
  /\ UNCHANGED <<message, run, retrieved>>

(* The policy on an empty draft: what a person must see is not answered    *)
(* first.  A bot without a model hands over too.                           *)
Preflight(k) ==
  LET signal == Signal(k, FALSE) IN
  /\ orch[k].pc = "idle"
  /\ Beginning(k)
  /\ \/ /\ signal # "none"
        /\ Set(k, [Idle EXCEPT !.pc = "handed", !.reason = signal])
        /\ Unasked(k)
     \/ /\ signal = "none"
        /\ Set(k, [Idle EXCEPT !.pc = "planning"])
        /\ UNCHANGED meteredVars
     \/ /\ signal = "none"   \* no model selected
        /\ Set(k, [Idle EXCEPT !.pc = "handed", !.reason = "brain"])
        /\ Unasked(k)
  /\ UNCHANGED <<message, run, retrieved>>

(* recorder.start and the manager's first visit. *)
StartRun(k) ==
  /\ orch[k].pc = "planning"
  /\ Set(k, [orch[k] EXCEPT !.pc = "working", !.pending = Plan(k),
                            !.events = <<"run.started", "manager.plan">>,
                            !.run.status = "running"])
  /\ UNCHANGED <<meteredVars, message, run, retrieved>>

After(k, rag, event) ==
  Set(k, [orch[k] EXCEPT !.pending = Tail(@), !.rag = rag,
                         !.events = @ \o <<"worker.started", event>>])

(* A worker node.  Retrieval asks a text model to rewrite the query and to *)
(* rerank what it found, if a provider is configured, and goes on without  *)
(* it; an embedding or a store that fails is no evidence.                  *)
RunWorker(k) ==
  /\ orch[k].pc = "working"
  /\ orch[k].pending # <<>>
  /\ IF Head(orch[k].pending) = "rag"
       THEN /\ \E rag \in {"failed", "empty", "found"} :
                 After(k, rag, IF rag = "failed" THEN "worker.failed"
                                                 ELSE "worker.completed")
            /\ retrieved' \in {retrieved, retrieved \cup {k}}
       ELSE After(k, orch[k].rag, "worker.skipped") /\ UNCHANGED retrieved
  /\ UNCHANGED <<meteredVars, message, run>>

EndGraph(k) ==
  /\ orch[k].pc = "working"
  /\ orch[k].pending = <<>>
  /\ Set(k, [orch[k] EXCEPT !.pc = "answering",
                            !.events = Append(@, "run.completed")])
  /\ UNCHANGED <<meteredVars, message, run, retrieved>>

(* recorder.finish *)
Finished(state, events, status) ==
  [state EXCEPT !.pc = "audited", !.pending = <<>>, !.events = <<>>,
                !.run = [status |-> status, trace |-> SelectEvents(events)]]

(* The auditor looks at the question only. *)
BlockedNever(k, reply) == FALSE

(* audit(): merchant facts without evidence are not sent. *)
Blocked(k, reply) ==
  /\ message[k].auditor
  /\ reply
  /\ orch[k].rag # "found"
  /\ message[k].text /\ message[k].business

(* The run is closed by what the model drafted. *)
AnsweredUnaudited(k, reply) ==
  Set(k, [Finished(orch[k], orch[k].events,
                   IF reply THEN "completed" ELSE "escalated")
            EXCEPT !.reply = reply /\ ~Blocked(k, reply)])

(* The responder has answered: the audit, and the end of the run. *)
Answered(k, reply) ==
  LET passed == reply /\ ~Blocked(k, reply)
      audit == IF ~message[k].auditor THEN <<>>
               ELSE IF Blocked(k, reply) THEN <<"auditor.blocked">>
               ELSE <<"auditor.approved">>
      events == orch[k].events \o audit
                  \o (IF passed THEN <<>> ELSE <<"run.escalated">>)
  IN Set(k, [Finished(orch[k], events, IF passed THEN "completed" ELSE "escalated")
               EXCEPT !.reply = passed])

(* The steps of the metered brain.  Media always needs a person.           *)
Respond(k) ==
  /\ orch[k].pc = "answering"
  /\ \/ Decline(k) /\ Answered(k, FALSE)
     \/ /\ message[k].text /\ message[k].kinds = {}
        /\ \/ (Hold(k) \/ Ask(k)) /\ UNCHANGED orch
           \/ CannotPay(k) /\ Answered(k, FALSE)
           \/ /\ Known(k) \/ Complete(k) \/ Fail(k)
              /\ \E reply \in BOOLEAN :
                   /\ k \notin drafted' => ~reply
                   /\ k \in drafted' \ drafted => reply
                   /\ Answered(k, reply)
  /\ UNCHANGED <<message, run, retrieved>>

(* Anything raised in the graph or the responder fails the run and asks    *)
(* for a person.  What the graph had seen is lost with it.  A call that    *)
(* was under way is left with its hold: nobody continues it.               *)
Raise(k) ==
  LET seen == IF orch[k].pc = "working" THEN <<>> ELSE orch[k].events IN
  /\ orch[k].pc \in {"working", "answering"}
  /\ Set(k, [Finished(orch[k], Append(seen, "run.failed"), "failed")
               EXCEPT !.reply = FALSE])
  /\ IF turn[k].pc = "ready" THEN Unasked(k) ELSE Crash(k)
  /\ UNCHANGED <<message, run, retrieved>>

(* An escalated draft is dropped. *)
DeliverReplies(k) ==
  /\ orch[k].pc = "audited"
  /\ Signal(k, ~orch[k].reply) = "none"
  /\ Set(k, [orch[k] EXCEPT !.pc = "replied"])
  /\ UNCHANGED <<meteredVars, message, run, retrieved>>

(* The policy on the brain's draft, then the dispatcher. *)
Deliver(k) ==
  LET signal == Signal(k, ~orch[k].reply) IN
  /\ orch[k].pc = "audited"
  /\ Set(k, [orch[k] EXCEPT !.pc = IF signal = "none" THEN "replied" ELSE "handed",
                            !.reason = signal])
  /\ UNCHANGED <<meteredVars, message, run, retrieved>>

(* The commit of the next message, or of the event. *)
CommitTurn(k) ==
  /\ orch[k].pc \in {"handed", "replied"}
  /\ run' = [run EXCEPT ![k] = orch[k].run]
  /\ Set(k, Idle)
  /\ UNCHANGED <<meteredVars, message, retrieved>>

(* The worker dies: its session is rolled back, nobody continues the event.*)
Die(k) ==
  /\ orch[k].pc \notin {"idle", "lost"}
  /\ crashes < MaxCrashes
  /\ crashes' = crashes + 1
  /\ GoTo(k, "lost")
  /\ Set(k, [Idle EXCEPT !.pc = "lost"])
  /\ UNCHANGED <<vars, text, asked, drafted, desk, message, run, retrieved>>

Advance(k) ==
  \/ Preflight(k)
  \/ StartRun(k)
  \/ RunWorker(k)
  \/ EndGraph(k)
  \/ Respond(k)
  \/ Deliver(k)
  \/ CommitTurn(k)

TurnNext ==
  \/ \E m \in Merchant, ref \in Reference, a \in Amount :
       TopUp(m, ref, a) /\ UNCHANGED <<turnVars, orchVars>>
  \/ \E k \in Usage :
       \/ Advance(k)
       \/ Raise(k)
       \/ Die(k)
       \/ (OpenReview(k) \/ CloseReview(k)) /\ UNCHANGED orchVars

(* A turn under way goes on: every call in it has a timeout. *)
TurnSpec ==
  /\ TurnInit /\ [][TurnNext]_allVars
  /\ \A k \in Usage : WF_allVars(orch[k].pc # "idle" /\ Advance(k))

-----------------------------------------------------------------------------
(* "Deterministic handoff rules ... skip generation": a customer who asks  *)
(* for a person, raises money or has had enough of the bot costs the       *)
(* merchant no model call and meets no model.                              *)
HandoffSkipsGeneration ==
  \A k \in Usage :
     Signal(k, FALSE) # "none" => asked[k] = 0 /\ k \notin retrieved

(* A merchant's facts are answered only with evidence in hand, through     *)
(* every way the retrieval, the model or the replayed text may turn out.   *)
FactsNeedEvidence ==
  \A k \in Usage :
     orch[k].pc = "replied" /\ message[k].auditor /\ message[k].business
       => orch[k].rag = "found"

(* A run says completed exactly when its reply goes to the dispatcher: the *)
(* policy's second look never takes back what the run has recorded.        *)
CompletedMeansReplied ==
  \A k \in Usage :
     orch[k].pc \in {"handed", "replied"} =>
       (orch[k].pc = "replied") = (orch[k].run.status = "completed")

(* What is committed of a run is its end and the reason for it: no row is  *)
(* left running, and the event that says why a person is needed survives   *)
(* the selection however many events there were.                           *)
TraceExplains ==
  \A k \in Usage :
     /\ run[k].status # "running"
     /\ run[k].status \in {"escalated", "failed"} =>
          \E i \in DOMAIN run[k].trace :
             run[k].trace[i] = (IF run[k].status = "failed" THEN "run.failed"
                                                            ELSE "run.escalated")

(* The customer is not left on read: a message taken up is answered or     *)
(* handed to a person, unless its worker dies.                             *)
NeverLeftOnRead ==
  \A k \in Usage :
     orch[k].pc = "planning" ~> orch[k].pc \in {"handed", "replied", "lost"}

=============================================================================
