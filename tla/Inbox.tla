-------------------------------- MODULE Inbox --------------------------------
(***************************************************************************)
(* The agents' side of a conversation (app/api/conversations.py) beside    *)
(* the workers of Pipeline.                                                *)
(*                                                                         *)
(* A call loads the row without a lock, decides on what it loaded, and     *)
(* commits later.  SQLAlchemy's UPDATE names only the columns whose new    *)
(* value differs from the loaded one; the rest keep whatever another       *)
(* transaction has committed meanwhile.  An UPDATE waits for a worker that *)
(* holds the row lock and then applies what it decided before.             *)
(***************************************************************************)
EXTENDS Pipeline

CONSTANTS
  Call,         \* API requests that can be in flight at once
  MaxCalls      \* bound: API requests in a behaviour

ASSUME InboxAssumption == MaxCalls \in Nat

VARIABLES
  call,         \* [Call -> CallState]
  calls         \* requests begun so far

inboxVars == <<vars, call, calls>>

Operation == {"takeover", "release", "resolve", "send"}

NoCall == [pc |-> "idle", op |-> "takeover", agent |-> Nobody,
           thread |-> Nobody, row |-> NewConversation]

CallState ==
  [pc : {"idle", "loaded", "recording"},
   op : Operation,
   agent : Agent \cup {Nobody},
   thread : Thread \cup {Nobody},
   row : ConversationRow]

InboxTypeOK ==
  /\ TypeOK
  /\ call \in [Call -> CallState]
  /\ calls \in 0..MaxCalls

InboxInit ==
  /\ Init
  /\ call = [k \in Call |-> NoCall]
  /\ calls = 0

-----------------------------------------------------------------------------
Unchanged == UNCHANGED <<status, queue, lock, stored, worker, replies, mishaps>>

Exists(t) == \E m \in stored : Envelopes[m[1]][m[2]] = t

(* 409: another agent holds it, or for a send, it is not a's to speak in. *)
Allowed(op, a, row) ==
  CASE op = "takeover" -> row.assignee \in {Nobody, a}
    [] op = "send"     -> row.handoff = "human" /\ row.assignee = a
    [] OTHER           -> TRUE

(* load_conversation and the checks on what it returned; a call that is    *)
(* refused changes nothing.                                                *)
Load(k, a, op, t) ==
  /\ call[k].pc = "idle"
  /\ calls < MaxCalls
  /\ Exists(t)
  /\ Allowed(op, a, conv[t])
  /\ call' = [call EXCEPT ![k] = [pc |-> "loaded", op |-> op, agent |-> a,
                                  thread |-> t, row |-> conv[t]]]
  /\ calls' = calls + 1
  /\ UNCHANGED <<conv, botRun>> /\ Unchanged

(* The columns each operation assigns. *)
Assigned(op, a, row) ==
  CASE op = "takeover" -> [handoff |-> "human", assignee |-> a, mute |-> "none"]
    [] op = "release"  -> [handoff |-> "bot", assignee |-> Nobody, mute |-> "active"]
    [] op = "resolve"  -> [row EXCEPT !.handoff = "resolved", !.assignee = Nobody]

(* A release sets a new instant, so its mute always differs. *)
Dirty(op, row, new) ==
  {c \in DOMAIN row : new[c] # row[c] \/ (c = "mute" /\ op = "release")}

(* takeover, release, resolve: the commit.  Nothing dirty, no UPDATE. *)
Write(k) ==
  LET t == call[k].thread
      new == Assigned(call[k].op, call[k].agent, call[k].row)
      dirty == Dirty(call[k].op, call[k].row, new)
  IN
  /\ call[k].pc = "loaded"
  /\ call[k].op # "send"
  /\ dirty # {} => lock[t] = Nobody
  /\ conv' = [conv EXCEPT ![t] = [c \in DOMAIN @ |-> IF c \in dirty THEN new[c] ELSE @[c]]]
  /\ call' = [call EXCEPT ![k] = NoCall]
  /\ UNCHANGED <<botRun, calls>> /\ Unchanged

(* send_message: 502 or 409 and nothing is said, or the provider is called *)
(* and the message has to be recorded -- unless Redis fails the dispatch,  *)
(* and nothing is.                                                         *)
Speak(k) ==
  /\ call[k].pc = "loaded"
  /\ call[k].op = "send"
  /\ \/ call' = [call EXCEPT ![k] = NoCall]
     \/ call' = [call EXCEPT ![k].pc = "recording"]
  /\ UNCHANGED <<conv, botRun, calls>> /\ Unchanged

(* record_outbound and commit: the agent's message, and last_message_at on *)
(* the row, which waits for the row lock.  The bot's run starts again.     *)
RecordSpoken(k) ==
  /\ call[k].pc = "recording"
  /\ lock[call[k].thread] = Nobody
  /\ botRun' = [botRun EXCEPT ![call[k].thread] = 0]
  /\ call' = [call EXCEPT ![k] = NoCall]
  /\ UNCHANGED <<conv, calls>> /\ Unchanged

(* The API process or its database connection goes away mid-call: nothing  *)
(* it had not committed remains, not even the record of words already sent.*)
Drop(k) ==
  /\ call[k].pc # "idle"
  /\ mishaps.killed < MaxKills
  /\ mishaps' = [mishaps EXCEPT !.killed = @ + 1]
  /\ call' = [call EXCEPT ![k] = NoCall]
  /\ UNCHANGED <<status, queue, conv, lock, stored, botRun, worker, replies, calls>>

Serve(k) == Write(k) \/ Speak(k) \/ RecordSpoken(k)

ApiStep ==
  \E k \in Call :
     \/ \E a \in Agent, op \in Operation, t \in Thread : Load(k, a, op, t)
     \/ Serve(k)
     \/ Drop(k)

InboxNext ==
  \/ WorkerStep /\ UNCHANGED <<call, calls>>
  \/ \E t \in Thread : MuteExpires(t) /\ UNCHANGED <<call, calls>>
  \/ ApiStep

InboxSpec == InboxInit /\ [][InboxNext]_inboxVars

(* Workers take what is on the queue and go on with what they hold; an API *)
(* call that is not blocked goes on.  Nobody has to make a call, and a     *)
(* mute need not pass.                                                     *)
InboxFairSpec ==
  /\ InboxSpec
  /\ WorkerFairness
  /\ \A k \in Call : WF_inboxVars(Serve(k))

-----------------------------------------------------------------------------
(* Whose a conversation is: an agent's, or nobody's; with people, or not. *)
SameHands(row, new) ==
  /\ new.assignee = row.assignee
  /\ (new.handoff = "human") = (row.handoff = "human")

(* Under an agent's name and not in its hands: every other agent's         *)
(* takeover is refused, and nobody may speak.                              *)
Misassigned(row) == row.assignee # Nobody /\ row.handoff # "human"

Stolen(row, new) ==
  {row.assignee, new.assignee} \subseteq Agent /\ new.assignee # row.assignee

(* k ends on a row that another call has put into other hands since k      *)
(* loaded it.                                                              *)
EndsStale(k, t) ==
  /\ call[k].pc = "loaded" /\ call'[k].pc = "idle"
  /\ call[k].thread = t
  /\ ~SameHands(call[k].row, conv[t])

(* Calls overlap, and two that do can leave a conversation resolved under  *)
(* somebody's name, or take it from under an agent.  Nothing else can:     *)
(* neither a worker between a call's load and its commit, escalating or    *)
(* reopening the row, nor what the UPDATE leaves out because it did not    *)
(* differ from the row as loaded.                                          *)
OnlyOverlapMisassigns ==
  [][\A t \in Thread :
       \/ Misassigned(conv'[t]) /\ ~Misassigned(conv[t])
       \/ Stolen(conv[t], conv'[t])
       => \E k \in Call : EndsStale(k, t)]_inboxVars

(* Silently stealing a conversation means two agents type into the same    *)
(* thread: an assignment ends before another begins.                       *)
NeverStolen == [][\A t \in Thread : ~Stolen(conv[t], conv'[t])]_inboxVars

=============================================================================
