---------------------------- MODULE MeteredBrain ----------------------------
(***************************************************************************)
(* The paid model call (app/llm/brain.py) on the wallet of Wallet: a hold  *)
(* is committed, then the provider is called, then the call is settled and *)
(* committed, and only then is there a draft to send.                      *)
(*                                                                         *)
(* A call is named by its event and update id.  One worker handles an      *)
(* event, and meets the same name again only when a payload repeats an     *)
(* update id; a worker that dies leaves the call as it stands, for the     *)
(* claim on the event keeps every other worker away.  Meanwhile operators  *)
(* reconcile calls that are still open, whether or not a worker is alive   *)
(* (app/llm/admin.py).                                                     *)
(***************************************************************************)
EXTENDS Wallet

CONSTANTS
  MaxEnvelopes,   \* messages of one event that carry the same update id
  MaxCrashes      \* bound: workers lost in the middle of a call

ASSUME MeteredAssumption ==
  /\ MaxEnvelopes \in Nat
  /\ MaxCrashes \in Nat

VARIABLES
  turn,       \* [Usage -> TurnState]
  text,       \* [Usage -> BOOLEAN], the row has a response text to send
  asked,      \* [Usage -> Nat], requests made to the provider
  drafted,    \* the calls whose text has been made a reply
  desk,       \* [Usage -> DeskState], an operator's reconciliation under way
  crashes     \* workers lost so far

turnVars == <<turn, text, asked, drafted, desk, crashes>>
meteredVars == <<vars, turnVars>>

(* "lost": the worker died, nobody continues the event. *)
TurnState ==
  [pc : {"ready", "holding", "waiting", "lost"}, left : 0..MaxEnvelopes]

(* What the operator's session read of the row's text before settling. *)
DeskState == {"empty", "text", "no text"}

MeteredTypeOK ==
  /\ TypeOK
  /\ turn \in [Usage -> TurnState]
  /\ text \in [Usage -> BOOLEAN]
  /\ asked \in [Usage -> Nat]
  /\ drafted \subseteq Usage
  /\ desk \in [Usage -> DeskState]
  /\ crashes \in 0..MaxCrashes

MeteredInit ==
  /\ Init
  /\ turn = [k \in Usage |-> [pc |-> "ready", left |-> MaxEnvelopes]]
  /\ text = [k \in Usage |-> FALSE]
  /\ asked = [k \in Usage |-> 0]
  /\ drafted = {}
  /\ desk = [k \in Usage |-> "empty"]
  /\ crashes = 0

-----------------------------------------------------------------------------
(* Variants of definitions below, each with one mistake, used to see that  *)
(* the properties notice it, stand before the definition they vary.        *)

Beginning(k) == turn[k].pc = "ready" /\ turn[k].left > 0

GoTo(k, pc) == turn' = [turn EXCEPT ![k].pc = pc]

(* respond() returns; the pipeline goes on to the event's next message. *)
EndTurn(k) == turn' = [turn EXCEPT ![k].pc = "ready", ![k].left = @ - 1]

(* _draft: the row's text, unless it is empty or asks for a person. *)
Draft(k) == drafted' \in {drafted, drafted \cup {k}}
Escalate == UNCHANGED drafted

(* Media, no enabled model, no provider, a prompt too long: a person.      *)
Decline(k) ==
  /\ Beginning(k)
  /\ EndTurn(k) /\ Escalate
  /\ UNCHANGED <<vars, text, asked, desk, crashes>>

(* The hold is committed before the provider is called. *)
Hold(k) ==
  /\ Beginning(k)
  /\ \E h \in Amount : Reserve(usage[k].merchant, k, h)
  /\ GoTo(k, "holding")
  /\ UNCHANGED <<text, asked, drafted, desk, crashes>>

(* Insufficient credits: rolled back, a person. *)
CannotPay(k) ==
  /\ Beginning(k)
  /\ usage[k].status = "absent"
  /\ \E h \in Amount : h > Available(usage[k].merchant)
  /\ EndTurn(k) /\ Escalate
  /\ UNCHANGED <<vars, text, asked, desk, crashes>>

(* A call that is not settled is made again. *)
KnownRetried(k) ==
  /\ Beginning(k)
  /\ usage[k].status # "absent"
  /\ IF usage[k].status = "settled"
       THEN EndTurn(k) /\ IF text[k] THEN Draft(k) ELSE Escalate
       ELSE GoTo(k, "holding") /\ Escalate
  /\ UNCHANGED <<vars, text, asked, desk, crashes>>

(* The call has a row already: a settled one's text is the answer, any     *)
(* other needs review "before another model call".                         *)
Known(k) ==
  /\ Beginning(k)
  /\ usage[k].status # "absent"
  /\ EndTurn(k)
  /\ IF usage[k].status = "settled" /\ text[k] THEN Draft(k) ELSE Escalate
  /\ UNCHANGED <<vars, text, asked, desk, crashes>>

Ask(k) ==
  /\ turn[k].pc = "holding"
  /\ asked' = [asked EXCEPT ![k] = @ + 1]
  /\ GoTo(k, "waiting")
  /\ UNCHANGED <<vars, text, drafted, desk, crashes>>

(* The provider's answer is used whatever became of the row. *)
AnswerAnyway(k) == Draft(k)

(* What settle() returned decides: only a settled row's text is used. *)
Answer(k) ==
  IF usage'[k].status = "settled" /\ text'[k] THEN Draft(k) ELSE Escalate

(* A completion arrives and is settled and committed; the row is locked    *)
(* from the look at its status to the commit.  A row closed meanwhile      *)
(* stays as it is.                                                         *)
Complete(k) ==
  /\ turn[k].pc = "waiting"
  /\ \/ /\ usage[k].status \in Closed
        /\ UNCHANGED <<vars, text>>
     \/ /\ \E c \in Amount :
             \/ Charge(k, c, FALSE)
             \/ Excessive(k, c, FALSE) /\ LeaveUncertain(k)
        /\ text' = [text EXCEPT ![k] = TRUE]
  /\ Answer(k)
  /\ EndTurn(k)
  /\ UNCHANGED <<asked, desk, crashes>>

(* The error is only logged. *)
FailUnsettled(k) ==
  /\ turn[k].pc = "waiting"
  /\ EndTurn(k) /\ Escalate
  /\ UNCHANGED <<vars, text, asked, desk, crashes>>

(* ProviderError, uncertain (it may have been charged) or not. *)
Fail(k) ==
  /\ turn[k].pc = "waiting"
  /\ \/ usage[k].status \in Closed /\ UNCHANGED vars
     \/ LeaveUncertain(k)
     \/ Release(k)
  /\ UNCHANGED text
  /\ Answer(k)
  /\ EndTurn(k)
  /\ UNCHANGED <<asked, desk, crashes>>

(* The worker dies, or an exception that is no ProviderError ends the task.*)
Crash(k) ==
  /\ turn[k].pc \in {"holding", "waiting"}
  /\ crashes < MaxCrashes
  /\ crashes' = crashes + 1
  /\ GoTo(k, "lost")
  /\ UNCHANGED <<vars, text, asked, drafted, desk>>

-----------------------------------------------------------------------------
(* reconcile reads the row without a lock and refuses a closed one. *)
OpenReview(k) ==
  /\ desk[k] = "empty"
  /\ usage[k].status \in Open
  /\ desk' = [desk EXCEPT ![k] = IF text[k] THEN "text" ELSE "no text"]
  /\ UNCHANGED <<vars, turn, text, asked, drafted, crashes>>

(* The operator's command trusts the status it read. *)
CloseReviewStale(k) ==
  LET m == usage[k].merchant IN
  /\ desk[k] # "empty"
  /\ reserved' = [reserved EXCEPT ![m] = @ - usage[k].held]
  /\ usage' = [usage EXCEPT ![k].status = "released"]
  /\ desk' = [desk EXCEPT ![k] = "empty"]
  /\ UNCHANGED <<balance, credit, turn, text, asked, drafted, crashes>>

(* settle() locks and looks again: closed by now, nothing changes; else    *)
(* the verified usage is charged, and the text is the one read before, or  *)
(* the hold is released.  Too large a charge is rolled back.               *)
CloseReview(k) ==
  /\ desk[k] # "empty"
  /\ \/ /\ \E c \in Amount : Charge(k, c, TRUE)
        /\ text' = [text EXCEPT ![k] = (desk[k] = "text")]
     \/ Release(k) /\ UNCHANGED text
     \/ /\ \/ usage[k].status \in Closed
           \/ \E c \in Amount : Excessive(k, c, TRUE)
        /\ UNCHANGED <<vars, text>>
  /\ desk' = [desk EXCEPT ![k] = "empty"]
  /\ UNCHANGED <<turn, asked, drafted, crashes>>

(* A call that is under way goes on. *)
Proceed(k) == Ask(k) \/ Complete(k) \/ Fail(k)

Begin(k) == Decline(k) \/ Hold(k) \/ CannotPay(k) \/ Known(k)

MeteredNext ==
  \/ \E m \in Merchant, ref \in Reference, a \in Amount :
       TopUp(m, ref, a) /\ UNCHANGED turnVars
  \/ \E k \in Usage :
       \/ Begin(k)
       \/ Proceed(k)
       \/ Crash(k)
       \/ OpenReview(k)
       \/ CloseReview(k)

(* A provider answers or the request times out: a call under way goes on.  *)
MeteredSpec ==
  /\ MeteredInit /\ [][MeteredNext]_meteredVars
  /\ \A k \in Usage : WF_meteredVars(Proceed(k))

-----------------------------------------------------------------------------
(* The provider charges for every request: none is made twice for one      *)
(* call, whatever a repeated update, an error or an operator has done to   *)
(* its row since.                                                          *)
AskedOnce == \A k \in Usage : asked[k] <= 1

(* A customer is sent a model's words only if the merchant paid for them:  *)
(* not when an operator released the call while its worker was waiting, nor *)
(* when the reported cost exceeded the hold.                               *)
DraftedIsCharged == \A k \in drafted : usage[k].status = "settled"

(* Composed with the brain and the operators the wallet still makes only   *)
(* its own transitions, so that everything proved of it holds here.        *)
ImplementsWallet == Spec

(* Every hold is decided -- charged, released, or set aside as uncertain -- *)
(* unless its worker is lost; it is not left to look like a call under way. *)
HoldIsDecided ==
  \A k \in Usage :
     usage[k].status = "reserved" ~> usage[k].status # "reserved" \/ turn[k].pc = "lost"

=============================================================================
