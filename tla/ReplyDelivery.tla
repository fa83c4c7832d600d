---------------------------- MODULE ReplyDelivery ----------------------------
(***************************************************************************)
(* What the dispatcher promises about one reply of several pieces, with    *)
(* the rate limiter, the retries and the provider's answers hidden: the    *)
(* customer sees the pieces from the first on, none of them skipped; and   *)
(* the reply is recorded as sent only when every piece is there, as        *)
(* escalated only when none is.                                            *)
(***************************************************************************)
EXTENDS Naturals

CONSTANT Reply

VARIABLES
  total,      \* [Reply -> Nat], the pieces of the reply; never changes
  seen,       \* [Reply -> Nat], how many of them the customer has
  verdict     \* [Reply -> Verdict]

vars == <<total, seen, verdict>>

Verdict == {"open", "sent", "failed", "escalated"}

TypeOK ==
  /\ total \in [Reply -> Nat] /\ seen \in [Reply -> Nat]
  /\ verdict \in [Reply -> Verdict]

Init ==
  /\ total \in [Reply -> Nat]
  /\ seen = [r \in Reply |-> 0]
  /\ verdict = [r \in Reply |-> "open"]

Show(r) ==
  /\ verdict[r] = "open"
  /\ seen[r] < total[r]
  /\ seen' = [seen EXCEPT ![r] = @ + 1]
  /\ UNCHANGED <<total, verdict>>

(* The last piece may become visible as the reply is closed. *)
Close(r) ==
  /\ verdict[r] = "open"
  /\ \E last \in {0, 1}, v \in Verdict \ {"open"} :
       /\ seen[r] + last <= total[r]
       /\ v = "sent" => seen[r] + last = total[r]
       /\ v = "escalated" => seen[r] + last = 0
       /\ seen' = [seen EXCEPT ![r] = @ + last]
       /\ verdict' = [verdict EXCEPT ![r] = v]
  /\ UNCHANGED total

Next == \E r \in Reply : Show(r) \/ Close(r)

Spec == Init /\ [][Next]_vars

-----------------------------------------------------------------------------
(* A row that says sent tells the truth, and so does a handover: the       *)
(* customer has all of the reply, or nothing.                              *)
VerdictIsTrue ==
  \A r \in Reply : /\ seen[r] <= total[r]
                   /\ verdict[r] = "sent" => seen[r] = total[r]
                   /\ verdict[r] = "escalated" => seen[r] = 0

(* What is decided stays so, and nothing more is shown of it. *)
DecidedIsFinal ==
  [][\A r \in Reply : verdict[r] # "open"
       => verdict'[r] = verdict[r] /\ seen'[r] = seen[r]]_vars

=============================================================================
