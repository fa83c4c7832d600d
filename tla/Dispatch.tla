------------------------------ MODULE Dispatch ------------------------------
(***************************************************************************)
(* Outbound dispatch: workers and API requests that send replies over one  *)
(* channel connection (app/dispatch), the token bucket they share in       *)
(* Redis, and the provider's answers as the Telegram adapter reads them.   *)
(*                                                                         *)
(* Time is a tick of half a second, the first back-off.  Tokens are        *)
(* counted in grains, of which Token make a token, so that they stay       *)
(* integers.  A sender reads its own host's clock and sends the reading to *)
(* Redis, where it is used later, perhaps after a younger reading.         *)
(***************************************************************************)
EXTENDS Chunks

CONSTANTS
  Sender,         \* tasks and requests that send one reply each
  Drafts,         \* [Sender -> SUBSET Draft], the replies each may have
  Manifests,      \* the channels' capabilities: see Manifest
  Capacity,       \* grains in a full bucket
  Refill,         \* grains per tick
  Token,          \* grains per call to the provider
  Expiry,         \* ticks an untouched bucket is kept: EXPIRE
  MaxAttempts,    \* OUTBOUND_MAX_ATTEMPTS
  Ahead,          \* [Sender -> Nat], how far its host's clock is ahead
  MaxSkew,        \* the most of these
  MaxDelay,       \* ticks between reading the clock and its use in Redis
  MaxIdle,        \* bound: ticks that pass while nobody waits for one
  Never           \* no such time, no bucket

Draft == [escalate : BOOLEAN, attachments : BOOLEAN, text : Seq(Char),
          lastInbound : Nat \cup {Never}]

Manifest == [media : BOOLEAN, limit : Nat \ {0}, template : BOOLEAN,
             window : Nat \cup {Never}]

Bucket == [tokens : Int, ts : Nat, touched : Nat]

ASSUME DispatchAssumption ==
  /\ \A s \in Sender : Drafts[s] \subseteq Draft
  /\ Manifests \subseteq Manifest
  /\ Capacity \in Nat /\ Refill \in Nat /\ Token \in Nat \ {0}
  /\ MaxAttempts \in Nat \ {0}
  /\ MaxSkew \in Nat /\ MaxDelay \in Nat /\ MaxIdle \in Nat
  /\ Ahead \in [Sender -> 0..MaxSkew]
  /\ Never \notin Int \cup Bucket
  \* a key that has expired would have been full
  /\ Expiry \in Nat /\ Expiry * Refill >= Capacity + (MaxDelay + MaxSkew) * Refill

VARIABLES
  clock,      \* ticks
  caps,       \* the connection's manifest
  bucket,     \* the Redis hash, or Never
  sender,     \* [Sender -> SenderState]
  customer,   \* [Sender -> Seq(Nat)], the pieces the provider has delivered
  spends      \* Seq(Nat), when each token was given out

vars == <<clock, caps, bucket, sender, customer, spends>>

SenderState ==
  [pc : {"new", "ready", "timed", "asking", "asleep", "done", "stranded"},
   draft : UNION {Drafts[s] : s \in Sender},
   parts : Nat,                    \* how many pieces its text makes
   piece : Nat, attempt : Nat,     \* the loops' indices: from 1, from 0
   read : Nat,                     \* the clock as read
   wake : Nat,
   status : {"open", "sent", "failed", "escalated"}]

TypeOK ==
  /\ clock \in Nat
  /\ caps \in Manifests
  /\ bucket \in Bucket \cup {Never}
  /\ sender \in [Sender -> SenderState]
  /\ customer \in [Sender -> Seq(Nat)]
  /\ spends \in Seq(Nat)

Init ==
  /\ clock = 0
  /\ caps \in Manifests
  /\ bucket = Never
  /\ \E drafts \in {d \in [Sender -> UNION {Drafts[s] : s \in Sender}] :
                   \A s \in Sender : d[s] \in Drafts[s]} :
       sender = [s \in Sender |->
         [pc |-> "new", draft |-> drafts[s],
          parts |-> Len(Pieces(drafts[s].text, caps.limit)), piece |-> 1, attempt |-> 0,
          read |-> 0, wake |-> 0, status |-> "open"]]
  /\ customer = [s \in Sender |-> <<>>]
  /\ spends = <<>>

-----------------------------------------------------------------------------
(* window_is_closed *)
WindowIsClosed(lastInbound) ==
  /\ caps.window # Never
  /\ lastInbound = Never \/ clock - lastInbound > caps.window

(* build_send_policy, and the dispatcher's own check. *)
FreeformRefused(lastInbound) == WindowIsClosed(lastInbound) /\ caps.template

MustEscalate(draft) ==
  \/ draft.escalate
  \/ draft.attachments /\ ~caps.media
  \/ FreeformRefused(draft.lastInbound)

(* Locals that are out of use are reset. *)
Goto(s, pc) ==
  sender' = [sender EXCEPT ![s].pc = pc, ![s].read = 0, ![s].wake = 0]

(* Variants of definitions below, each with one mistake, used to see that  *)
(* the properties notice it, stand before the definition they vary.        *)

(* The dispatch ends: record_outbound writes the row, or the caller hands  *)
(* the conversation over.                                                  *)
Record(s, status) ==
  sender' = [sender EXCEPT ![s].pc = "done", ![s].read = 0, ![s].piece = 0,
                           ![s].attempt = 0, ![s].status = status]

(* An exception that nothing on the way catches ends the dispatch and the  *)
(* task or request with it: nothing is recorded.                           *)
Strand(s) ==
  sender' = [sender EXCEPT ![s].pc = "stranded", ![s].read = 0, ![s].piece = 0,
                           ![s].attempt = 0]

(* The checks that come before anything is sent, and the cut. *)
Begin(s) ==
  /\ sender[s].pc = "new"
  /\ IF MustEscalate(sender[s].draft) THEN Record(s, "escalated")
     ELSE IF sender[s].parts = 0 THEN Record(s, "sent")
     ELSE Goto(s, "ready")
  /\ UNCHANGED <<clock, caps, bucket, customer, spends>>

(* time.time(), on the sender's host. *)
ReadClock(s) ==
  /\ sender[s].pc = "ready"
  /\ sender' = [sender EXCEPT ![s].pc = "timed", ![s].read = clock + Ahead[s]]
  /\ UNCHANGED <<clock, caps, bucket, customer, spends>>

(* The key is gone when nothing has touched it for long enough. *)
Stored ==
  IF bucket = Never THEN Never
  ELSE IF clock - bucket.touched >= Expiry THEN Never ELSE bucket

(* A stale reading does not take back what a younger one has credited. *)
CreditedTokens(now) ==
  IF Stored = Never THEN Capacity
  ELSE Min({Capacity, Stored.tokens
                      + (IF now > Stored.ts THEN now - Stored.ts ELSE 0) * Refill})

Tokens(now) ==
  IF Stored = Never THEN Capacity
  ELSE Min({Capacity, Stored.tokens + (now - Stored.ts) * Refill})

(* One run of the Lua script.  A chunk that finds no token fails the reply *)
(* at once: the result is retryable, and nothing retries it.  When Redis   *)
(* is not reached or does not answer, eval raises, the script run or not.  *)
Acquire(s) ==
  LET now == sender[s].read
      allowed == Tokens(now) >= Token
  IN
  /\ sender[s].pc = "timed"
  /\ \/ /\ bucket' = [tokens |-> Tokens(now) - (IF allowed THEN Token ELSE 0),
                      ts |-> now, touched |-> clock]
        /\ spends' = IF allowed THEN Append(spends, clock) ELSE spends
        /\ \/ IF allowed THEN Goto(s, "asking") ELSE Record(s, "failed")
           \/ Strand(s)
     \/ Strand(s) /\ UNCHANGED <<bucket, spends>>
  /\ UNCHANGED <<clock, caps, customer>>

(* One sendMessage: what the provider did, and what the adapter made of    *)
(* its answer.  No error code means the call failed in transport; a code   *)
(* of 200 with a failure is an answer that was not JSON.                   *)
NoCode == 0
Answers ==
  [ok : {TRUE}, code : {NoCode}, delivered : {TRUE}]
    \cup [ok : {FALSE}, code : {NoCode, 200, 502}, delivered : BOOLEAN]
    \cup [ok : {FALSE}, code : {403, 429}, delivered : {FALSE}]

Retryable(answer) ==
  answer.code = NoCode \/ answer.code = 429 \/ answer.code >= 500

AfterOk(s) ==
  IF sender[s].piece = sender[s].parts THEN Record(s, "sent")
  ELSE sender' = [sender EXCEPT ![s].pc = "ready", ![s].piece = @ + 1,
                                ![s].attempt = 0]

(* A retry whatever the number of attempts. *)
RetriedForEver(s, answer) ==
  IF Retryable(answer)
    THEN sender' = [sender EXCEPT ![s].pc = "asleep", ![s].wake = clock + 1]
    ELSE Record(s, "failed")

(* The loop goes on with the next piece. *)
FailureSkipped(s, answer) == AfterOk(s)

(* Back off one tick, then two; after the last attempt the failure is      *)
(* final, whatever pieces were acknowledged before.                        *)
AfterFailure(s, answer) ==
  IF Retryable(answer) /\ sender[s].attempt + 1 < MaxAttempts
    THEN sender' = [sender EXCEPT ![s].pc = "asleep",
                                  ![s].wake = clock + 2^sender[s].attempt,
                                  ![s].attempt = @ + 1]
    ELSE Record(s, "failed")


Send(s) ==
  /\ sender[s].pc = "asking"
  /\ \E answer \in Answers :
       /\ customer' = [customer EXCEPT
            ![s] = IF answer.delivered THEN Append(@, sender[s].piece) ELSE @]
       /\ IF answer.ok THEN AfterOk(s) ELSE AfterFailure(s, answer)
  /\ UNCHANGED <<clock, caps, bucket, spends>>

Wake(s) ==
  /\ sender[s].pc = "asleep"
  /\ clock >= sender[s].wake
  /\ Goto(s, "ready")
  /\ UNCHANGED <<clock, caps, bucket, customer, spends>>

(* Time passes, within the round trip to Redis that a reading may take. *)
Tick ==
  /\ clock < MaxIdle \/ \E s \in Sender : sender[s].wake > clock
  /\ \A s \in Sender :
       sender[s].pc = "timed" => clock + Ahead[s] - sender[s].read < MaxDelay
  /\ clock' = clock + 1
  /\ UNCHANGED <<caps, bucket, sender, customer, spends>>

Step(s) == Begin(s) \/ ReadClock(s) \/ Acquire(s) \/ Send(s) \/ Wake(s)

Next == Tick \/ \E s \in Sender : Step(s)

Spec == Init /\ [][Next]_vars

(* A task or request that has begun goes on, and time passes for it. *)
FairSpec == Spec /\ WF_vars(Tick) /\ \A s \in Sender : WF_vars(Step(s))

-----------------------------------------------------------------------------
(* "A provider-side rate limit is not a soft failure": in any stretch of   *)
(* time, all senders together make no more calls than a full bucket and    *)
(* what flowed in meanwhile -- and in the time by which clocks differ and  *)
(* readings are late.                                                      *)
QuotaKept ==
  \A i, j \in DOMAIN spends : i <= j =>
     (j - i + 1) * Token
       <= Capacity + (spends[j] - spends[i] + MaxDelay + MaxSkew) * Refill

(* The piece the customer got last. *)
Seen(s) == IF customer[s] = <<>> THEN 0 ELSE Last(customer[s])

Total == [s \in Sender |-> sender[s].parts]
SeenAll == [s \in Sender |-> Seen(s)]
Verdicts == [s \in Sender |-> sender[s].status]

Delivery == INSTANCE ReplyDelivery
  WITH Reply <- Sender, total <- Total, seen <- SeenAll, verdict <- Verdicts

(* The customer reads the pieces in order and none is skipped; a row that  *)
(* says sent has all its pieces delivered, whatever was lost and repeated. *)
ImplementsReplyDelivery == Delivery!Spec

(* How often the customer got piece p. *)
Copies(s, p) == Cardinality({i \in DOMAIN customer[s] : customer[s][i] = p})

(* A lost answer makes the dispatcher repeat a piece, which the customer   *)
(* may see again, but never after a later one, and at most once for each   *)
(* attempt.                                                                *)
RepeatsAreAdjacent ==
  \A s \in Sender :
     /\ \A i, j \in DOMAIN customer[s] : i < j => customer[s][i] <= customer[s][j]
     /\ \A p \in 1..sender[s].parts : Copies(s, p) <= MaxAttempts


CONSTANT TextLength   \* bound: the texts on which the cut is checked
ASSUME TextLengthAssumption == TextLength \in Nat
BoundedTexts == Texts(TextLength)

(* Text as the composer counts it: inside the basic plane, and not led by  *)
(* blanks.  Of other texts the composer's marks need not be the cuts: it   *)
(* counts UTF-16 units, and from the first letter on.                      *)
Plain(t) == "emoji" \notin Range(t) /\ (t = <<>> \/ ~Blank(t[1]))

(* The cut of a reply keeps its text, and its words, for every text up to  *)
(* the bound and every limit up to the channel's ...                       *)
KeepText ==
  {m \in Manifests : \A n \in 1..m.limit, t \in BoundedTexts :
     CutKeepsText(t, n) /\ CutKeepsWords(t, n)}

CutsKeepText == caps \in KeepText

(* ... and for plain texts the composer marks it where it is. *)
MarkPlainCuts ==
  {m \in Manifests : \A n \in 1..m.limit, t \in BoundedTexts :
     Plain(t) => MarksAreCuts(t, n)}

PlainCutsAreMarked == caps \in MarkPlainCuts

=============================================================================
