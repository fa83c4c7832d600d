----------------------------- MODULE TurnProofs -----------------------------
(***************************************************************************)
(* The metered brain and the turn around it, for any calls, amounts,       *)
(* messages and bounds.                                                    *)
(*                                                                         *)
(* The wallet's invariant comes from WalletProofs: every step of the brain *)
(* and of the operators is a step of the wallet or none.  On it stands     *)
(* MeteredInv: a call is asked about after its row is made and while its   *)
(* worker holds it, so once; a draft is made of a settled row, and settled *)
(* rows stay.  On that stands TurnInv, which follows a message from the    *)
(* policy to the dispatcher.                                               *)
(***************************************************************************)
EXTENDS Turn, WalletProofs

-----------------------------------------------------------------------------
(* The call k has been put in hand and not answered. *)
InHand(k) == turn[k].pc \in {"holding", "waiting"}

CallInv(k) ==
  /\ asked[k] <= 1
  /\ usage[k].status = "absent" => asked[k] = 0 /\ ~InHand(k)
  /\ turn[k].pc = "holding" => asked[k] = 0
  /\ InHand(k) => turn[k].left > 0

MeteredInv ==
  /\ WalletInv
  /\ MeteredTypeOK
  /\ \A k \in Usage : CallInv(k)
  /\ DraftedIsCharged

LEMMA InitMetered == MeteredInit => MeteredInv
<1>1. SUFFICES ASSUME MeteredInit PROVE MeteredInv
  OBVIOUS
<1>2. WalletInv
  BY <1>1, InitWallet DEF MeteredInit
<1>3. MeteredTypeOK
  BY <1>1, <1>2, MeteredAssumption DEF MeteredInit, MeteredTypeOK, TurnState, DeskState, WalletInv
<1>4. QED
  BY <1>1, <1>2, <1>3 DEF MeteredInit, MeteredInv, CallInv, InHand, DraftedIsCharged

(* No wallet step unmakes a row or unsettles it. *)
LEMMA RowsStay ==
  ASSUME TypeOK, [Next]_vars, NEW k \in Usage
  PROVE  /\ usage[k].status # "absent" => usage'[k].status # "absent"
         /\ usage[k].status = "settled" => usage'[k].status = "settled"
<1>1. CASE UNCHANGED vars
  BY <1>1 DEF vars
<1>2. ASSUME NEW m \in Merchant, NEW ref \in Reference, NEW a \in Amount, TopUp(m, ref, a)
      PROVE  UNCHANGED usage
  BY <1>2 DEF TopUp
<1>3. ASSUME NEW m \in Merchant, NEW j \in Usage, NEW h \in Amount, Reserve(m, j, h)
      PROVE  \/ usage'[k] = usage[k]
             \/ usage[k].status = "absent"
  BY <1>3 DEF Reserve, TypeOK
<1>4. ASSUME NEW j \in Usage, SettleCall(j) \/ Reconcile(j)
      PROVE  \/ usage'[k] = usage[k]
             \/ usage[k].status \in Open /\ usage'[k].status \in {"settled", "uncertain", "released"}
  <2>1. \/ \E c \in Amount, b \in BOOLEAN : Charge(j, c, b)
        \/ LeaveUncertain(j)
        \/ Release(j)
    BY <1>4 DEF SettleCall, Reconcile
  <2>2. QED
    BY <2>1 DEF Charge, LeaveUncertain, Release, TypeOK, UsageRow
<1>5. QED
  BY <1>1, <1>2, <1>3, <1>4 DEF Next, Open

(* A step that puts no call in hand and asks nobody. *)
LEMMA Calm ==
  ASSUME MeteredInv, [Next]_vars, MeteredTypeOK', UNCHANGED asked,
         \A k \in Usage : turn'[k] = turn[k] \/ turn'[k].pc \in {"ready", "lost"},
         \A k \in drafted' : k \in drafted \/ usage'[k].status = "settled"
  PROVE  MeteredInv'
<1>1. WalletInv'
  BY StepWallet DEF MeteredInv
<1>2. TypeOK /\ drafted \subseteq Usage
  BY DEF MeteredInv, MeteredTypeOK
<1>3. \A k \in Usage : CallInv(k)'
  BY <1>2, RowsStay DEF MeteredInv, CallInv, InHand
<1>4. DraftedIsCharged'
  BY <1>2, RowsStay DEF MeteredInv, DraftedIsCharged
<1>5. QED
  BY <1>1, <1>3, <1>4 DEF MeteredInv

(* The turn of a call ends. *)
LEMMA EndTurnType ==
  ASSUME MeteredInv, NEW k \in Usage, EndTurn(k), turn[k].left > 0
  PROVE  /\ turn' \in [Usage -> TurnState]
         /\ \A j \in Usage : turn'[j] = turn[j] \/ turn'[j].pc \in {"ready", "lost"}
<1>1. turn \in [Usage -> TurnState] /\ MaxEnvelopes \in Nat
  BY MeteredAssumption DEF MeteredInv, MeteredTypeOK
<1>2. turn[k].left - 1 \in 0..MaxEnvelopes
  BY <1>1 DEF TurnState
<1>3. turn' = [turn EXCEPT ![k] = [pc |-> "ready", left |-> turn[k].left - 1]]
  BY <1>1 DEF EndTurn, TurnState
<1>4. QED
  BY <1>1, <1>2, <1>3 DEF TurnState

(* A turn that ends without a change to the call's row. *)
LEMMA ShortTurn ==
  ASSUME MeteredInv, NEW k \in Usage, Decline(k) \/ CannotPay(k) \/ Known(k)
  PROVE  MeteredInv' /\ UNCHANGED vars
<1>1. /\ turn[k].left > 0 /\ EndTurn(k) /\ UNCHANGED <<vars, text, asked, desk, crashes>>
      /\ \A j \in drafted' : j \in drafted \/ (j = k /\ usage[k].status = "settled")
  BY DEF Decline, CannotPay, Known, Beginning, Escalate, Draft
<1>2. TypeOK'
  BY <1>1, StepWallet DEF MeteredInv, WalletInv
<1>3. MeteredTypeOK'
  BY <1>1, <1>2, EndTurnType DEF MeteredInv, MeteredTypeOK
<1>4. QED
  BY <1>1, <1>3, EndTurnType, Calm DEF vars

LEMMA HoldInv ==
  ASSUME MeteredInv, NEW k \in Usage, Hold(k)
  PROVE  MeteredInv' /\ [Next]_vars
<1>1. PICK h \in Amount : Reserve(usage[k].merchant, k, h)
  BY DEF Hold
<1>2. usage \in [Usage -> UsageRow] /\ usage[k].merchant \in Merchant /\ turn \in [Usage -> TurnState]
  BY DEF MeteredInv, WalletInv, TypeOK, UsageRow, MeteredTypeOK
<1>3. Next
  BY <1>1, <1>2 DEF Next
<1>4. WalletInv'
  BY <1>3, StepWallet DEF MeteredInv
<1>5. /\ turn' = [turn EXCEPT ![k].pc = "holding"] /\ turn[k].left > 0
      /\ UNCHANGED <<text, asked, drafted, desk, crashes>>
  BY DEF Hold, GoTo, Beginning
<1>6. MeteredTypeOK'
  BY <1>2, <1>4, <1>5 DEF MeteredInv, MeteredTypeOK, WalletInv, TurnState
<1>7. usage[k].status = "absent" /\ usage'[k].status = "reserved"
  BY <1>1, <1>2 DEF Reserve
<1>8. \A j \in Usage : CallInv(j)'
  <2>1. CallInv(k)'
    BY <1>2, <1>5, <1>7 DEF MeteredInv, CallInv, InHand, TurnState
  <2>2. ASSUME NEW j \in Usage \ {k} PROVE CallInv(j)'
    BY <1>1, <1>2, <1>5 DEF MeteredInv, CallInv, InHand, Reserve
  <2>3. QED
    BY <2>1, <2>2
<1>9. DraftedIsCharged'
  BY <1>3, <1>5, RowsStay DEF MeteredInv, MeteredTypeOK, DraftedIsCharged
<1>10. QED
  BY <1>3, <1>4, <1>6, <1>8, <1>9 DEF MeteredInv

LEMMA AskInv ==
  ASSUME MeteredInv, NEW k \in Usage, Ask(k)
  PROVE  MeteredInv' /\ UNCHANGED vars
<1>1. /\ turn[k].pc = "holding" /\ turn' = [turn EXCEPT ![k].pc = "waiting"]
      /\ asked' = [asked EXCEPT ![k] = @ + 1]
      /\ UNCHANGED <<vars, text, drafted, desk, crashes>>
      /\ turn \in [Usage -> TurnState] /\ asked \in [Usage -> Nat] /\ CallInv(k)
  BY DEF Ask, GoTo, MeteredInv, MeteredTypeOK
<1>2. WalletInv' /\ UNCHANGED usage
  BY <1>1, StepWallet DEF MeteredInv, vars
<1>3. MeteredTypeOK'
  BY <1>1, <1>2 DEF MeteredInv, MeteredTypeOK, WalletInv, TurnState
<1>4. asked'[k] = 1 /\ turn'[k].pc = "waiting" /\ turn'[k].left = turn[k].left
  BY <1>1 DEF CallInv, TurnState
<1>5. \A j \in Usage : CallInv(j)'
  <2>1. CallInv(k)'
    BY <1>1, <1>2, <1>4 DEF CallInv, InHand
  <2>2. ASSUME NEW j \in Usage \ {k} PROVE CallInv(j)'
    BY <1>1, <1>2 DEF MeteredInv, CallInv, InHand
  <2>3. QED
    BY <2>1, <2>2
<1>6. QED
  BY <1>1, <1>2, <1>3, <1>5 DEF MeteredInv, DraftedIsCharged

(* The provider has answered or failed, and the call is settled. *)
LEMMA SettledInv ==
  ASSUME MeteredInv, NEW k \in Usage, Complete(k) \/ Fail(k)
  PROVE  MeteredInv' /\ [Next]_vars
<1>1. /\ turn[k].pc = "waiting" /\ EndTurn(k) /\ Answer(k)
      /\ UNCHANGED <<asked, desk, crashes>>
      /\ text \in [Usage -> BOOLEAN]
      /\ text' = text \/ text' = [text EXCEPT ![k] = TRUE]
  BY DEF Complete, Fail, MeteredInv, MeteredTypeOK
<1>2. [Next]_vars
  <2>1. UNCHANGED vars \/ SettleCall(k)
    BY DEF Complete, Fail, SettleCall, vars
  <2>2. QED
    BY <2>1 DEF Next
<1>3. turn[k].left > 0
  BY <1>1 DEF MeteredInv, CallInv, InHand
<1>4. TypeOK'
  BY <1>2, StepWallet DEF MeteredInv, WalletInv
<1>5. \A j \in drafted' : j \in drafted \/ (j = k /\ usage'[j].status = "settled")
  BY <1>1 DEF Answer, Draft, Escalate
<1>6. MeteredTypeOK'
  BY <1>1, <1>3, <1>4, <1>5, EndTurnType DEF MeteredInv, MeteredTypeOK
<1>7. QED
  BY <1>1, <1>2, <1>3, <1>5, <1>6, EndTurnType, Calm

(* The worker of a call is gone: the metered part of Turn's Die, and of    *)
(* Crash.                                                                  *)
Abandoned(k) ==
  /\ crashes < MaxCrashes /\ crashes' = crashes + 1
  /\ GoTo(k, "lost")
  /\ UNCHANGED <<vars, text, asked, drafted, desk>>

LEMMA AbandonedInv ==
  ASSUME MeteredInv, NEW k \in Usage, Abandoned(k)
  PROVE  MeteredInv' /\ UNCHANGED vars
<1>1. turn \in [Usage -> TurnState] /\ crashes \in 0..MaxCrashes /\ MaxCrashes \in Nat
  BY MeteredAssumption DEF MeteredInv, MeteredTypeOK
<1>2. TypeOK'
  BY StepWallet DEF MeteredInv, WalletInv, Abandoned
<1>3. MeteredTypeOK'
  <2>1. crashes' \in 0..MaxCrashes
    BY <1>1 DEF Abandoned
  <2>2. QED
    BY <1>1, <1>2, <2>1 DEF MeteredInv, MeteredTypeOK, Abandoned, GoTo, TurnState
<1>4. \A j \in Usage : turn'[j] = turn[j] \/ turn'[j].pc = "lost"
  BY <1>1 DEF Abandoned, GoTo, TurnState
<1>5. QED
  BY <1>3, <1>4, Calm DEF Abandoned, vars

(* The operator at the desk. *)
LEMMA ReviewInv ==
  ASSUME MeteredInv, NEW k \in Usage, OpenReview(k) \/ CloseReview(k)
  PROVE  MeteredInv' /\ [Next]_vars
<1>1. /\ UNCHANGED <<turn, asked, drafted, crashes>>
      /\ desk' \in [Usage -> DeskState] /\ text' \in [Usage -> BOOLEAN]
  BY DEF OpenReview, CloseReview, MeteredInv, MeteredTypeOK, DeskState
<1>2. [Next]_vars
  <2>1. UNCHANGED vars \/ Reconcile(k)
    BY DEF OpenReview, CloseReview, Reconcile, vars
  <2>2. QED
    BY <2>1 DEF Next
<1>3. TypeOK'
  BY <1>2, StepWallet DEF MeteredInv, WalletInv
<1>4. MeteredTypeOK'
  BY <1>1, <1>3 DEF MeteredInv, MeteredTypeOK
<1>5. QED
  BY <1>1, <1>2, <1>4, Calm

LEMMA PaymentInv ==
  ASSUME MeteredInv, NEW m \in Merchant, NEW ref \in Reference, NEW a \in Amount,
         TopUp(m, ref, a), UNCHANGED turnVars
  PROVE  MeteredInv' /\ [Next]_vars
<1>1. Next
  BY DEF Next
<1>2. TypeOK'
  BY <1>1, StepWallet DEF MeteredInv, WalletInv
<1>3. MeteredTypeOK'
  BY <1>2 DEF MeteredInv, MeteredTypeOK, turnVars
<1>4. QED
  BY <1>1, <1>3, Calm DEF turnVars

LEMMA IdleInv ==
  ASSUME MeteredInv, UNCHANGED meteredVars
  PROVE  MeteredInv' /\ UNCHANGED vars
<1>1. UNCHANGED <<turn, text, asked, drafted, desk, crashes>> /\ UNCHANGED vars
  BY DEF meteredVars, turnVars
<1>2. TypeOK'
  BY <1>1, StepWallet DEF MeteredInv, WalletInv
<1>3. MeteredTypeOK'
  BY <1>1, <1>2 DEF MeteredInv, MeteredTypeOK
<1>4. QED
  BY <1>1, <1>3, Calm

LEMMA MeteredKeeps ==
  ASSUME MeteredInv, [MeteredNext]_meteredVars
  PROVE  MeteredInv' /\ [Next]_vars
<1>1. ASSUME NEW k \in Usage, Crash(k) PROVE Abandoned(k)
  BY <1>1 DEF Crash, Abandoned
<1>2. QED
  BY <1>1, IdleInv, PaymentInv, ShortTurn, HoldInv, AskInv, SettledInv, AbandonedInv, ReviewInv
     DEF MeteredNext, Begin, Proceed

THEOREM MeteredInvariant == MeteredSpec => []MeteredInv
BY InitMetered, MeteredKeeps, PTL DEF MeteredSpec

(* The provider is asked about a call once at most, whatever operators and *)
(* repeated updates do to its row.                                         *)
THEOREM AlwaysAskedOnce == MeteredSpec => []AskedOnce
<1>1. MeteredInv => AskedOnce
  BY DEF MeteredInv, CallInv, AskedOnce
<1>2. QED
  BY <1>1, MeteredInvariant, PTL

(* What a customer is sent of a model has been paid for. *)
THEOREM DraftedAlwaysCharged == MeteredSpec => []DraftedIsCharged
<1>1. MeteredInv => DraftedIsCharged
  BY DEF MeteredInv
<1>2. QED
  BY <1>1, MeteredInvariant, PTL

(* The brain and the operators make only the wallet's own transitions, so  *)
(* all that WalletProofs shows holds of the composition.                   *)
THEOREM MeteredImplementsWallet == MeteredSpec => ImplementsWallet
<1>1. MeteredInit => Init
  BY DEF MeteredInit
<1>2. MeteredInv /\ [MeteredNext]_meteredVars => MeteredInv' /\ [Next]_vars
  BY MeteredKeeps
<1>3. QED
  BY <1>1, <1>2, InitMetered, PTL DEF MeteredSpec, ImplementsWallet, Spec

(* No crash, repeated update, operator or payment brings the money out of  *)
(* order: nothing is reserved that is not there, the holds are the open    *)
(* calls', every charge is in the ledger, and what is closed stays closed. *)
THEOREM MeteredMoneyKept ==
  MeteredSpec => [](Solvent /\ HoldsAddUp /\ LedgerBalances) /\ ClosedForGood
BY MeteredImplementsWallet, AlwaysSolvent, HoldsAlwaysAddUp, LedgerAlwaysBalances,
   ClosedStaysClosed, PTL DEF ImplementsWallet

-----------------------------------------------------------------------------
(* The selection of events, for a log of any length. *)
Explaining == {"run.failed", "run.escalated"}

Event ==
  Explaining \cup {"run.started", "manager.plan", "run.completed", "worker.started",
                   "worker.completed", "worker.failed", "worker.skipped",
                   "auditor.blocked", "auditor.approved"}

LEMMA PriorityBounds ==
  ASSUME NEW event
  PROVE  /\ Priority(event) \in Nat /\ Priority(event) <= 1000
         /\ Priority(event) = 1000 <=> event \in Explaining
BY DEF Priority, Explaining

LEMMA AboveFinite ==
  ASSUME NEW events \in Seq(Event), NEW i \in DOMAIN events
  PROVE  /\ IsFiniteSet(Above(events, i)) /\ Cardinality(Above(events, i)) \in Nat
         /\ Above(events, i) \subseteq DOMAIN events
<1>1. /\ Len(events) \in Nat /\ DOMAIN events = 1..Len(events) /\ IsFiniteSet(DOMAIN events)
  <2>1. Len(events) \in Nat /\ DOMAIN events = 1..Len(events)
    OBVIOUS
  <2>2. QED
    BY <2>1, FS_Interval
<1>2. Above(events, i) \in SUBSET DOMAIN events
  BY DEF Above
<1>3. QED
  BY <1>1, <1>2, FS_Subset, FS_CardinalityType

(* What is above what is above i, is above i: the rank is strict. *)
LEMMA AboveGrows ==
  ASSUME NEW events \in Seq(Event), NEW i \in DOMAIN events, NEW j \in DOMAIN events,
         i \in Above(events, j)
  PROVE  Cardinality(Above(events, i)) < Cardinality(Above(events, j))
<1>1. DOMAIN events \subseteq Nat
  OBVIOUS
<1>2. Above(events, i) \in SUBSET Above(events, j)
  BY <1>1, PriorityBounds DEF Above
<1>3. i \notin Above(events, i)
  BY <1>1, PriorityBounds DEF Above
<1>4. QED
  BY <1>2, <1>3, AboveFinite, FS_Subset

(* Two events are never of one rank. *)
LEMMA RanksDiffer ==
  ASSUME NEW events \in Seq(Event), NEW i \in DOMAIN events, NEW j \in DOMAIN events,
         i # j
  PROVE  Cardinality(Above(events, i)) # Cardinality(Above(events, j))
<1>1. DOMAIN events \subseteq Nat
  OBVIOUS
<1>2. i \in Above(events, j) \/ j \in Above(events, i)
  BY <1>1, PriorityBounds DEF Above
<1>3. QED
  BY <1>2, AboveGrows, AboveFinite

(* No more is kept than the limit. *)
LEMMA KeptFew ==
  ASSUME NEW events \in Seq(Event)
  PROVE  /\ IsFiniteSet(Kept(events)) /\ Cardinality(Kept(events)) \in Nat
         /\ Cardinality(Kept(events)) <= MaxPersisted
         /\ Kept(events) \subseteq Nat
<1> DEFINE rank == [i \in Kept(events) |-> Cardinality(Above(events, i))]
           ranks == 0..(MaxPersisted - 1)
<1>1. Kept(events) \subseteq DOMAIN events /\ MaxPersisted \in Nat \ {0}
  BY TurnAssumption DEF Kept
<1>2. \A i \in Kept(events) : Cardinality(Above(events, i)) \in ranks
  <2>1. TAKE i \in Kept(events)
  <2>2. Cardinality(Above(events, i)) \in Nat /\ Cardinality(Above(events, i)) < MaxPersisted
    BY <1>1, AboveFinite DEF Kept
  <2>3. QED
    BY <1>1, <2>2
<1>3. \A i, j \in Kept(events) :
         Cardinality(Above(events, i)) = Cardinality(Above(events, j)) => i = j
  BY <1>1, RanksDiffer
<1>4. IsFiniteSet(ranks) /\ Cardinality(ranks) = MaxPersisted
  BY <1>1, FS_Interval
<1> HIDE DEF ranks
<1>5. rank \in Injection(Kept(events), ranks)
  BY <1>2, <1>3 DEF Injection, IsInjective
<1>6. IsFiniteSet(Kept(events)) /\ Cardinality(Kept(events)) <= MaxPersisted
  BY <1>4, <1>5, FS_Injection
<1>7. Kept(events) \subseteq Nat
  BY <1>1
<1>8. QED
  BY <1>6, <1>7, FS_CardinalityType

(* An element of a set of numbers is found at the place it has in it. *)
LEMMA NthHits ==
  ASSUME NEW S, S \subseteq Nat, IsFiniteSet(S), NEW i \in S
  PROVE  LET n == Cardinality({j \in S : j <= i}) IN
         n \in 1..Cardinality(S) /\ Nth(S, n) = i
<1> DEFINE upTo(h) == {j \in S : j <= h}
           n == Cardinality(upTo(i))
<1>1. \A h \in S : /\ IsFiniteSet(upTo(h)) /\ Cardinality(upTo(h)) \in Nat
                   /\ Cardinality(upTo(h)) <= Cardinality(S)
  BY FS_Subset, FS_CardinalityType
<1>2. ASSUME NEW g \in S, NEW h \in S, g < h
      PROVE  Cardinality(upTo(g)) < Cardinality(upTo(h))
  <2>1. upTo(g) \in SUBSET upTo(h) /\ h \in upTo(h) /\ h \notin upTo(g)
    <3>1. g \in Nat /\ h \in Nat /\ \A j \in S : j \in Nat
      OBVIOUS
    <3>2. \A j \in S : j <= g => j <= h
      BY <1>2, <3>1
    <3>3. h <= h /\ ~(h <= g)
      BY <1>2, <3>1
    <3>4. QED
      BY <3>2, <3>3
  <2> HIDE DEF upTo
  <2>2. QED
    BY <1>1, <2>1, FS_Subset
<1>3. n # 0
  <2>1. i \in upTo(i)
    OBVIOUS
  <2> HIDE DEF upTo
  <2>2. QED
    BY <1>1, <2>1, FS_EmptySet
<1>4. Cardinality(S) \in Nat
  BY FS_CardinalityType
<1>5. n \in 1..Cardinality(S)
  <2> HIDE DEF upTo
  <2>1. QED
    BY <1>1, <1>3, <1>4
<1>6. ASSUME NEW h \in S, Cardinality(upTo(h)) = n PROVE h = i
  <2> HIDE DEF upTo
  <2>1. ~(h < i) /\ ~(i < h)
    BY <1>1, <1>2, <1>6
  <2>2. QED
    BY <2>1
<1>7. Nth(S, n) = i
  BY <1>6 DEF Nth
<1>8. QED
  BY <1>5, <1>7

(* select_events keeps no more than the limit, and each event it keeps is  *)
(* in what it returns.                                                     *)
LEMMA Selected ==
  ASSUME NEW events \in Seq(Event)
  PROVE  /\ Len(SelectEvents(events)) <= MaxPersisted
         /\ \A i \in Kept(events) :
               \E n \in DOMAIN SelectEvents(events) : SelectEvents(events)[n] = events[i]
<1> DEFINE c == Cardinality(Kept(events))
           selected == [n \in 1..c |-> events[Nth(Kept(events), n)]]
<1>1. c \in Nat /\ c <= MaxPersisted /\ IsFiniteSet(Kept(events)) /\ Kept(events) \subseteq Nat
  BY KeptFew
<1>2. SelectEvents(events) = selected
  BY DEF SelectEvents, Picked
<1>3. Len(selected) = c
  BY <1>1
<1>4. \A i \in Kept(events) : \E n \in 1..c : Nth(Kept(events), n) = i
  BY <1>1, NthHits
<1>5. QED
  BY <1>1, <1>2, <1>3, <1>4

(* The one event that says why a person is needed is kept, however many    *)
(* others there are.                                                       *)
LEMMA ReasonKept ==
  ASSUME NEW events \in Seq(Event), NEW i \in DOMAIN events, events[i] \in Explaining,
         \A j \in DOMAIN events : events[j] \in Explaining => j = i
  PROVE  \E n \in DOMAIN SelectEvents(events) : SelectEvents(events)[n] = events[i]
<1>1. \A j \in DOMAIN events : j # i => Priority(events[j]) < Priority(events[i])
  BY PriorityBounds
<1>2. Above(events, i) = {}
  BY <1>1, PriorityBounds DEF Above
<1>3. i \in Kept(events)
  <2>1. Cardinality(Above(events, i)) = 0 /\ 0 < MaxPersisted
    BY <1>2, FS_EmptySet, TurnAssumption
  <2>2. QED
    BY <2>1 DEF Kept
<1>4. QED
  BY <1>3, Selected

-----------------------------------------------------------------------------
(* The turn around the call. *)
Plain(events) ==
  events \in Seq(Event) /\ \A j \in DOMAIN events : events[j] \notin Explaining

IsRun(r) ==
  /\ DOMAIN r = {"status", "trace"}
  /\ r.status \in RunStatus /\ Len(r.trace) <= MaxPersisted

(* The run has ended, and says why if it needs a person. *)
Explains(r) ==
  /\ r.status # "running"
  /\ r.status \in {"escalated", "failed"} =>
       \E i \in DOMAIN r.trace :
          r.trace[i] = (IF r.status = "failed" THEN "run.failed" ELSE "run.escalated")

OrchFields == {"pc", "pending", "rag", "events", "reply", "reason", "run"}

IsOrch(o) ==
  /\ DOMAIN o = OrchFields
  /\ o.pc \in {"idle", "planning", "working", "answering", "audited", "handed",
               "replied", "lost"}
  /\ o.rag \in {"none", "failed", "empty", "found"}
  /\ o.reply \in BOOLEAN /\ o.reason \in Reason
  /\ IsRun(o.run) /\ Plain(o.events)

Facts(k) == message[k].auditor /\ message[k].business

(* What is known of a message at each point of its turn. *)
PhaseInv(k) ==
  /\ IsOrch(orch[k]) /\ IsRun(run[k]) /\ Explains(run[k])
  /\ orch[k].pc \in {"planning", "working", "answering", "audited"} =>
        Signal(k, FALSE) = "none"
  /\ asked[k] > 0 \/ k \in retrieved => Signal(k, FALSE) = "none"
  /\ orch[k].pc \in {"planning", "working"} => Beginning(k)
  /\ orch[k].pc = "answering" => Beginning(k) \/ InHand(k)
  /\ orch[k].pc \in {"audited", "handed", "replied"} => Explains(orch[k].run)
  /\ orch[k].pc = "audited" =>
        /\ orch[k].reply <=> orch[k].run.status = "completed"
        /\ orch[k].reply /\ Facts(k) => orch[k].rag = "found"
  /\ orch[k].pc = "handed" => orch[k].run.status # "completed"
  /\ orch[k].pc = "replied" =>
        /\ orch[k].run.status = "completed"
        /\ Facts(k) => orch[k].rag = "found"

TurnInv ==
  /\ MeteredInv
  /\ message \in [Usage -> Message]
  /\ orch = [k \in Usage |-> orch[k]] /\ run = [k \in Usage |-> run[k]]
  /\ retrieved \subseteq Usage
  /\ \A k \in Usage : PhaseInv(k)

LEMMA SignalType ==
  ASSUME NEW k \in Usage, NEW d \in BOOLEAN
  PROVE  Signal(k, d) \in Reason /\ Signal(k, TRUE) # "none"
<1>1. \A i \in 1..4 : Trigger[i] \in Reason \ {"none"}
  BY DEF Trigger, Reason
<1>2. Signal(k, d) \in Reason
  <2> DEFINE first == {i \in 1..4 : /\ Fires(k, d)[Trigger[i]]
                                    /\ \A j \in 1..(i - 1) : ~Fires(k, d)[Trigger[j]]}
  <2>1. Signal(k, d) = IF first = {} THEN "none" ELSE Trigger[CHOOSE i \in first : TRUE]
    BY DEF Signal
  <2>2. first # {} => (CHOOSE i \in first : TRUE) \in 1..4
    OBVIOUS
  <2> HIDE DEF first
  <2>3. QED
    BY <1>1, <2>1, <2>2 DEF Reason
<1>3. Signal(k, TRUE) # "none"
  <2> DEFINE first == {i \in 1..4 : /\ Fires(k, TRUE)[Trigger[i]]
                                    /\ \A j \in 1..(i - 1) : ~Fires(k, TRUE)[Trigger[j]]}
  <2>1. Signal(k, TRUE) = IF first = {} THEN "none" ELSE Trigger[CHOOSE i \in first : TRUE]
    BY DEF Signal
  <2>2. 1 \in first
    BY DEF Fires, Trigger
  <2>3. (CHOOSE i \in first : TRUE) \in 1..4
    BY <2>2
  <2> HIDE DEF first
  <2>4. QED
    BY <1>1, <2>1, <2>2, <2>3
<1>4. QED
  BY <1>2, <1>3

LEMMA InitTurn == TurnInit => TurnInv
<1>1. SUFFICES ASSUME TurnInit PROVE TurnInv
  OBVIOUS
<1>2. MeteredInv
  BY <1>1, InitMetered DEF TurnInit
<1>3. message \in [Usage -> Message]
  BY <1>1, TurnAssumption DEF TurnInit
<1>4. IsRun(NoRun) /\ Explains(NoRun)
  BY TurnAssumption DEF IsRun, Explains, NoRun, RunStatus
<1>5. IsOrch(Idle)
  BY <1>4 DEF IsOrch, OrchFields, Idle, Plain, Reason
<1>6. \A k \in Usage : PhaseInv(k)
  <2>1. TAKE k \in Usage
  <2>2. orch[k] = Idle /\ run[k] = NoRun /\ asked[k] = 0 /\ retrieved = {}
    BY <1>1 DEF TurnInit, MeteredInit
  <2>3. Idle.pc = "idle"
    BY DEF Idle
  <2>4. QED
    BY <1>4, <1>5, <2>2, <2>3 DEF PhaseInv
<1>7. QED
  BY <1>1, <1>2, <1>3, <1>6 DEF TurnInv, TurnInit

(* A step in the turn of one message. *)
LEMMA OneTurn ==
  ASSUME TurnInv, NEW k \in Usage, MeteredInv', PhaseInv(k)', UNCHANGED message,
         \/ UNCHANGED orch
         \/ \E state : orch' = [orch EXCEPT ![k] = state],
         \/ UNCHANGED run
         \/ \E r : run' = [run EXCEPT ![k] = r],
         retrieved' \in {retrieved, retrieved \cup {k}},
         \A j \in Usage \ {k} : asked'[j] = asked[j] /\ turn'[j] = turn[j]
  PROVE  TurnInv'
<1>1. /\ orch' = [j \in Usage |-> orch'[j]] /\ run' = [j \in Usage |-> run'[j]]
      /\ \A j \in Usage \ {k} : orch'[j] = orch[j] /\ run'[j] = run[j]
  BY DEF TurnInv
<1>2. ASSUME NEW j \in Usage \ {k} PROVE PhaseInv(j)'
  <2>1. Signal(j, FALSE)' = Signal(j, FALSE)
    BY DEF Signal, Fires
  <2>2. Facts(j)' = Facts(j) /\ Beginning(j)' = Beginning(j) /\ InHand(j)' = InHand(j)
    BY DEF Facts, Beginning, InHand
  <2>3. PhaseInv(j)
    BY DEF TurnInv
  <2>4. QED
    BY <1>1, <2>1, <2>2, <2>3 DEF PhaseInv
<1>3. QED
  BY <1>1, <1>2 DEF TurnInv

(* The one who ends a turn or loses it touches no other. *)
LEMMA OtherTurns ==
  ASSUME TurnInv, NEW k \in Usage,
         \/ EndTurn(k) \/ turn' = turn
         \/ \E pc \in {"holding", "waiting", "lost"} : GoTo(k, pc)
  PROVE  \A j \in Usage \ {k} : turn'[j] = turn[j]
BY DEF TurnInv, MeteredInv, MeteredTypeOK, EndTurn, GoTo

(* The state a message's turn is set to. *)
LEMMA SetIt ==
  ASSUME TurnInv, NEW k \in Usage, NEW state, Set(k, state)
  PROVE  orch'[k] = state /\ \E s : orch' = [orch EXCEPT ![k] = s]
BY DEF TurnInv, Set

(* An event list that gives no reason. *)
LEMMA PairIn ==
  ASSUME NEW S, NEW a \in S, NEW b \in S
  PROVE  /\ <<a, b>> \in Seq(S) /\ DOMAIN <<a, b>> = 1..2
         /\ <<a, b>>[1] = a /\ <<a, b>>[2] = b
         /\ <<a>> \in Seq(S) /\ DOMAIN <<a>> = 1..1 /\ <<a>>[1] = a
OBVIOUS

LEMMA PlainPair ==
  ASSUME NEW a, a \in Event, a \notin Explaining, NEW b, b \in Event, b \notin Explaining
  PROVE  Plain(<<a, b>>) /\ Plain(<<a>>)
<1>1. /\ <<a, b>> \in Seq(Event) /\ DOMAIN <<a, b>> = 1..2
      /\ <<a, b>>[1] = a /\ <<a, b>>[2] = b
      /\ <<a>> \in Seq(Event) /\ DOMAIN <<a>> = 1..1 /\ <<a>>[1] = a
  BY PairIn, Zenon
<1>2. \A j \in 1..2 : j = 1 \/ j = 2
  OBVIOUS
<1>3. \A j \in 1..1 : j = 1
  OBVIOUS
<1>4. QED
  BY <1>1, <1>2, <1>3, Zenon DEF Plain

LEMMA PlainGrows ==
  ASSUME NEW events, Plain(events), NEW more, Plain(more)
  PROVE  Plain(events \o more)
BY DEF Plain

LEMMA PreflightInv ==
  ASSUME TurnInv, NEW k \in Usage, Preflight(k)
  PROVE  TurnInv' /\ [MeteredNext]_meteredVars
<1>1. /\ Beginning(k) /\ UNCHANGED <<message, run, retrieved>> /\ PhaseInv(k)
      /\ turn \in [Usage -> TurnState] /\ MeteredInv
  BY DEF Preflight, TurnInv, MeteredInv, MeteredTypeOK
<1>2. IsRun(NoRun) /\ Explains(NoRun) /\ NoRun.status = "none"
  BY TurnAssumption DEF IsRun, Explains, NoRun, RunStatus
<1>3. Signal(k, FALSE)' = Signal(k, FALSE) /\ Signal(k, FALSE) \in Reason
  <2>1. Signal(k, FALSE)' = Signal(k, FALSE)
    BY <1>1 DEF Signal, Fires
  <2>2. FALSE \in BOOLEAN
    OBVIOUS
  <2>3. QED
    BY <2>1, <2>2, SignalType
<1>4. CASE \E reason \in Reason :
              Set(k, [Idle EXCEPT !.pc = "handed", !.reason = reason]) /\ Unasked(k)
  <2>1. PICK reason \in Reason : Set(k, [Idle EXCEPT !.pc = "handed", !.reason = reason])
    BY <1>4
  <2> DEFINE state == [Idle EXCEPT !.pc = "handed", !.reason = reason]
  <2>2. IsOrch(state) /\ state.pc = "handed" /\ state.run = NoRun
    <3>1. Plain(<<>>)
      BY DEF Plain
    <3>2. QED
      BY <1>2, <3>1 DEF IsOrch, Idle, OrchFields
  <2>3. orch'[k] = state /\ \E s : orch' = [orch EXCEPT ![k] = s]
    BY <2>1, SetIt
  <2>4. Decline(k)
    BY <1>1, <1>4 DEF Unasked, Decline, Escalate
  <2>5. MeteredNext
    BY <2>4 DEF MeteredNext, Begin
  <2>6. MeteredInv' /\ EndTurn(k) /\ UNCHANGED asked
    BY <1>1, <2>4, <2>5, MeteredKeeps DEF Decline
  <2> HIDE DEF state
  <2>7. PhaseInv(k)'
    BY <1>1, <1>2, <1>3, <2>2, <2>3, <2>6 DEF PhaseInv
  <2>8. QED
    BY <1>1, <2>3, <2>5, <2>6, <2>7, OtherTurns, OneTurn
<1>5. CASE /\ Signal(k, FALSE) = "none"
           /\ Set(k, [Idle EXCEPT !.pc = "planning"])
           /\ UNCHANGED meteredVars
  <2> DEFINE state == [Idle EXCEPT !.pc = "planning"]
  <2>1. IsOrch(state) /\ state.pc = "planning"
    <3>1. Plain(<<>>) /\ "none" \in Reason
      BY DEF Plain, Reason
    <3>2. QED
      BY <1>2, <3>1 DEF IsOrch, Idle, OrchFields
  <2>2. orch'[k] = state /\ \E s : orch' = [orch EXCEPT ![k] = s]
    BY <1>5, SetIt
  <2>3. MeteredInv' /\ UNCHANGED <<turn, asked>>
    BY <1>1, <1>5, IdleInv DEF meteredVars, turnVars
  <2> HIDE DEF state
  <2>4. PhaseInv(k)'
    BY <1>1, <1>3, <1>5, <2>1, <2>2, <2>3 DEF PhaseInv, Beginning
  <2>5. QED
    BY <1>1, <1>5, <2>2, <2>3, <2>4, OneTurn
<1>6. "brain" \in Reason
  BY DEF Reason
<1>7. QED
  BY <1>3, <1>4, <1>5, <1>6 DEF Preflight

(* A step inside the graph: the words, the row and the wallet are not      *)
(* touched.                                                                *)
LEMMA GraphStep ==
  ASSUME TurnInv, NEW k \in Usage, NEW state, Set(k, state),
         UNCHANGED <<meteredVars, message, run>>,
         retrieved' \in {retrieved, retrieved \cup {k}},
         orch[k].pc \in {"planning", "working"},
         state.pc \in {"working", "answering"}, IsOrch(state)
  PROVE  TurnInv'
<1>1. PhaseInv(k) /\ MeteredInv' /\ UNCHANGED <<turn, asked>>
  BY IdleInv DEF TurnInv, meteredVars, turnVars
<1>2. orch'[k] = state /\ \E s : orch' = [orch EXCEPT ![k] = s]
  BY SetIt
<1>3. Signal(k, FALSE)' = Signal(k, FALSE) /\ Signal(k, FALSE) = "none"
  BY <1>1 DEF Signal, Fires, PhaseInv
<1>4. PhaseInv(k)'
  BY <1>1, <1>2, <1>3 DEF PhaseInv, Beginning
<1>5. QED
  BY <1>1, <1>2, <1>4, OneTurn

LEMMA StartRunInv ==
  ASSUME TurnInv, NEW k \in Usage, StartRun(k)
  PROVE  TurnInv'
<1> DEFINE o == orch[k]
           started == [o.run EXCEPT !.status = "running"]
           new == [o EXCEPT !.pc = "working", !.pending = Plan(k),
                            !.events = <<"run.started", "manager.plan">>,
                            !.run = started]
<1>1. IsOrch(o) /\ o.pc = "planning" /\ UNCHANGED <<meteredVars, message, run, retrieved>>
  BY DEF StartRun, TurnInv, PhaseInv
<1>2. IsRun(started)
  BY <1>1 DEF IsOrch, IsRun, RunStatus
<1>3. Plain(<<"run.started", "manager.plan">>)
  <2>1. \A e \in {"run.started", "manager.plan"} : e \in Event /\ e \notin Explaining
    BY DEF Event, Explaining
  <2>2. QED
    BY <2>1, PlainPair
<1>4. Set(k, new)
  BY <1>1 DEF StartRun, Set, IsOrch
<1> HIDE DEF started
<1>5. IsOrch(new) /\ new.pc = "working"
  BY <1>1, <1>2, <1>3 DEF IsOrch, OrchFields
<1> HIDE DEF new
<1>6. QED
  BY <1>1, <1>4, <1>5, GraphStep

LEMMA RunWorkerInv ==
  ASSUME TurnInv, NEW k \in Usage, RunWorker(k)
  PROVE  TurnInv'
<1> DEFINE o == orch[k]
<1>1. /\ IsOrch(o) /\ o.pc = "working" /\ UNCHANGED <<meteredVars, message, run>>
      /\ retrieved' \in {retrieved, retrieved \cup {k}}
  BY DEF RunWorker, TurnInv, PhaseInv
<1>2. PICK rag \in {"none", "failed", "empty", "found"},
           event \in {"worker.failed", "worker.completed", "worker.skipped"} :
         After(k, rag, event)
  BY <1>1 DEF RunWorker, IsOrch
<1> DEFINE log == o.events \o <<"worker.started", event>>
           new == [o EXCEPT !.pending = Tail(o.pending), !.rag = rag, !.events = log]
<1>3. Set(k, new)
  BY <1>1, <1>2 DEF After, Set, IsOrch
<1>4. Plain(log)
  <2>1. Plain(<<"worker.started", event>>)
    <3>1. \A e \in {"worker.started", event} : e \in Event /\ e \notin Explaining
      BY DEF Event, Explaining
    <3>2. QED
      BY <3>1, PlainPair
  <2>2. QED
    BY <1>1, <2>1, PlainGrows DEF IsOrch
<1> HIDE DEF log
<1>5. IsOrch(new) /\ new.pc = "working"
  BY <1>1, <1>4 DEF IsOrch, OrchFields
<1> HIDE DEF new
<1>6. QED
  BY <1>1, <1>3, <1>5, GraphStep

LEMMA EndGraphInv ==
  ASSUME TurnInv, NEW k \in Usage, EndGraph(k)
  PROVE  TurnInv'
<1> DEFINE o == orch[k]
           log == Append(o.events, "run.completed")
           new == [o EXCEPT !.pc = "answering", !.events = log]
<1>1. IsOrch(o) /\ o.pc = "working" /\ UNCHANGED <<meteredVars, message, run, retrieved>>
  BY DEF EndGraph, TurnInv, PhaseInv
<1>2. Set(k, new)
  BY <1>1 DEF EndGraph, Set, IsOrch
<1>3. Plain(log)
  <2>1. Plain(<<"run.completed">>)
    <3>1. "run.completed" \in Event /\ "run.completed" \notin Explaining
      BY DEF Event, Explaining
    <3>2. QED
      BY <3>1, PlainPair
  <2>2. log = o.events \o <<"run.completed">>
    BY <1>1 DEF IsOrch, Plain
  <2> HIDE DEF log
  <2>3. QED
    BY <1>1, <2>1, <2>2, PlainGrows DEF IsOrch
<1> HIDE DEF log
<1>4. IsOrch(new) /\ new.pc = "answering"
  BY <1>1, <1>3 DEF IsOrch, OrchFields
<1> HIDE DEF new
<1>5. QED
  BY <1>1, <1>2, <1>4, GraphStep

(* An event list closed by its reason. *)
LEMMA ReasonLast ==
  ASSUME NEW events, Plain(events), NEW why \in Explaining
  PROVE  /\ Len(SelectEvents(Append(events, why))) <= MaxPersisted
         /\ \E n \in DOMAIN SelectEvents(Append(events, why)) :
               SelectEvents(Append(events, why))[n] = why
<1> DEFINE all == Append(events, why)
           last == Len(events) + 1
<1>1. events \in Seq(Event) /\ why \in Event
  BY DEF Plain, Event
<1>2. /\ all \in Seq(Event) /\ last \in DOMAIN all /\ all[last] = why
      /\ \A j \in DOMAIN all : j # last => j \in DOMAIN events /\ all[j] = events[j]
  BY <1>1
<1>3. \A j \in DOMAIN all : all[j] \in Explaining => j = last
  BY <1>2 DEF Plain
<1> HIDE DEF all, last
<1>4. /\ Len(SelectEvents(all)) <= MaxPersisted
      /\ \E n \in DOMAIN SelectEvents(all) : SelectEvents(all)[n] = all[last]
  BY <1>2, <1>3, Selected, ReasonKept
<1>5. QED
  BY <1>2, <1>4 DEF all

(* A turn whose run is finished. *)
Over(o, events, status, reply) == [Finished(o, events, status) EXCEPT !.reply = reply]

LEMMA FinishedState ==
  ASSUME NEW o, IsOrch(o), NEW events, NEW status \in RunStatus, NEW reply \in BOOLEAN,
         Len(SelectEvents(events)) <= MaxPersisted
  PROVE  LET new == Over(o, events, status, reply) IN
         /\ IsOrch(new) /\ new.pc = "audited" /\ new.reply = reply /\ new.rag = o.rag
         /\ new.run.status = status /\ new.run.trace = SelectEvents(events)
<1> DEFINE r == [status |-> status, trace |-> SelectEvents(events)]
<1>1. IsRun(r) /\ r.status = status /\ r.trace = SelectEvents(events)
  BY DEF IsRun
<1>2. Plain(<<>>)
  BY DEF Plain
<1>3. Finished(o, events, status) =
        [o EXCEPT !.pc = "audited", !.pending = <<>>, !.events = <<>>, !.run = r]
  BY DEF Finished
<1> HIDE DEF r
<1>4. QED
  BY <1>1, <1>2, <1>3 DEF IsOrch, OrchFields, Over

(* What the responder's answer leaves in the worker's session. *)
LEMMA AnsweredState ==
  ASSUME TurnInv, NEW k \in Usage, NEW reply \in BOOLEAN, Answered(k, reply),
         reply => message[k].text
  PROVE  LET new == orch'[k] IN
         /\ \E s : orch' = [orch EXCEPT ![k] = s]
         /\ IsOrch(new) /\ new.pc = "audited" /\ Explains(new.run)
         /\ new.reply <=> new.run.status = "completed"
         /\ new.reply /\ Facts(k) => new.rag = "found"
<1> DEFINE o == orch[k]
           passed == reply /\ ~Blocked(k, reply)
           audit == IF ~message[k].auditor THEN <<>>
                    ELSE IF Blocked(k, reply) THEN <<"auditor.blocked">>
                    ELSE <<"auditor.approved">>
           log == o.events \o audit
           events == log \o (IF passed THEN <<>> ELSE <<"run.escalated">>)
           status == IF passed THEN "completed" ELSE "escalated"
           new == Over(o, events, status, passed)
<1>1. IsOrch(o) /\ Set(k, new)
  BY DEF TurnInv, PhaseInv, Answered, Over
<1>2. Plain(log)
  <2>1. \A e \in {"auditor.blocked", "auditor.approved"} : e \in Event /\ e \notin Explaining
    BY DEF Event, Explaining
  <2>2. Plain(<<>>)
    BY DEF Plain
  <2>3. Plain(audit)
    BY <2>1, <2>2, PlainPair
  <2> HIDE DEF audit
  <2>4. QED
    BY <1>1, <2>3, PlainGrows DEF IsOrch
<1>3. passed => events = log
  <2>1. log \in Seq(Event)
    BY <1>2 DEF Plain
  <2>2. \A S : \A s \in Seq(S) : s \o <<>> = s
    OBVIOUS
  <2> HIDE DEF log, passed
  <2>3. log \o <<>> = log
    BY <2>1, <2>2
  <2>4. QED
    BY <2>3
<1>4. ~passed => events = Append(log, "run.escalated")
  <2>1. log \in Seq(Event)
    BY <1>2 DEF Plain
  <2>2. \A S : \A s \in Seq(S) : \A e : s \o <<e>> = Append(s, e)
    OBVIOUS
  <2> HIDE DEF log
  <2>3. QED
    BY <2>1, <2>2
<1> HIDE DEF log, events
<1> HIDE DEF passed
<1>5. /\ Len(SelectEvents(events)) <= MaxPersisted
      /\ ~passed => \E n \in DOMAIN SelectEvents(events) :
                       SelectEvents(events)[n] = "run.escalated"
  <2>1. CASE passed
    BY <1>2, <1>3, <2>1, Selected DEF Plain
  <2>2. CASE ~passed
    <3>1. "run.escalated" \in Explaining
      BY DEF Explaining
    <3>2. QED
      BY <1>2, <1>4, <2>2, <3>1, ReasonLast
  <2>3. QED
    BY <2>1, <2>2
<1>6. /\ passed \in BOOLEAN /\ status \in RunStatus
      /\ (status = "completed") = passed
      /\ status # "completed" => status = "escalated"
  BY DEF RunStatus, Blocked, passed
<1>7. passed /\ Facts(k) => o.rag = "found"
  BY DEF Facts, Blocked, passed
<1> HIDE DEF status
<1>8. /\ IsOrch(new) /\ new.pc = "audited" /\ new.reply = passed /\ new.rag = o.rag
      /\ new.run.status = status /\ new.run.trace = SelectEvents(events)
  BY <1>1, <1>5, <1>6, FinishedState
<1>9. orch'[k] = new /\ \E s : orch' = [orch EXCEPT ![k] = s]
  BY <1>1, SetIt
<1> HIDE DEF new
<1>10. Explains(new.run)
  BY <1>5, <1>6, <1>8 DEF Explains, status
<1>11. /\ new.reply <=> new.run.status = "completed"
       /\ new.reply /\ Facts(k) => new.rag = "found"
  BY <1>6, <1>7, <1>8, Zenon
<1>12. QED
  BY <1>8, <1>9, <1>10, <1>11

(* A step that leaves the turn audited. *)
LEMMA Audited ==
  ASSUME TurnInv, NEW k \in Usage, MeteredInv', UNCHANGED <<message, run, retrieved>>,
         orch[k].pc \in {"working", "answering"},
         \E s : orch' = [orch EXCEPT ![k] = s],
         IsOrch(orch'[k]), orch'[k].pc = "audited", Explains(orch'[k].run),
         orch'[k].reply <=> orch'[k].run.status = "completed",
         orch'[k].reply /\ Facts(k) => orch'[k].rag = "found",
         \A j \in Usage \ {k} : asked'[j] = asked[j] /\ turn'[j] = turn[j]
  PROVE  TurnInv'
<1>1. PhaseInv(k)
  BY DEF TurnInv
<1>2. Signal(k, FALSE) = "none"
  BY <1>1 DEF PhaseInv
<1>3. Signal(k, FALSE)' = Signal(k, FALSE) /\ Facts(k)' = Facts(k)
  BY DEF Facts, Signal, Fires
<1>4. PhaseInv(k)'
  BY <1>1, <1>2, <1>3 DEF PhaseInv
<1>5. QED
  BY <1>4, OneTurn

LEMMA RespondInv ==
  ASSUME TurnInv, NEW k \in Usage, Respond(k)
  PROVE  TurnInv' /\ [MeteredNext]_meteredVars
<1>1. /\ orch[k].pc = "answering" /\ UNCHANGED <<message, run, retrieved>>
      /\ MeteredInv /\ PhaseInv(k) /\ turn \in [Usage -> TurnState] /\ asked \in [Usage -> Nat]
  BY DEF Respond, TurnInv, MeteredInv, MeteredTypeOK
<1>2. CASE \E reply \in BOOLEAN :
              /\ Answered(k, reply) /\ (reply => message[k].text)
              /\ Decline(k) \/ CannotPay(k) \/ Known(k) \/ Complete(k) \/ Fail(k)
  <2>1. PICK reply \in BOOLEAN : Answered(k, reply) /\ (reply => message[k].text)
    BY <1>2
  <2>2. MeteredNext /\ EndTurn(k) /\ UNCHANGED asked
    BY <1>2 DEF MeteredNext, Begin, Proceed, Decline, CannotPay, Known, Complete, Fail
  <2>3. MeteredInv'
    BY <1>1, <2>2, MeteredKeeps
  <2>4. QED
    BY <1>1, <2>1, <2>2, <2>3, AnsweredState, OtherTurns, Audited
<1>3. CASE (Hold(k) \/ Ask(k)) /\ UNCHANGED orch
  <2>1. MeteredNext
    BY <1>3 DEF MeteredNext, Begin, Proceed
  <2>2. MeteredInv'
    BY <1>1, <2>1, MeteredKeeps
  <2>3. PICK pc \in {"holding", "waiting"} : GoTo(k, pc)
    BY <1>3 DEF Hold, Ask
  <2>4. InHand(k)'
    BY <1>1, <2>3 DEF GoTo, InHand
  <2>5. \A j \in Usage \ {k} : asked'[j] = asked[j]
    BY <1>1, <1>3 DEF Hold, Ask
  <2>6. Signal(k, FALSE)' = Signal(k, FALSE)
    BY <1>1 DEF Signal, Fires
  <2>7. PhaseInv(k)'
    BY <1>1, <1>3, <2>4, <2>6 DEF PhaseInv
  <2>8. QED
    BY <1>1, <1>3, <2>1, <2>2, <2>3, <2>5, <2>7, OtherTurns, OneTurn
<1>4. QED
  BY <1>2, <1>3 DEF Respond

LEMMA RaiseInv ==
  ASSUME TurnInv, NEW k \in Usage, Raise(k)
  PROVE  TurnInv' /\ [MeteredNext]_meteredVars
<1> DEFINE seen == IF orch[k].pc = "working" THEN <<>> ELSE orch[k].events
           log == Append(seen, "run.failed")
           new == Over(orch[k], log, "failed", FALSE)
<1>1. /\ orch[k].pc \in {"working", "answering"} /\ UNCHANGED <<message, run, retrieved>>
      /\ Set(k, new) /\ MeteredInv /\ PhaseInv(k) /\ IsOrch(orch[k])
  BY DEF Raise, Over, TurnInv, PhaseInv
<1>2. Plain(seen)
  BY <1>1 DEF Plain, IsOrch
<1>3. "run.failed" \in Explaining /\ "failed" \in RunStatus /\ FALSE \in BOOLEAN
  BY DEF Explaining, RunStatus
<1> HIDE DEF seen
<1>4. /\ Len(SelectEvents(log)) <= MaxPersisted
      /\ \E n \in DOMAIN SelectEvents(log) : SelectEvents(log)[n] = "run.failed"
  BY <1>2, <1>3, ReasonLast
<1> HIDE DEF log
<1>5. /\ IsOrch(new) /\ new.pc = "audited" /\ new.reply = FALSE
      /\ new.run.status = "failed" /\ new.run.trace = SelectEvents(log)
  <2>1. \A reply \in BOOLEAN :
           LET over == Over(orch[k], log, "failed", reply) IN
           /\ IsOrch(over) /\ over.pc = "audited" /\ over.reply = reply
           /\ over.run.status = "failed" /\ over.run.trace = SelectEvents(log)
    BY <1>1, <1>3, <1>4, FinishedState
  <2>2. QED
    BY <1>3, <2>1, Zenon
<1>6. orch'[k] = new /\ \E s : orch' = [orch EXCEPT ![k] = s]
  BY <1>1, SetIt
<1> HIDE DEF new
<1>7. Explains(new.run)
  BY <1>4, <1>5 DEF Explains
<1>8. Beginning(k) \/ InHand(k)
  BY <1>1 DEF PhaseInv
<1>9. /\ MeteredNext /\ UNCHANGED asked
      /\ EndTurn(k) \/ GoTo(k, "lost")
  <2>1. CASE turn[k].pc = "ready"
    <3>1. Decline(k)
      BY <1>8, <2>1 DEF Raise, Unasked, Decline, Escalate, InHand
    <3>2. QED
      BY <3>1 DEF MeteredNext, Begin, Decline
  <2>2. CASE turn[k].pc # "ready"
    <3>1. Crash(k)
      BY <2>2 DEF Raise
    <3>2. QED
      BY <3>1 DEF MeteredNext, Crash
  <2>3. QED
    BY <2>1, <2>2
<1>10. MeteredInv'
  BY <1>1, <1>9, MeteredKeeps
<1>11. QED
  BY <1>1, <1>5, <1>6, <1>7, <1>9, <1>10, OtherTurns, Audited

(* The turn's own step, with the brain and the wallet at rest. *)
LEMMA OwnStep ==
  ASSUME TurnInv, NEW k \in Usage, NEW state, Set(k, state),
         UNCHANGED <<meteredVars, message, retrieved>>, IsOrch(state),
         \/ /\ UNCHANGED run /\ state.run = orch[k].run /\ state.rag = orch[k].rag
            /\ orch[k].pc = "audited"
            /\ state.pc = (IF orch[k].reply THEN "replied" ELSE "handed")
         \/ /\ run' = [run EXCEPT ![k] = orch[k].run]
            /\ orch[k].pc \in {"handed", "replied"} /\ state.pc = "idle"
  PROVE  TurnInv'
<1>1. PhaseInv(k) /\ MeteredInv' /\ UNCHANGED <<turn, asked>>
  BY IdleInv DEF TurnInv, meteredVars, turnVars
<1>2. orch'[k] = state /\ \E s : orch' = [orch EXCEPT ![k] = s]
  BY SetIt
<1>3. Signal(k, FALSE)' = Signal(k, FALSE) /\ Facts(k)' = Facts(k)
  BY DEF Signal, Fires, Facts
<1>4. /\ (IsRun(run[k]) /\ Explains(run[k]))'
      /\ \/ UNCHANGED run
         \/ \E r : run' = [run EXCEPT ![k] = r]
  BY <1>1 DEF TurnInv, PhaseInv, IsOrch
<1>5. orch[k].reply \in BOOLEAN
  BY <1>1 DEF PhaseInv, IsOrch
<1>6. CASE orch[k].pc = "audited"
  <2>1. state.run = orch[k].run /\ state.rag = orch[k].rag /\ UNCHANGED <<run, retrieved>>
    BY <1>6
  <2>2. CASE orch[k].reply = TRUE
    <3>1. state.pc = "replied"
      BY <1>6, <2>2
    <3>2. PhaseInv(k)'
      BY <1>1, <1>2, <1>3, <1>4, <1>6, <2>1, <2>2, <3>1 DEF PhaseInv
    <3>3. QED
      BY <1>1, <1>2, <1>4, <3>2, OneTurn
  <2>3. CASE orch[k].reply = FALSE
    <3>1. state.pc = "handed"
      BY <1>6, <2>3
    <3>2. PhaseInv(k)'
      BY <1>1, <1>2, <1>3, <1>4, <1>6, <2>1, <2>3, <3>1 DEF PhaseInv
    <3>3. QED
      BY <1>1, <1>2, <1>4, <3>2, OneTurn
  <2>4. QED
    BY <1>5, <2>2, <2>3
<1>7. CASE state.pc = "idle"
  <2>1. orch'[k].pc = "idle" /\ IsOrch(orch'[k])
    BY <1>2, <1>7
  <2>2. PhaseInv(k)'
    <3>1. retrieved' = retrieved /\ asked' = asked
      BY <1>1
    <3>2. asked[k] > 0 \/ k \in retrieved => Signal(k, FALSE) = "none"
      BY <1>1 DEF PhaseInv
    <3>3. (asked[k] > 0 \/ k \in retrieved => Signal(k, FALSE) = "none")'
      BY <1>3, <3>1, <3>2
    <3>4. IsOrch(orch[k])'
      BY <2>1
    <3>5. (orch[k].pc = "idle")'
      BY <2>1
    <3>6. QED
      BY <1>4, <3>3, <3>4, <3>5 DEF PhaseInv
  <2>3. QED
    BY <1>1, <1>2, <1>4, <2>2, OneTurn
<1>8. QED
  BY <1>6, <1>7

LEMMA DeliverInv ==
  ASSUME TurnInv, NEW k \in Usage, Deliver(k)
  PROVE  TurnInv'
<1> DEFINE signal == Signal(k, ~orch[k].reply)
           pc == IF signal = "none" THEN "replied" ELSE "handed"
           new == [orch[k] EXCEPT !.pc = pc, !.reason = signal]
<1>1. /\ orch[k].pc = "audited" /\ UNCHANGED <<meteredVars, message, run, retrieved>>
      /\ Set(k, new) /\ IsOrch(orch[k]) /\ Signal(k, FALSE) = "none"
      /\ orch[k].reply \in BOOLEAN
  BY DEF Deliver, TurnInv, PhaseInv, IsOrch
<1>2. signal \in Reason /\ (signal = "none" <=> orch[k].reply)
  <2>1. CASE orch[k].reply = TRUE
    BY <1>1, <2>1 DEF Reason
  <2>2. CASE orch[k].reply = FALSE
    <3>1. signal = Signal(k, TRUE)
      BY <2>2
    <3>2. TRUE \in BOOLEAN
      OBVIOUS
    <3> HIDE DEF signal
    <3>3. QED
      BY <2>2, <3>1, <3>2, SignalType
  <2>3. QED
    BY <1>1, <2>1, <2>2
<1> HIDE DEF signal
<1>3. pc = (IF orch[k].reply THEN "replied" ELSE "handed")
  BY <1>2
<1>4. pc \in {"replied", "handed"}
  OBVIOUS
<1> HIDE DEF pc
<1>5. /\ IsOrch(new) /\ new.pc = pc /\ new.run = orch[k].run /\ new.rag = orch[k].rag
  BY <1>1, <1>2, <1>4 DEF IsOrch, OrchFields
<1> HIDE DEF new
<1>6. QED
  BY <1>1, <1>3, <1>5, OwnStep

LEMMA CommitTurnInv ==
  ASSUME TurnInv, NEW k \in Usage, CommitTurn(k)
  PROVE  TurnInv'
<1>1. IsRun(NoRun) /\ Plain(<<>>)
  BY TurnAssumption DEF IsRun, NoRun, RunStatus, Plain
<1>2. IsOrch(Idle) /\ Idle.pc = "idle"
  BY <1>1 DEF IsOrch, OrchFields, Idle, Reason
<1>3. QED
  BY <1>2, OwnStep DEF CommitTurn

LEMMA DieInv ==
  ASSUME TurnInv, NEW k \in Usage, Die(k)
  PROVE  TurnInv' /\ Abandoned(k)
<1> DEFINE state == [Idle EXCEPT !.pc = "lost"]
<1>1. /\ Abandoned(k) /\ UNCHANGED <<asked, message, run, retrieved>> /\ Set(k, state)
      /\ MeteredInv /\ PhaseInv(k)
  BY DEF Die, Abandoned, TurnInv
<1>2. IsRun(NoRun) /\ Plain(<<>>)
  BY TurnAssumption DEF IsRun, NoRun, RunStatus, Plain
<1>3. IsOrch(state) /\ state.pc = "lost"
  BY <1>2 DEF IsOrch, OrchFields, Idle, Reason
<1>4. orch'[k] = state /\ \E s : orch' = [orch EXCEPT ![k] = s]
  BY <1>1, SetIt
<1> HIDE DEF state
<1>5. MeteredInv' /\ GoTo(k, "lost")
  BY <1>1, AbandonedInv DEF Abandoned
<1>6. Signal(k, FALSE)' = Signal(k, FALSE)
  BY <1>1 DEF Signal, Fires
<1>7. PhaseInv(k)'
  BY <1>1, <1>3, <1>4, <1>6 DEF PhaseInv
<1>8. QED
  BY <1>1, <1>4, <1>5, <1>7, OtherTurns, OneTurn

(* Between the workers' steps: a payment, an operator, nothing. *)
LEMMA BesideInv ==
  ASSUME TurnInv, UNCHANGED orchVars, MeteredInv',
         \A k \in Usage : asked'[k] = asked[k] /\ turn'[k] = turn[k]
  PROVE  TurnInv'
<1>1. UNCHANGED <<message, orch, run, retrieved>>
  BY DEF orchVars
<1>2. ASSUME NEW k \in Usage PROVE PhaseInv(k)'
  <2>1. Signal(k, FALSE)' = Signal(k, FALSE)
    BY <1>1 DEF Signal, Fires
  <2>2. Facts(k)' = Facts(k) /\ Beginning(k)' = Beginning(k) /\ InHand(k)' = InHand(k)
    BY <1>1 DEF Facts, Beginning, InHand
  <2>3. PhaseInv(k)
    BY DEF TurnInv
  <2>4. QED
    BY <1>1, <2>1, <2>2, <2>3 DEF PhaseInv
<1>3. QED
  BY <1>1, <1>2 DEF TurnInv

(* Every step keeps the invariant and is, for the wallet, one of its own.  *)
LEMMA TurnKeeps ==
  ASSUME TurnInv, [TurnNext]_allVars
  PROVE  TurnInv' /\ [Next]_vars
<1>1. MeteredInv
  BY DEF TurnInv
<1>2. CASE UNCHANGED allVars
  <2>1. UNCHANGED meteredVars /\ UNCHANGED orchVars /\ UNCHANGED <<turn, asked>>
    BY <1>2 DEF allVars, meteredVars, turnVars
  <2>2. MeteredInv' /\ [Next]_vars
    BY <1>1, <2>1, IdleInv, MeteredKeeps
  <2>3. QED
    BY <2>1, <2>2, BesideInv
<1>3. ASSUME NEW m \in Merchant, NEW ref \in Reference, NEW a \in Amount,
             TopUp(m, ref, a), UNCHANGED <<turnVars, orchVars>>
      PROVE  TurnInv' /\ [Next]_vars
  <2>1. MeteredNext /\ UNCHANGED orchVars /\ UNCHANGED <<turn, asked>>
    BY <1>3 DEF MeteredNext, turnVars
  <2>2. MeteredInv' /\ [Next]_vars
    BY <1>1, <2>1, MeteredKeeps
  <2>3. QED
    BY <2>1, <2>2, BesideInv
<1>4. ASSUME NEW k \in Usage, OpenReview(k) \/ CloseReview(k), UNCHANGED orchVars
      PROVE  TurnInv' /\ [Next]_vars
  <2>1. MeteredNext /\ UNCHANGED <<turn, asked>>
    BY <1>4 DEF MeteredNext, OpenReview, CloseReview
  <2>2. MeteredInv' /\ [Next]_vars
    BY <1>1, <2>1, MeteredKeeps
  <2>3. QED
    BY <1>4, <2>1, <2>2, BesideInv
<1>5. ASSUME NEW k \in Usage, Preflight(k) \/ Respond(k) \/ Raise(k)
      PROVE  TurnInv' /\ [Next]_vars
  <2>1. TurnInv' /\ [MeteredNext]_meteredVars
    BY <1>5, PreflightInv, RespondInv, RaiseInv
  <2>2. QED
    BY <1>1, <2>1, MeteredKeeps
<1>6. ASSUME NEW k \in Usage,
             StartRun(k) \/ RunWorker(k) \/ EndGraph(k) \/ Deliver(k) \/ CommitTurn(k)
      PROVE  TurnInv' /\ [Next]_vars
  <2>1. UNCHANGED vars
    BY <1>6 DEF StartRun, RunWorker, EndGraph, Deliver, CommitTurn, meteredVars
  <2>2. QED
    BY <1>6, <2>1, StartRunInv, RunWorkerInv, EndGraphInv, DeliverInv, CommitTurnInv
<1>7. ASSUME NEW k \in Usage, Die(k) PROVE TurnInv' /\ [Next]_vars
  BY <1>1, <1>7, DieInv, AbandonedInv
<1>8. QED
  BY <1>2, <1>3, <1>4, <1>5, <1>6, <1>7 DEF TurnNext, Advance

THEOREM TurnInvariant == TurnSpec => []TurnInv
BY InitTurn, TurnKeeps, PTL DEF TurnSpec

(* What is stored of a turn has its type, and no trace is longer than the  *)
(* limit.                                                                  *)
THEOREM TurnTypeCorrect == TurnSpec => []TurnTypeOK
<1>1. TurnInv => TurnTypeOK
  BY DEF TurnInv, PhaseInv, IsOrch, IsRun, TurnTypeOK, MeteredInv
<1>2. QED
  BY <1>1, TurnInvariant, PTL

(* A message the policy hands over before the brain costs no call: not on  *)
(* any of the ways through the graph, the retrieval included.              *)
THEOREM HandoffNeverGenerates == TurnSpec => []HandoffSkipsGeneration
<1>1. TurnInv => HandoffSkipsGeneration
  <2>1. SUFFICES ASSUME TurnInv, NEW k \in Usage, Signal(k, FALSE) # "none"
                 PROVE  asked[k] = 0 /\ k \notin retrieved
    BY DEF HandoffSkipsGeneration
  <2>2. asked[k] \in Nat /\ ~(asked[k] > 0 \/ k \in retrieved)
    BY <2>1 DEF TurnInv, PhaseInv, MeteredInv, MeteredTypeOK
  <2>3. QED
    BY <2>2
<1>2. QED
  BY <1>1, TurnInvariant, PTL

(* No answer about a merchant's facts reaches the dispatcher without what  *)
(* the retrieval found, where the auditor is on.                           *)
THEOREM FactsHaveEvidence == TurnSpec => []FactsNeedEvidence
<1>1. TurnInv => FactsNeedEvidence
  BY DEF TurnInv, PhaseInv, Facts, FactsNeedEvidence
<1>2. QED
  BY <1>1, TurnInvariant, PTL

(* The run says completed when the policy lets the reply through, and only *)
(* then.                                                                   *)
THEOREM CompletedIsReplied == TurnSpec => []CompletedMeansReplied
<1>1. TurnInv => CompletedMeansReplied
  BY DEF TurnInv, PhaseInv, CompletedMeansReplied
<1>2. QED
  BY <1>1, TurnInvariant, PTL

(* A committed run has ended, and its trace has kept the reason however    *)
(* long it was and however small the limit.                                *)
THEOREM TraceAlwaysExplains == TurnSpec => []TraceExplains
<1>1. TurnInv => TraceExplains
  BY DEF TurnInv, PhaseInv, Explains, TraceExplains
<1>2. QED
  BY <1>1, TurnInvariant, PTL

(* Around the brain, the wallet still makes only its own transitions, so   *)
(* its money is kept, a call is asked about once, and a draft has been     *)
(* paid for, a worker's death at any point of the turn included.           *)
THEOREM TurnImplementsWallet == TurnSpec => ImplementsWallet
<1>1. TurnInit => Init
  BY DEF TurnInit, MeteredInit
<1>2. TurnInv /\ [TurnNext]_allVars => TurnInv' /\ [Next]_vars
  BY TurnKeeps
<1>3. QED
  BY <1>1, <1>2, InitTurn, PTL DEF TurnSpec, ImplementsWallet, Spec

THEOREM TurnMoneyKept ==
  TurnSpec => [](Solvent /\ HoldsAddUp /\ LedgerBalances) /\ ClosedForGood
BY TurnImplementsWallet, AlwaysSolvent, HoldsAlwaysAddUp, LedgerAlwaysBalances,
   ClosedStaysClosed, PTL DEF ImplementsWallet

THEOREM TurnAskedOnce == TurnSpec => [](AskedOnce /\ DraftedIsCharged)
<1>1. TurnInv => AskedOnce /\ DraftedIsCharged
  BY DEF TurnInv, MeteredInv, CallInv, AskedOnce
<1>2. QED
  BY <1>1, TurnInvariant, PTL

=============================================================================
