--------------------------- MODULE BotSetupProofs ---------------------------
(***************************************************************************)
(* What a merchant sets up, for any number of set-ups, bots, documents,    *)
(* workers, timeouts, crashes and redeliveries.                            *)
(*                                                                         *)
(* The channel: set-ups exclude each other by two means, the row's lock    *)
(* and the status "connecting"; Exclusion says how the one hands over to   *)
(* the other.  It and the type invariant make every registration that can  *)
(* still reach the provider either the row's own or a late one, which is   *)
(* what ActiveIsHeard needs.                                               *)
(*                                                                         *)
(* The documents: the invariant does not mention who runs when.  Every row *)
(* that was ever committed has its points in the store, for a run commits  *)
(* rows only after its upsert and nothing removes points; and rows are     *)
(* removed only by a commit that also decides the status.                  *)
(***************************************************************************)
EXTENDS BotSetup, TLAPS

Exclusion ==
  /\ connection.status = "none" <=> connection.bot = Nobody
  /\ \A s \in Setup : setup[s].pc = "found" /\ setup[s].exists =>
       /\ lock = s
       /\ connection.status \notin {"none", "connecting"}
       /\ connection.bot = setup[s].bot
  /\ \A s \in Setup : setup[s].pc \in {"idle", "verified"} => ~setup[s].exists
  /\ \A s \in Setup : setup[s].pc \notin {"idle", "done", "lost"} => setup[s].bot \in Bot

Registrations ==
  /\ \A s \in pending : setup[s].pc = "calling" \/ s \in late
  /\ \A s \in Setup : setup[s].pc = "applied" => hook = s \/ hook \in late

ChannelInv == TypeOK /\ Exclusion /\ Registrations /\ ActiveIsHeard

-----------------------------------------------------------------------------
(* Nothing has begun. *)
LEMMA ChannelInitInv == ChannelInit => ChannelInv
<1> SUFFICES ASSUME ChannelInit PROVE ChannelInv
  OBVIOUS
<1>1. TypeOK
  BY ChannelAssumption DEF ChannelInit, TypeOK, Step, Status
<1>2. Exclusion /\ Registrations /\ ActiveIsHeard
  BY DEF ChannelInit, Exclusion, Registrations, ActiveIsHeard
<1>3. QED BY <1>1, <1>2 DEF ChannelInv

(* A set-up that has proved its token has written nothing yet.             *)
LEMMA VerifyInv == ASSUME ChannelInv, NEW s \in Setup, NEW b \in Bot, Verify(s, b) PROVE ChannelInv'
<1> USE DEF ChannelInv
<1>1. PICK pc \in {"verified", "done"} :
        setup' = [setup EXCEPT ![s] = [@ EXCEPT !.pc = pc, !.bot = b]]
  BY DEF Verify
<1> DEFINE new == [setup[s] EXCEPT !.pc = pc, !.bot = b]
           SetupState == [pc : Step, bot : Bot \cup {Nobody}, exists : BOOLEAN]
<1>2. /\ setup' = [setup EXCEPT ![s] = new] /\ setup \in [Setup -> SetupState]
      /\ UNCHANGED <<connection, lock, hook, pending, late>>
  BY <1>1 DEF Verify, TypeOK
<1>3. new \in SetupState /\ new.pc = pc
  <2>1. setup[s] \in SetupState /\ pc \in Step /\ b \in Bot \cup {Nobody}
    BY <1>2 DEF Step
  <2>2. QED BY <2>1
<1>4. /\ setup' \in [Setup -> SetupState] /\ setup'[s].pc = pc
      /\ \A r \in Setup \ {s} : setup'[r] = setup[r]
  <2> HIDE DEF new, SetupState
  <2>1. QED BY <1>2, <1>3
<1>5. TypeOK'
  BY <1>2, <1>4 DEF TypeOK
<1>6. Exclusion'
  BY <1>1 DEF Verify, TypeOK, Exclusion
<1>7. (Registrations /\ ActiveIsHeard)'
  BY <1>1 DEF Verify, TypeOK, Registrations, ActiveIsHeard
<1>8. QED BY <1>5, <1>6, <1>7

(* The lock is taken only from nobody, so no other set-up has found the    *)
(* row and not yet saved it.                                               *)
LEMMA FindInv == ASSUME ChannelInv, NEW s \in Setup, Find(s) PROVE ChannelInv'
<1> USE DEF ChannelInv
<1>1. CASE Goes(s, "found") /\ connection.status = "none" /\ UNCHANGED lock
  BY <1>1 DEF Find, Goes, TypeOK, Exclusion, Registrations, ActiveIsHeard, Step
<1>2. CASE Goes(s, "done") /\ UNCHANGED lock
  BY <1>2 DEF Find, Goes, TypeOK, Exclusion, Registrations, ActiveIsHeard, Step
<1>3. CASE /\ connection.status # "none" /\ lock = Nobody /\ ~Taken(setup[s].bot)
           /\ setup' = [setup EXCEPT ![s] = [@ EXCEPT !.pc = "found", !.exists = TRUE]]
           /\ lock' = s
  <2>1. TypeOK'
    BY <1>3 DEF Find, TypeOK, Step
  <2>2. Exclusion'
    BY <1>3, ChannelAssumption DEF Find, Taken, TypeOK, Exclusion
  <2>3. (Registrations /\ ActiveIsHeard)'
    BY <1>3 DEF Find, TypeOK, Registrations, ActiveIsHeard
  <2>4. QED BY <2>1, <2>2, <2>3
<1>4. QED BY <1>1, <1>2, <1>3 DEF Find

(* What a set-up saves is its own row, for no live one has begun to write  *)
(* it: one would have the lock, or have been there first.                  *)
LEMMA SaveInv == ASSUME ChannelInv, NEW s \in Setup, Save(s) PROVE ChannelInv'
BY ChannelAssumption
   DEF Save, Goes, ChannelInv, TypeOK, Exclusion, Registrations, ActiveIsHeard, Step, Status

(* The registration on its way carries the secret of the row.              *)
LEMMA RegisterInv == ASSUME ChannelInv, NEW s \in Setup, Register(s) PROVE ChannelInv'
BY ChannelAssumption
   DEF Register, Goes, ChannelInv, TypeOK, Exclusion, Registrations, ActiveIsHeard, Step, Status

(* The provider begins to send a secret: the row's, or one given up.       *)
LEMMA ApplyInv == ASSUME ChannelInv, NEW s \in Setup, Apply(s) PROVE ChannelInv'
BY ChannelAssumption
   DEF Apply, Goes, ChannelInv, TypeOK, Exclusion, Registrations, ActiveIsHeard, Step, Status

(* A refusal changes neither the row nor the hook.                         *)
LEMMA DeclineInv == ASSUME ChannelInv, NEW s \in Setup, Decline(s) PROVE ChannelInv'
BY ChannelAssumption
   DEF Decline, Goes, ChannelInv, TypeOK, Exclusion, Registrations, ActiveIsHeard, Step, Status

(* A registration given up is late from then on, so what it may still do   *)
(* is allowed for.                                                         *)
LEMMA TimeOutInv == ASSUME ChannelInv, NEW s \in Setup, TimeOut(s) PROVE ChannelInv'
BY ChannelAssumption
   DEF TimeOut, Goes, ChannelInv, TypeOK, Exclusion, Registrations, ActiveIsHeard, Step, Status

(* The status follows the provider's answer; active only after it acted.   *)
LEMMA SettleInv ==
  ASSUME ChannelInv, NEW s \in Setup, Activate(s) \/ Degrade(s) PROVE ChannelInv'
<1> USE DEF ChannelInv
<1>1. PICK status \in {"active", "degraded"} :
        /\ setup[s].pc \in {"applied", "failed"}
        /\ status = "active" => setup[s].pc = "applied"
        /\ SettleAs(s, status)
  BY DEF Activate, Degrade
<1>2. connection = [bot |-> setup[s].bot, secret |-> s, status |-> "connecting"]
  BY <1>1 DEF TypeOK
<1>3. /\ connection' = [bot |-> setup[s].bot, secret |-> s, status |-> status]
      /\ setup' = [setup EXCEPT ![s].pc = "done"]
      /\ UNCHANGED <<lock, hook, pending, late>>
  BY <1>1, <1>2 DEF SettleAs, Goes
<1>4. setup[s].bot \in Bot /\ setup[s].bot # Nobody
  BY <1>1, ChannelAssumption DEF Exclusion
<1>5. ASSUME NEW r \in Setup, setup[r].pc \in {"saved", "calling", "applied", "failed"}
      PROVE  r = s
  BY <1>2, <1>5 DEF TypeOK
<1>6. TypeOK'
  BY <1>3, <1>4, <1>5 DEF TypeOK, Status, Step
<1>7. Exclusion'
  BY <1>2, <1>3, <1>4 DEF TypeOK, Exclusion
<1>8. Registrations'
  BY <1>1, <1>3 DEF TypeOK, Registrations
<1>9. ActiveIsHeard'
  BY <1>1, <1>3 DEF Registrations, ActiveIsHeard
<1>10. QED BY <1>6, <1>7, <1>8, <1>9

(* A lost process leaves its row connecting, and its call is given up.     *)
LEMMA LoseInv == ASSUME ChannelInv, NEW s \in Setup, Lose(s) PROVE ChannelInv'
BY ChannelAssumption
   DEF Lose, Goes, ChannelInv, TypeOK, Exclusion, Registrations, ActiveIsHeard, Step, Status

(* The invariant is inductive.                                             *)
LEMMA ChannelStepInv == ChannelInv /\ [ChannelStep]_channelVars => ChannelInv'
<1> SUFFICES ASSUME ChannelInv, [ChannelStep]_channelVars PROVE ChannelInv'
  OBVIOUS
<1>1. ASSUME NEW s \in Setup, Proceed(s) PROVE ChannelInv'
  BY <1>1, FindInv, SaveInv, RegisterInv, ApplyInv, DeclineInv, TimeOutInv, SettleInv
     DEF Proceed
<1>2. CASE UNCHANGED channelVars
  BY <1>2 DEF channelVars, ChannelInv, TypeOK, Exclusion, Registrations, ActiveIsHeard
<1>3. QED BY <1>1, <1>2, VerifyInv, LoseInv DEF ChannelStep

(* So it always holds.                                                     *)
LEMMA ChannelInvariant == ChannelSpec => []ChannelInv
BY ChannelInitInv, ChannelStepInv, PTL DEF ChannelSpec

-----------------------------------------------------------------------------
(* An active connection's webhooks authenticate, however many set-ups of   *)
(* the account race, die or are answered late (connect_channel).           *)
THEOREM ActiveHeard == ChannelSpec => []ActiveIsHeard
BY ChannelInvariant, PTL DEF ChannelInv

(* A live set-up that has begun to write has the row to itself until it    *)
(* has recorded the provider's answer.                                     *)
THEOREM TypeCorrect == ChannelSpec => []TypeOK
BY ChannelInvariant, PTL DEF ChannelInv

(* No set-up takes an account from the bot that has it (the 409 of         *)
(* connect_channel, and the unique key for the first two).                 *)
THEOREM AccountKept == ChannelSpec => NeverOverwritten
<1>1. ASSUME ChannelInv, [ChannelStep]_channelVars
      PROVE  [connection.bot # Nobody => connection'.bot = connection.bot]_channelVars
  <2>1. ASSUME NEW s \in Setup, Save(s), connection.bot # Nobody
        PROVE  connection'.bot = connection.bot
    BY <1>1, <2>1 DEF Save, ChannelInv, Exclusion
  <2>2. ASSUME NEW s \in Setup, Activate(s) \/ Degrade(s)
        PROVE  connection'.bot = connection.bot
    BY <1>1, <2>2 DEF Activate, Degrade, SettleAs, ChannelInv, TypeOK
  <2>3. ASSUME NEW s \in Setup,
               \/ Find(s) \/ Register(s) \/ Apply(s) \/ Decline(s) \/ TimeOut(s) \/ Lose(s)
               \/ \E b \in Bot : Verify(s, b)
        PROVE  connection' = connection
    BY <2>3 DEF Find, Register, Apply, Decline, TimeOut, Lose, Verify
  <2>4. QED BY <1>1, <2>1, <2>2, <2>3 DEF ChannelStep, Proceed
<1>2. QED BY <1>1, ChannelInvariant, PTL DEF ChannelSpec, NeverOverwritten

(* The secret is in the row before the provider can send it, unless its    *)
(* registration was given up: "Persist the secret before registration".    *)
THEOREM SecretFirst == ChannelSpec => FirstWebhookAuthenticates
<1>1. ASSUME ChannelInv, [ChannelStep]_channelVars
      PROVE  [hook' # hook => hook' = connection.secret \/ hook' \in late]_channelVars
  <2>1. ASSUME NEW s \in Setup, Apply(s) PROVE hook' = connection.secret \/ hook' \in late
    BY <1>1, <2>1 DEF Apply, ChannelInv, TypeOK, Registrations
  <2>2. ASSUME NEW s \in Setup,
               \/ Find(s) \/ Save(s) \/ Register(s) \/ Decline(s) \/ TimeOut(s)
               \/ Activate(s) \/ Degrade(s) \/ Lose(s) \/ \E b \in Bot : Verify(s, b)
        PROVE  hook' = hook
    BY <2>2 DEF Find, Save, Register, Decline, TimeOut, Activate, Degrade, SettleAs, Lose,
                Verify
  <2>3. QED BY <1>1, <2>1, <2>2 DEF ChannelStep, Proceed
<1>2. QED BY <1>1, ChannelInvariant, PTL DEF ChannelSpec, FirstWebhookAuthenticates

-----------------------------------------------------------------------------
(* The documents of a bot, from here on. *)
RowsHavePoints ==
  /\ \A d \in Document : rows[d] \subseteq points
  /\ \A w \in Loader : At(w, "stored") => loader[w].batch \in points

Held ==
  [pc : {"idle", "taken", "loaded", "working", "deleted", "stored", "failing"},
   doc : Document \cup {Nothing}, read : DocumentStatus, gone : SUBSET points,
   batch : Nat]

Typed ==
  /\ document \in [Document -> DocumentStatus]
  /\ rows \in [Document -> SUBSET points]
  /\ loader \in [Loader -> Held]
  /\ \A w \in Loader : ~At(w, "idle") => Doc(w) \in Document
  /\ minted \in Nat

KnowledgeInv == Typed /\ RowsHavePoints /\ ReadyIsSearchable

USE DEF KnowledgeInv, Typed, RowsHavePoints, ReadyIsSearchable, DocumentStatus, At, Doc,
        Held

-----------------------------------------------------------------------------
(* Nothing is stored, so nothing is ready.                                 *)
LEMMA KnowledgeInitInv == KnowledgeInit => KnowledgeInv
BY DEF KnowledgeInit, Free

(* A step that changes what one worker holds, and no store. *)
LEMMA LoaderInv ==
  ASSUME KnowledgeInv, NEW w \in Loader, NEW new \in Held,
         new.pc # "idle" => new.doc \in Document,
         new.pc # "stored",
         loader' = [loader EXCEPT ![w] = new],
         UNCHANGED <<document, rows, points>>, minted' \in Nat
  PROVE  KnowledgeInv'
<1>1. /\ loader' \in [Loader -> Held]
      /\ loader'[w] = new
      /\ \A v \in Loader \ {w} : loader'[v] = loader[v]
  BY Zenon
<1>2. \A v \in Loader : loader'[v].pc # "idle" => loader'[v].doc \in Document
  <2>1. ASSUME NEW v \in Loader, v # w
        PROVE  loader'[v].pc # "idle" => loader'[v].doc \in Document
    BY <1>1, <2>1
  <2>2. QED BY <1>1, <2>1
<1>3. \A v \in Loader : loader'[v].pc = "stored" => loader'[v].batch \in points'
  <2>1. ASSUME NEW v \in Loader, v # w
        PROVE  loader'[v].pc = "stored" => loader'[v].batch \in points'
    BY <1>1, <2>1
  <2>2. QED BY <1>1, <2>1
<1>4. Held' = Held
  OBVIOUS
<1>5. QED
  <2> HIDE DEF Held
  <2>1. QED BY <1>1, <1>2, <1>3, <1>4

(* A worker that is free holds nothing. *)
LEMMA FreeIsHeld == Free \in Held /\ Free.pc = "idle"
<1>1. {} \in SUBSET points /\ Nothing \in Document \cup {Nothing} /\ "none" \in DocumentStatus
  OBVIOUS
<1>2. 0 \in Nat
  OBVIOUS
<1>3. QED
  <2> HIDE DEF DocumentStatus
  <2>1. QED BY <1>1, <1>2, Zenon DEF Free

(* A worker takes a message: the stores are as they were. *)
LEMMA TakeInv == ASSUME KnowledgeInv, NEW w \in Loader, NEW d \in Document, Take(w, d) PROVE KnowledgeInv'
<1> DEFINE new == [loader[w] EXCEPT !.pc = "taken", !.doc = d]
<1>1. new \in Held /\ new.pc = "taken" /\ new.doc = d
  <2>1. loader[w] \in Held
    OBVIOUS
  <2>2. QED BY <2>1
<1>2. loader' = [loader EXCEPT ![w] = new] /\ UNCHANGED <<document, rows, points, minted>>
  BY DEF Take
<1>3. QED
  <2> HIDE DEF new
  <2>1. QED BY <1>1, <1>2, LoaderInv

(* The status is read, or the task is over. *)
LEMMA LoadInv == ASSUME KnowledgeInv, NEW w \in Loader, Load(w) PROVE KnowledgeInv'
<1>1. CASE document[Doc(w)] = "ready"
  <2>1. loader' = [loader EXCEPT ![w] = Free] /\ UNCHANGED <<document, rows, points, minted>>
    BY <1>1 DEF Load, Ends
  <2>2. QED BY <2>1, LoaderInv, FreeIsHeld
<1>2. CASE document[Doc(w)] # "ready"
  <2> DEFINE new == [loader[w] EXCEPT !.pc = "loaded", !.read = document[Doc(w)]]
  <2>1. new \in Held /\ new.pc = "loaded" /\ new.doc \in Document
    <3>1. loader[w] \in Held /\ document[Doc(w)] \in DocumentStatus
      BY DEF Load
    <3>2. QED BY <3>1 DEF Load
  <2>2. loader' = [loader EXCEPT ![w] = new] /\ UNCHANGED <<document, rows, points, minted>>
    BY <1>2 DEF Load
  <2>3. QED
    <3> HIDE DEF new
    <3>1. QED BY <2>1, <2>2, LoaderInv
<1>3. QED BY <1>1, <1>2

(* A document that is being processed is not ready.                        *)
LEMMA MarkInv == ASSUME KnowledgeInv, NEW w \in Loader, Mark(w) PROVE KnowledgeInv'
BY DEF Mark, Moves

(* The rows seen are deleted in the session only; the batch is new.        *)
LEMMA PrepareInv == ASSUME KnowledgeInv, NEW w \in Loader, Prepare(w) PROVE KnowledgeInv'
<1> DEFINE new == [loader[w] EXCEPT !.pc = "deleted", !.gone = rows[Doc(w)],
                                    !.batch = minted + 1]
<1>1. new \in Held /\ new.pc = "deleted" /\ new.doc \in Document
  <2>1. /\ loader[w] \in Held /\ loader[w].doc \in Document
        /\ rows[Doc(w)] \in SUBSET points /\ minted + 1 \in Nat
    BY DEF Prepare
  <2>2. ASSUME NEW r \in Held, NEW g \in SUBSET points, NEW b \in Nat
        PROVE  [r EXCEPT !.pc = "deleted", !.gone = g, !.batch = b] \in Held
    OBVIOUS
  <2>3. new \in Held
    <3> HIDE DEF Held, Doc
    <3>1. QED BY <2>1, <2>2
  <2>4. QED BY <2>1, <2>3
<1>2. /\ loader' = [loader EXCEPT ![w] = new] /\ minted' = minted + 1
      /\ UNCHANGED <<document, rows, points>>
  BY DEF Prepare
<1>3. QED
  <2> HIDE DEF new
  <2>1. minted' \in Nat
    BY <1>2
  <2>2. QED BY <1>1, <1>2, <2>1, LoaderInv

(* The store gains the batch that the run will commit rows for.            *)
LEMMA UpsertInv == ASSUME KnowledgeInv, NEW w \in Loader, Upsert(w) PROVE KnowledgeInv'
BY DEF Upsert, Moves

(* A failed run may leave points, and takes none away.                     *)
LEMMA FailInv == ASSUME KnowledgeInv, NEW w \in Loader, Fail(w) PROVE KnowledgeInv'
BY DEF Fail, Moves

(* READY is committed together with rows whose points are stored.          *)
LEMMA FinishInv == ASSUME KnowledgeInv, NEW w \in Loader, Finish(w) PROVE KnowledgeInv'
BY DEF Finish, Commit, Ends, Free

(* FAILED is no promise, and its commit adds no rows.                      *)
LEMMA GiveUpInv == ASSUME KnowledgeInv, NEW w \in Loader, GiveUp(w) PROVE KnowledgeInv'
BY DEF GiveUp, Commit, Ends, Free

(* A commit that failed changed nothing.                                   *)
LEMMA RaiseInv == ASSUME KnowledgeInv, NEW w \in Loader, Raise(w) PROVE KnowledgeInv'
<1>1. loader' = [loader EXCEPT ![w] = Free] /\ UNCHANGED <<document, rows, points, minted>>
  BY DEF Raise, Ends
<1>2. QED BY <1>1, LoaderInv, FreeIsHeld

(* Nor did a worker that was killed.                                       *)
LEMMA KillInv == ASSUME KnowledgeInv, NEW w \in Loader, Kill(w) PROVE KnowledgeInv'
<1>1. loader' = [loader EXCEPT ![w] = Free] /\ UNCHANGED <<document, rows, points, minted>>
  BY DEF Kill, Ends
<1>2. QED BY <1>1, LoaderInv, FreeIsHeld

(* A message comes again: the stores are as they were.                     *)
LEMMA RedeliverInv == ASSUME KnowledgeInv, NEW w \in Loader, Redeliver(w) PROVE KnowledgeInv'
BY DEF Redeliver

(* The invariant is inductive.                                             *)
LEMMA KnowledgeStepInv == KnowledgeInv /\ [KnowledgeStep]_knowledgeVars => KnowledgeInv'
<1> SUFFICES ASSUME KnowledgeInv, [KnowledgeStep]_knowledgeVars PROVE KnowledgeInv'
  OBVIOUS
<1>1. ASSUME NEW d \in Document, Upload(d) \/ Publish(d) PROVE KnowledgeInv'
  BY <1>1 DEF Upload, Publish
<1>2. ASSUME NEW w \in Loader, Ingest(w) PROVE KnowledgeInv'
  BY <1>2, LoadInv, MarkInv, PrepareInv, UpsertInv, FailInv, FinishInv, GiveUpInv, RaiseInv
     DEF Ingest
<1>3. CASE UNCHANGED knowledgeVars
  BY <1>3 DEF knowledgeVars
<1>4. QED BY <1>1, <1>2, <1>3, TakeInv, KillInv, RedeliverInv DEF KnowledgeStep

(* A document shown as ready has rows, and the vector store has the points *)
(* of every row (ingest_knowledge_document), whoever dies or runs twice.   *)
THEOREM ReadySearchable == KnowledgeSpec => []ReadyIsSearchable
<1> HIDE DEF KnowledgeInv, Typed, RowsHavePoints, ReadyIsSearchable, At, Doc
<1>1. KnowledgeInv => ReadyIsSearchable
  BY DEF KnowledgeInv
<1>2. QED BY KnowledgeInitInv, KnowledgeStepInv, <1>1, PTL DEF KnowledgeSpec

-----------------------------------------------------------------------------
(* Every message on the queue was published, or came again after one of    *)
(* the counted kills and redeliveries; every batch has been minted.        *)
Counted ==
  /\ upload \in [Document -> {"none", "stored", "accepted", "refused"}]
  /\ mishaps \in [copies : 0..MaxAgain, kills : 0..MaxKills, lost : SUBSET Document]
  /\ message \in [Document -> Nat]
  /\ \A d \in Document :
       message[d] <= (IF upload[d] = "accepted" THEN 1 ELSE 0) + mishaps.copies + mishaps.kills
  /\ raised \subseteq Document

Minted ==
  /\ minted \in Nat /\ points \subseteq 1..minted
  /\ \A w \in Loader : loader[w].batch \in 0..minted
  /\ \A w \in Loader : loader[w].pc \in {"deleted", "stored"} => loader[w].batch # 0
  /\ \A w \in Loader : loader[w].doc = Nothing <=> loader[w].pc = "idle"

CountInv == KnowledgeInv /\ Counted /\ Minted

HIDE DEF KnowledgeInv, Typed, RowsHavePoints, ReadyIsSearchable

LEMMA CountInit == KnowledgeInit => CountInv
<1> SUFFICES ASSUME KnowledgeInit PROVE CountInv
  OBVIOUS
<1>1. KnowledgeInv
  BY KnowledgeInitInv
<1>2. Counted
  BY KnowledgeAssumption DEF KnowledgeInit, Counted
<1>3. Minted
  BY DEF KnowledgeInit, Minted, Free
<1>4. QED BY <1>1, <1>2, <1>3 DEF CountInv

(* Only an upload, a take, a kill and a redelivery count. *)
LEMMA StepCounted ==
  ASSUME CountInv, [KnowledgeStep]_knowledgeVars
  PROVE  Counted'
<1> USE DEF CountInv
<1>1. \A w \in Loader : ~At(w, "idle") => Doc(w) \in Document
  BY DEF KnowledgeInv, Typed
<1>2. ASSUME NEW d \in Document, Upload(d) PROVE Counted'
  BY <1>2 DEF Upload, Counted
<1>3. ASSUME NEW d \in Document, Publish(d) PROVE Counted'
  BY <1>3 DEF Publish, Counted
<1>4. ASSUME NEW d \in Document, NEW w \in Loader, Take(w, d) PROVE Counted'
  BY <1>4 DEF Take, Counted
<1>5. ASSUME NEW w \in Loader, Raise(w) PROVE Counted'
  BY <1>1, <1>5 DEF Raise, Counted
<1>6. ASSUME UNCHANGED <<upload, message, raised, mishaps>> PROVE Counted'
  BY <1>6 DEF Counted
<1>7. ASSUME NEW w \in Loader,
             \/ Load(w) \/ Mark(w) \/ Prepare(w) \/ Upsert(w) \/ Fail(w)
             \/ Finish(w) \/ GiveUp(w)
      PROVE  Counted'
  BY <1>6, <1>7 DEF Load, Mark, Prepare, Upsert, Fail, Finish, GiveUp, Commit
<1>8. ASSUME NEW w \in Loader, Kill(w), ~UNCHANGED message PROVE Counted'
  <2>1. /\ mishaps' = [mishaps EXCEPT !.kills = @ + 1] /\ mishaps.kills < MaxKills
        /\ message' = [message EXCEPT ![Doc(w)] = @ + 1] /\ UNCHANGED <<upload, raised>>
    BY <1>8 DEF Kill
  <2>2. mishaps' \in [copies : 0..MaxAgain, kills : 0..MaxKills, lost : SUBSET Document]
        /\ mishaps'.copies = mishaps.copies /\ mishaps'.kills = mishaps.kills + 1
    BY <2>1, KnowledgeAssumption DEF Counted
  <2>3. /\ mishaps.copies \in Nat /\ mishaps.kills \in Nat
        /\ message \in [Document -> Nat]
    BY KnowledgeAssumption DEF Counted
  <2>4. message' \in [Document -> Nat]
    <3> DEFINE d == Doc(w)
    <3>1. message' = [message EXCEPT ![d] = message[d] + 1] /\ d \in Document
      BY <1>1, <1>8, <2>1 DEF Kill
    <3> HIDE DEF d
    <3>2. message[d] + 1 \in Nat
      BY <2>3, <3>1
    <3>3. QED BY <2>3, <3>1, <3>2
  <2>5. ASSUME NEW d \in Document PROVE message'[d] <= message[d] + 1
    BY <2>1, <2>3
  <2>6. ASSUME NEW d \in Document
        PROVE  message'[d] <= (IF upload'[d] = "accepted" THEN 1 ELSE 0)
                                + mishaps'.copies + mishaps'.kills
    <3> DEFINE up == IF upload[d] = "accepted" THEN 1 ELSE 0
    <3>1. up \in Nat /\ message[d] <= up + mishaps.copies + mishaps.kills
      BY DEF Counted
    <3>2. message'[d] \in Nat /\ message[d] \in Nat /\ message'[d] <= message[d] + 1
      BY <2>3, <2>4, <2>5
    <3>3. up = IF upload'[d] = "accepted" THEN 1 ELSE 0
      BY <2>1
    <3> HIDE DEF up
    <3>4. message'[d] <= up + mishaps'.copies + mishaps'.kills
      BY <2>2, <2>3, <3>1, <3>2
    <3>5. QED BY <3>3, <3>4
  <2>7. QED BY <2>1, <2>2, <2>4, <2>6 DEF Counted
<1>9. ASSUME NEW w \in Loader, Redeliver(w) PROVE Counted'
  <2>1. /\ mishaps' = [mishaps EXCEPT !.copies = @ + 1] /\ mishaps.copies < MaxAgain
        /\ message' = [message EXCEPT ![Doc(w)] = @ + 1] /\ UNCHANGED <<upload, raised>>
    BY <1>9 DEF Redeliver
  <2>2. mishaps' \in [copies : 0..MaxAgain, kills : 0..MaxKills, lost : SUBSET Document]
        /\ mishaps'.kills = mishaps.kills /\ mishaps'.copies = mishaps.copies + 1
    BY <2>1, KnowledgeAssumption DEF Counted
  <2>3. /\ mishaps.copies \in Nat /\ mishaps.kills \in Nat
        /\ message \in [Document -> Nat]
    BY KnowledgeAssumption DEF Counted
  <2>4. message' \in [Document -> Nat]
    <3> DEFINE d == Doc(w)
    <3>1. message' = [message EXCEPT ![d] = message[d] + 1] /\ d \in Document
      BY <1>1, <1>9, <2>1 DEF Redeliver
    <3> HIDE DEF d
    <3>2. message[d] + 1 \in Nat
      BY <2>3, <3>1
    <3>3. QED BY <2>3, <3>1, <3>2
  <2>5. ASSUME NEW d \in Document PROVE message'[d] <= message[d] + 1
    BY <2>1, <2>3
  <2>6. ASSUME NEW d \in Document
        PROVE  message'[d] <= (IF upload'[d] = "accepted" THEN 1 ELSE 0)
                                + mishaps'.copies + mishaps'.kills
    <3> DEFINE up == IF upload[d] = "accepted" THEN 1 ELSE 0
    <3>1. up \in Nat /\ message[d] <= up + mishaps.copies + mishaps.kills
      BY DEF Counted
    <3>2. message'[d] \in Nat /\ message[d] \in Nat /\ message'[d] <= message[d] + 1
      BY <2>3, <2>4, <2>5
    <3>3. up = IF upload'[d] = "accepted" THEN 1 ELSE 0
      BY <2>1
    <3> HIDE DEF up
    <3>4. message'[d] <= up + mishaps'.copies + mishaps'.kills
      BY <2>2, <2>3, <3>1, <3>2
    <3>5. QED BY <3>3, <3>4
  <2>7. QED BY <2>1, <2>2, <2>4, <2>6 DEF Counted
<1>10. ASSUME NEW w \in Loader, Kill(w), UNCHANGED message PROVE Counted'
  <2>1. CASE mishaps' = [mishaps EXCEPT !.kills = @ + 1, !.lost = @ \cup {Doc(w)}]
    <3>1. /\ mishaps.kills < MaxKills /\ Doc(w) \in Document /\ UNCHANGED <<upload, raised>>
      BY <1>1, <1>10 DEF Kill
    <3>2. /\ mishaps' \in [copies : 0..MaxAgain, kills : 0..MaxKills, lost : SUBSET Document]
          /\ mishaps'.copies = mishaps.copies /\ mishaps'.kills = mishaps.kills + 1
      <4> DEFINE kills == mishaps.kills + 1
                 lost == mishaps.lost \cup {Doc(w)}
      <4>1. mishaps \in [copies : 0..MaxAgain, kills : 0..MaxKills, lost : SUBSET Document]
        BY DEF Counted
      <4>2. kills \in 0..MaxKills /\ lost \in SUBSET Document
        BY <3>1, <4>1, KnowledgeAssumption
      <4>3. mishaps' = [mishaps EXCEPT !.kills = kills, !.lost = lost]
        BY <2>1
      <4> HIDE DEF kills, lost
      <4>4. /\ mishaps' \in [copies : 0..MaxAgain, kills : 0..MaxKills, lost : SUBSET Document]
            /\ mishaps'.copies = mishaps.copies /\ mishaps'.kills = kills
        BY <4>1, <4>2, <4>3
      <4>5. QED BY <4>4 DEF kills
    <3>3. mishaps.copies \in Nat /\ mishaps.kills \in Nat
      BY KnowledgeAssumption DEF Counted
    <3>4. QED BY <1>10, <3>1, <3>2, <3>3 DEF Counted
  <2>2. CASE message' = [message EXCEPT ![Doc(w)] = @ + 1]
    <3>1. message[Doc(w)] \in Nat /\ message'[Doc(w)] = message[Doc(w)] + 1
      BY <1>1, <1>10, <2>2 DEF Kill, Counted
    <3>2. QED BY <1>10, <3>1
  <2>3. QED BY <1>10, <2>1, <2>2 DEF Kill
<1>11. QED
  BY <1>2, <1>3, <1>4, <1>5, <1>6, <1>7, <1>8, <1>9, <1>10
     DEF KnowledgeStep, Ingest, knowledgeVars

(* A step of one worker that mints and stores nothing. *)
LEMMA MintedKept ==
  ASSUME Minted, NEW w \in Loader, NEW new, loader' = [loader EXCEPT ![w] = new],
         loader \in [Loader -> Held],
         UNCHANGED <<points, minted>>, new.batch \in 0..minted,
         new.pc \in {"deleted", "stored"} => new.batch # 0,
         new.doc = Nothing <=> new.pc = "idle"
  PROVE  Minted'
<1>1. loader'[w] = new /\ \A v \in Loader \ {w} : loader'[v] = loader[v]
  BY Zenon
<1>2. QED BY <1>1 DEF Minted

LEMMA StepMinted ==
  ASSUME CountInv, [KnowledgeStep]_knowledgeVars
  PROVE  Minted'
<1> USE DEF CountInv
<1>1. /\ loader \in [Loader -> Held] /\ minted \in Nat
      /\ \A w \in Loader : ~At(w, "idle") => Doc(w) \in Document
  BY DEF KnowledgeInv, Typed
<1>2. Free.batch = 0 /\ Free.pc = "idle" /\ Free.doc = Nothing
  BY DEF Free
<1>3. ASSUME NEW w \in Loader, Ends(w), UNCHANGED <<points, minted>> PROVE Minted'
  BY <1>1, <1>2, <1>3, MintedKept DEF Ends, Minted
<1>4. ASSUME NEW w \in Loader, NEW d \in Document, Take(w, d) PROVE Minted'
  <2> DEFINE new == [loader[w] EXCEPT !.pc = "taken", !.doc = d]
  <2>1. loader[w] \in Held
    BY <1>1
  <2>2. new.batch = loader[w].batch /\ new.pc = "taken" /\ new.doc = d
    BY <2>1 DEF Held
  <2>3. loader' = [loader EXCEPT ![w] = new] /\ UNCHANGED <<points, minted>>
    BY <1>4 DEF Take
  <2> HIDE DEF new
  <2>4. QED BY <1>1, <2>2, <2>3, MintedKept, KnowledgeAssumption DEF Minted
<1>5. ASSUME NEW w \in Loader, Load(w) PROVE Minted'
  <2>1. CASE Ends(w)
    BY <1>3, <1>5, <2>1 DEF Load
  <2>2. CASE ~Ends(w)
    <3> DEFINE new == [loader[w] EXCEPT !.pc = "loaded", !.read = document[Doc(w)]]
    <3>1. loader[w] \in Held
      BY <1>1
    <3>2. new.batch = loader[w].batch /\ new.pc = "loaded" /\ new.doc = loader[w].doc
      BY <3>1 DEF Held
    <3>3. /\ loader' = [loader EXCEPT ![w] = new] /\ UNCHANGED <<points, minted>>
          /\ loader[w].pc = "taken"
      BY <1>5, <2>2 DEF Load, At
    <3> HIDE DEF new
    <3>4. QED BY <1>1, <3>2, <3>3, MintedKept DEF Minted
  <2>3. QED BY <2>1, <2>2
<1>6. ASSUME NEW w \in Loader, NEW pc \in {"working", "stored", "failing"}, Moves(w, pc),
             loader[w].pc # "idle", pc = "stored" => loader[w].pc = "deleted",
             minted' = minted,
             points' \in {points} \cup {points \cup {b} : b \in {loader[w].batch} \ {0}}
      PROVE  Minted'
  <2> DEFINE new == [loader[w] EXCEPT !.pc = pc]
  <2>1. loader[w] \in Held
    BY <1>1
  <2>2. new.batch = loader[w].batch /\ new.pc = pc /\ new.doc = loader[w].doc
    BY <2>1 DEF Held
  <2>3. loader' = [loader EXCEPT ![w] = new]
    BY <1>6 DEF Moves
  <2> HIDE DEF new
  <2>4. loader'[w] = new /\ \A v \in Loader \ {w} : loader'[v] = loader[v]
    BY <1>1, <2>3, Zenon
  <2>5. points' \subseteq 1..minted'
    BY <1>1, <1>6 DEF Minted
  <2>6. QED BY <1>6, <2>2, <2>4, <2>5 DEF Minted
<1>7. ASSUME NEW w \in Loader, Mark(w) \/ Upsert(w) \/ Fail(w) PROVE Minted'
  <2>1. CASE Mark(w)
    BY <1>6, <2>1 DEF Mark, At
  <2>2. CASE Upsert(w)
    <3>1. loader[w].batch # 0
      BY <2>2 DEF Upsert, At, Minted
    <3>2. QED BY <1>6, <2>2, <3>1 DEF Upsert, At
  <2>3. CASE Fail(w)
    BY <1>6, <2>3 DEF Fail
  <2>4. QED BY <1>7, <2>1, <2>2, <2>3
<1>8. ASSUME NEW w \in Loader, Prepare(w) PROVE Minted'
  <2> DEFINE new == [loader[w] EXCEPT !.pc = "deleted", !.gone = rows[Doc(w)],
                                      !.batch = minted + 1]
  <2>1. DOMAIN loader[w] = {"pc", "doc", "read", "gone", "batch"}
    <3>1. loader[w] \in Held
      BY <1>1
    <3>2. QED BY <3>1 DEF Held
  <2>2. new.batch = minted + 1 /\ new.pc = "deleted" /\ new.doc = loader[w].doc
    BY <2>1
  <2>3. /\ loader' = [loader EXCEPT ![w] = new] /\ minted' = minted + 1
        /\ UNCHANGED points /\ loader[w].pc = "working"
    BY <1>8 DEF Prepare, At
  <2> HIDE DEF new
  <2>4. loader'[w] = new /\ \A v \in Loader \ {w} : loader'[v] = loader[v]
    BY <1>1, <2>3, Zenon
  <2>5. 1..minted \subseteq 1..(minted + 1) /\ 0..minted \subseteq 0..(minted + 1)
    BY <1>1
  <2>6. QED BY <1>1, <2>2, <2>3, <2>4, <2>5 DEF Minted
<1>9. ASSUME UNCHANGED <<loader, points, minted>> PROVE Minted'
  BY <1>9 DEF Minted
<1>10. ASSUME NEW w \in Loader, Finish(w) \/ GiveUp(w) \/ Raise(w) \/ Kill(w) PROVE Minted'
  BY <1>3, <1>10 DEF Finish, GiveUp, Raise, Kill, Commit
<1>11. ASSUME NEW w \in Loader, Redeliver(w) PROVE Minted'
  BY <1>9, <1>11 DEF Redeliver
<1>12. ASSUME NEW d \in Document, Upload(d) \/ Publish(d) PROVE Minted'
  BY <1>9, <1>12 DEF Upload, Publish
<1>13. QED
  BY <1>4, <1>5, <1>7, <1>8, <1>9, <1>10, <1>11, <1>12
     DEF KnowledgeStep, Ingest, knowledgeVars

LEMMA CountInvariant == KnowledgeSpec => []CountInv
<1>1. CountInv /\ [KnowledgeStep]_knowledgeVars => CountInv'
  BY KnowledgeStepInv, StepCounted, StepMinted DEF CountInv
<1>2. QED BY <1>1, CountInit, PTL DEF KnowledgeSpec

(* A message is on the queue at most once for its upload, each kill and    *)
(* each redelivery, and no row or point is of a batch not yet minted.      *)
THEOREM KnowledgeTypeCorrect == KnowledgeSpec => []KnowledgeTypeOK
<1>1. CountInv => KnowledgeTypeOK
  <2> SUFFICES ASSUME CountInv PROVE KnowledgeTypeOK
    OBVIOUS
  <2>1. /\ document \in [Document -> DocumentStatus] /\ loader \in [Loader -> Held]
        /\ \A d \in Document : rows[d] \subseteq points
    BY DEF CountInv, KnowledgeInv, Typed, RowsHavePoints
  <2>2. \A d \in Document : rows[d] \subseteq 1..minted
    BY <2>1 DEF CountInv, Minted
  <2>3. message \in [Document -> 0..(1 + MaxAgain + MaxKills)]
    BY KnowledgeAssumption DEF CountInv, Counted
  <2>4. \A w \in Loader :
          /\ loader[w].pc \in {"idle", "taken", "loaded", "working", "deleted",
                               "stored", "failing"}
          /\ loader[w].doc \in Document \cup {Nothing}
          /\ (loader[w].doc = Nothing) = (loader[w].pc = "idle")
    BY <2>1 DEF Held, CountInv, Minted
  <2>5. QED
    BY <2>1, <2>2, <2>3, <2>4 DEF CountInv, Counted, Minted, KnowledgeTypeOK
<1>2. QED BY <1>1, CountInvariant, PTL

-----------------------------------------------------------------------------
(* The two pages together are what each is alone. *)
LEMMA TwoPages == Spec => ChannelSpec /\ KnowledgeSpec
<1>1. Init => ChannelInit /\ KnowledgeInit
  BY DEF Init
<1>2. [Next]_vars => [ChannelStep]_channelVars /\ [KnowledgeStep]_knowledgeVars
  BY DEF Next, vars
<1>3. QED BY <1>1, <1>2, PTL DEF Spec, ChannelSpec, KnowledgeSpec

THEOREM BotSetupTypeCorrect == Spec => []BotSetupTypeOK
BY TwoPages, TypeCorrect, KnowledgeTypeCorrect, PTL DEF BotSetupTypeOK

=============================================================================
