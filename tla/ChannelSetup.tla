---------------------------- MODULE ChannelSetup ----------------------------
(***************************************************************************)
(* POST /channels/telegram (app/channels/management.py) for one account of *)
(* the provider: each set-up proves that it has the account's token, saves *)
(* a new secret in the one connection row, registers the webhook with it   *)
(* and records how that went.  Several set-ups run at once, for this bot   *)
(* or another; an API process may die; the provider may act on a           *)
(* registration after its caller has given up.                             *)
(***************************************************************************)
EXTENDS Naturals, FiniteSets

CONSTANTS
  Setup,          \* requests; each mints one secret, which bears its name
  Bot,
  Nobody,
  MaxTimeouts,    \* bound: registrations given up
  MaxLost         \* bound: API processes that die

ASSUME ChannelAssumption ==
  /\ Nobody \notin Setup \cup Bot
  /\ MaxTimeouts \in Nat /\ MaxLost \in Nat

VARIABLES
  connection,     \* the row: its bot, secret and status
  lock,           \* who has the row FOR UPDATE
  setup,          \* [Setup -> its step, its bot, whether it found the row]
  hook,           \* the secret the provider sends with each webhook
  pending,        \* registrations the provider has not acted on
  late            \* registrations given up

channelVars == <<connection, lock, setup, hook, pending, late>>

Step == {"idle", "verified", "found", "saved", "calling", "applied",
         "failed", "done", "lost"}

Status == {"none", "connecting", "active", "degraded"}

TypeOK ==
  /\ connection \in [bot : Bot \cup {Nobody}, secret : Setup \cup {Nobody},
                     status : Status]
  /\ lock \in Setup \cup {Nobody}
  /\ setup \in [Setup -> [pc : Step, bot : Bot \cup {Nobody}, exists : BOOLEAN]]
  /\ hook \in Setup \cup {Nobody}
  /\ pending \cup late \subseteq Setup
  \* a live set-up that has begun to write is the row's own
  /\ \A s \in Setup : setup[s].pc \in {"saved", "calling", "applied", "failed"} =>
       connection = [bot |-> setup[s].bot, secret |-> s, status |-> "connecting"]

ChannelInit ==
  /\ connection = [bot |-> Nobody, secret |-> Nobody, status |-> "none"]
  /\ lock = Nobody
  /\ setup = [s \in Setup |-> [pc |-> "idle", bot |-> Nobody, exists |-> FALSE]]
  /\ hook = Nobody
  /\ pending = {} /\ late = {}

-----------------------------------------------------------------------------
Goes(s, pc) == setup' = [setup EXCEPT ![s].pc = pc]

(* getMe tells the account, or the request ends with 422. *)
Verify(s, b) ==
  /\ setup[s].pc = "idle"
  /\ \E pc \in {"verified", "done"} :
       setup' = [setup EXCEPT ![s] = [@ EXCEPT !.pc = pc, !.bot = b]]
  /\ UNCHANGED <<connection, lock, hook, pending, late>>

(* Variants of definitions below, each with one mistake, used to see that  *)
(* the properties notice it, stand before the definition they vary.        *)

(* The token is proof enough of owning the account. *)
TakenByNobody(b) == connection.status = "connecting"

(* Whoever sets up last, wins. *)
TakenByAnother(b) == connection.bot # b

(* 409: another merchant's or bot's, or being set up. *)
Taken(b) == connection.bot # b \/ connection.status = "connecting"

(* SELECT ... FOR UPDATE waits for whoever has the row, and sees it as     *)
(* they left it; a row that is not there locks nothing.                    *)
Find(s) ==
  /\ setup[s].pc = "verified"
  /\ \/ /\ connection.status = "none"
        /\ Goes(s, "found")
        /\ UNCHANGED lock
     \/ /\ connection.status # "none" /\ lock = Nobody
        /\ IF Taken(setup[s].bot)
             THEN Goes(s, "done") /\ UNCHANGED lock
             ELSE /\ setup' = [setup EXCEPT ![s] =
                                [@ EXCEPT !.pc = "found", !.exists = TRUE]]
                  /\ lock' = s
  /\ UNCHANGED <<connection, hook, pending, late>>

(* No unique key on the account. *)
SaveOver(s) ==
  /\ setup[s].pc = "found"
  /\ connection' = [bot |-> setup[s].bot, secret |-> s, status |-> "connecting"]
  /\ Goes(s, "saved")
  /\ lock' = IF lock = s THEN Nobody ELSE lock
  /\ UNCHANGED <<hook, pending, late>>

(* The commit of the secret and "connecting"; an insert meets the unique   *)
(* key of a row inserted since.                                            *)
Save(s) ==
  /\ setup[s].pc = "found"
  /\ IF setup[s].exists \/ connection.status = "none"
       THEN /\ connection' = [bot |-> setup[s].bot, secret |-> s,
                              status |-> "connecting"]
            /\ Goes(s, "saved")
       ELSE Goes(s, "done") /\ UNCHANGED connection
  /\ lock' = IF lock = s THEN Nobody ELSE lock
  /\ UNCHANGED <<hook, pending, late>>

(* TelegramAdapter.connect: setWebhook with the row's secret. *)
Register(s) ==
  /\ setup[s].pc = "saved"
  /\ Goes(s, "calling")
  /\ pending' = pending \cup {s}
  /\ UNCHANGED <<connection, lock, hook, late>>

(* The provider registers it, sooner or later. *)
Apply(s) ==
  /\ s \in pending
  /\ hook' = s
  /\ pending' = pending \ {s}
  /\ IF setup[s].pc = "calling" THEN Goes(s, "applied") ELSE UNCHANGED setup
  /\ UNCHANGED <<connection, lock, late>>

(* An answer is taken for success. *)
DeclineUnnoticed(s) ==
  /\ s \in pending
  /\ pending' = pending \ {s}
  /\ IF setup[s].pc = "calling" THEN Goes(s, "applied") ELSE UNCHANGED setup
  /\ UNCHANGED <<connection, lock, hook, late>>

(* The provider refuses it, or never had it. *)
Decline(s) ==
  /\ s \in pending
  /\ pending' = pending \ {s}
  /\ IF setup[s].pc = "calling" THEN Goes(s, "failed") ELSE UNCHANGED setup
  /\ UNCHANGED <<connection, lock, hook, late>>

(* Ten seconds without an answer: the transport failed. *)
TimeOut(s) ==
  /\ setup[s].pc = "calling"
  /\ Cardinality(late) < MaxTimeouts
  /\ late' = late \cup {s}
  /\ Goes(s, "failed")
  /\ UNCHANGED <<connection, lock, hook, pending>>

SettleAs(s, status) ==
  /\ connection' = [connection EXCEPT !.status = status]
  /\ Goes(s, "done")
  /\ UNCHANGED <<lock, hook, pending, late>>

Activate(s) == setup[s].pc = "applied" /\ SettleAs(s, "active")

(* The failure ends the request with 500. *)
DegradeRaised(s) ==
  /\ setup[s].pc \in {"applied", "failed"}
  /\ Goes(s, "done")
  /\ UNCHANGED <<connection, lock, hook, pending, late>>

(* ValueError: declined, given up, or answered with what cannot be read,   *)
(* like a result that is no object.                                        *)
Degrade(s) == setup[s].pc \in {"applied", "failed"} /\ SettleAs(s, "degraded")

(* The API process dies: its transaction is rolled back. *)
Lose(s) ==
  /\ setup[s].pc \notin {"idle", "done", "lost"}
  /\ Cardinality({t \in Setup : setup[t].pc = "lost"}) < MaxLost
  /\ lock' = IF lock = s THEN Nobody ELSE lock
  /\ Goes(s, "lost")
  /\ late' = IF s \in pending THEN late \cup {s} ELSE late
  /\ UNCHANGED <<connection, hook, pending>>

Proceed(s) ==
  \/ Find(s)
  \/ Save(s)
  \/ Register(s)
  \/ Apply(s)
  \/ Decline(s)
  \/ TimeOut(s)
  \/ Activate(s)
  \/ Degrade(s)

ChannelStep == \E s \in Setup : Proceed(s) \/ Lose(s) \/ \E b \in Bot : Verify(s, b)

ChannelSpec == ChannelInit /\ [][ChannelStep]_channelVars

-----------------------------------------------------------------------------
(* An active connection is one whose webhooks authenticate: the provider   *)
(* sends the secret of the row -- unless it has acted meanwhile on a       *)
(* registration that was given up.                                         *)
ActiveIsHeard ==
  connection.status = "active" => hook = connection.secret \/ hook \in late

(* "Persist the secret before registration so the first webhook can        *)
(* authenticate": whenever the provider begins to send a secret, the row   *)
(* has it already, however set-ups of the account race.                    *)
FirstWebhookAuthenticates ==
  [][hook' # hook => hook' = connection.secret \/ hook' \in late]_channelVars

(* "Never overwrite another merchant's connection, even with its token":   *)
(* the account stays with the bot that had it first, also when two insert  *)
(* its row at once.                                                        *)
NeverOverwritten ==
  [][connection.bot # Nobody => connection'.bot = connection.bot]_channelVars

(* "Channel setup is already in progress" is true only for a while: a      *)
(* set-up in progress leaves the connection active or degraded, so that    *)
(* the merchant can try again -- unless its process dies.                  *)
SetupSettles ==
  (connection.status = "connecting") ~>
    \/ connection.status # "connecting"
    \/ \E s \in Setup : setup[s].pc = "lost" /\ connection.secret = s

=============================================================================
