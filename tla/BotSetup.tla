------------------------------ MODULE BotSetup ------------------------------
(***************************************************************************)
(* What a merchant does before a bot can answer: its channel is set up and *)
(* its documents are made searchable.  The two share no row but the bot's, *)
(* which neither writes, and no property relates them: a behaviour is of   *)
(* one of the two pages, and nothing is lost by not interleaving them.     *)
(***************************************************************************)
EXTENDS ChannelSetup, Knowledge

VARIABLE page   \* the one this behaviour is about

vars == <<channelVars, knowledgeVars, page>>

Init ==
  /\ ChannelInit /\ KnowledgeInit
  /\ page \in {"channels", "knowledge"}

Next ==
  \/ page = "channels" /\ ChannelStep /\ UNCHANGED <<knowledgeVars, page>>
  \/ page = "knowledge" /\ KnowledgeStep /\ UNCHANGED <<channelVars, page>>

Spec == Init /\ [][Next]_vars

(* A request goes on -- its one call ends, by the timeout at the latest -- *)
(* a message on the queue is taken, and its task goes on.                  *)
FairSpec ==
  /\ Spec
  /\ \A s \in Setup :
       WF_vars(page = "channels" /\ Proceed(s) /\ UNCHANGED <<knowledgeVars, page>>)
  /\ \A w \in Loader :
       WF_vars(page = "knowledge" /\ Ingest(w) /\ UNCHANGED <<channelVars, page>>)
  /\ \A d \in Document :
       SF_vars(/\ page = "knowledge"
               /\ (\E w \in Loader : Take(w, d)) /\ UNCHANGED <<channelVars, page>>)

-----------------------------------------------------------------------------
BotSetupTypeOK == TypeOK /\ KnowledgeTypeOK

=============================================================================
