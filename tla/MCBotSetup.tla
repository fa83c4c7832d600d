----------------------------- MODULE MCBotSetup -----------------------------
(* Three set-ups of one account for two bots, two registrations given up   *)
(* and a process lost; one document and two workers, killed twice with or  *)
(* without their message, a message delivered again and a commit that      *)
(* fails.                                                                  *)
EXTENDS BotSetup
=============================================================================
