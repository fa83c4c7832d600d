----------------------------- MODULE MCConsole -----------------------------
(* Two conversations on pages of one, two requests under way at once,      *)
(* two logins, and a message that moves a conversation up or down.         *)
EXTENDS Console, TLC

Symmetry == Permutations(Slot) \cup Permutations(Token)
=============================================================================
