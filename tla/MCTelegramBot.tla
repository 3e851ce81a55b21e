---------------------------- MODULE MCTelegramBot ----------------------------
(* TelegramBot on a small instance. *)
EXTENDS TelegramBot, TLC

Symmetry ==
    Permutations(Workspaces) \cup Permutations(Tokens) \cup Permutations(Handlers)
=============================================================================
