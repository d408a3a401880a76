----------------------------- MODULE MCChatTurn -----------------------------
(* An instance of ChatTurn for TLC; the other values are in the .cfg.      *)
EXTENDS ChatTurn

(* One report with cache details and one without.                          *)
MCUsage == {[tokens |-> 1, cached |-> 1], [tokens |-> 2, cached |-> NoDetails]}

(* Ids and arguments are only compared for equality.                       *)
Symmetry == Permutations(CallId) \cup Permutations(Args)
=============================================================================
