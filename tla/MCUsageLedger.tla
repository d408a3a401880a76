--------------------------- MODULE MCUsageLedger ---------------------------
(* Turns, accounts and ids are interchangeable.                            *)
EXTENDS UsageLedger, TLC

Symmetry == Permutations(Turn) \cup Permutations(Account) \cup Permutations(Id)

=============================================================================
