----------------------------- MODULE MCFailover -----------------------------
(* Instances of Failover for TLC; the values are in the .cfg files.        *)
EXTENDS FailoverHistory

Symmetry == Permutations(Request) \cup Permutations(Account)
=============================================================================
