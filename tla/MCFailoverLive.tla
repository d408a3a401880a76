--------------------------- MODULE MCFailoverLive ---------------------------
(* Failover for TLC's liveness run; the values are in FailoverLive.cfg.    *)
(* Neither the accounts nor the requests may be symmetric there, so the    *)
(* console is kept to some of the accounts: it lists, removes and switches *)
(* those while requests run, and the accounts of Kept stay enabled and at  *)
(* the front of the pool.                                                  *)
EXTENDS Failover

CONSTANT Kept

KeptStay ==
  /\ Cardinality(Kept) <= Len(pool)
  /\ \A i \in 1..Cardinality(Kept) : pool[i] \in Kept /\ enabled[pool[i]]

LiveInit == Init /\ KeptStay
LiveNext == Next /\ KeptStay'

LiveSpec == LiveInit /\ [][LiveNext]_vars /\ Fairness
=============================================================================
